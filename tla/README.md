# Verification of carnelian-compiler

carnelian-compiler translates Ruby into RITE bytecode (mruby) and is a port, in
Rust, of the C code generator `mruby-compiler2`. This directory holds TLA+ models
of its code generator and of what becomes of its output (the bytes of the code,
the file, the debug section) and of the pass in front of it that says which variable
a name means, TLC runs that check them, and TLAPS proofs about what every handler
shares (the code buffer, as instructions and as bytes, and the literals, symbols,
lines and locals that become an irep with it) and about the file, written and read back.

The program is sequential. What is hard about it is not interleaving but
*protocol*: some hundred node handlers share one mutable scope (stack pointer,
code buffer, last instruction, last label, chains of pending jumps, loop frames,
catch table, literals, lines), each relies on what the others left in it, and a
peephole optimiser rewrites code behind their backs. A mistake shows as bytecode
that does something else than the program, often only for one combination of
three or four constructs, one of them discarded and another one raising.

## 1. Inventory

| Part | State | Operations | What makes it correct | Modelled in |
|---|---|---|---|---|
| `Scope` (codegen.rs) | `sp`, `nregs`, `iseq`/`pc`, `lastpc`, `lastlabel`, `loops`, `catch_table` | `push_n`, `pop_n`, `genop_*`, `new_label`, `genjmp`, `genjmp2`, `dispatch`, `dispatch_linked`, `gen_move`, `gen_return`, `gen_int`, `gen_setupvar`, `gen_setxv`, `loop_push`, `loop_pop`, `catch_new`, `catch_set` | the peephole only touches the last complete instruction, never crosses a label, never removes a jump; jump chains are disjoint lists; `nregs` covers all registers | Scope, Emitter, Listing |
| Opcodes (opcode.rs, codegen.rs) | bytes of the code | `genop_*`, `gen_jmpdst`, `dispatch`, `insn_size`, `decode_at`, `prev_pc`, `last_insn` | what is decoded is what was emitted, with and without EXT prefixes | Bytes, Image, Listing |
| Node handlers (handlers.rs) | `Codegen`: session, open scopes, root irep; per handler its local variables | one `gen_*` per node kind, dispatched by `codegen` with `val` (is the value wanted) | the bytecode means what the node means; a node leaves its value, and nothing else, on the register stack | Calls, Values, Control, Writes, Patterns, Params, Definitions, Codegen, Compile |
| Pools, lines, `finish` (codegen.rs) | literals, symbols, line of each byte, names of locals | `new_lit_*`, `new_sym`, `emit_b`, `finish`, `pop_scope` | an operand names the literal it was emitted for, whatever is shared or taken back | Ireps |
| RITE writer/reader (writer.rs, reader.rs, irep.rs) | byte buffer, cursor | `write_rite`, `read_rite`, `roundtrip` | sizes fit, reading what was written gives it back | Layout, Wire, Rite |
| Debug section (debug.rs) | none | `pack_line_map`, sizes, `without_debug` | unpacking gives the lines back; stripping leaves no trace | Lines, Layout, Wire, Rite |
| Syntax tree (carnelian-ast) | tree, symbol pool | node views | the two representations show handlers the same tree | as the trees of Codegen |
| MRI front end: scopes (scope.rs) | frames: names in the order of their declaration, barrier, numbered parameters | `lookup`, `declare`, `note_numbered`, `resolve_read`, `bind_write`, `walk` | every name is the variable or the call Ruby reads it as; every scope has its locals in the order of their registers | Names, Reading |
| MRI front end: parsing and lowering (parse.rs, lower.rs) | symbol pool | node by node | the tree means the text | Reading, as far as the order of names goes |
| Prism front end | FFI tree | adapter, lowering | as above | - |
| CLI, corpus runner | files | compile, verify, baseline | a row that got worse fails the check | - |
| Playground | files | pages | - | - |

Interaction. A front end produces a tree; `compile_tree` walks it once with
`codegen`; a handler calls `codegen` on children and the methods of the innermost
`Scope`; a block, `for` or body of a method opens a scope (`push_body`) and closes
it (`pop_scope`), which finishes the irep and appends it to the parent or makes it
the root; the writer serialises the root, the reader reads it back for `verify`
and `roundtrip`.

Hard behaviour (the full list, each at its line, is under `hazards` in
`PROJECT.json`): stale `lastpc`/`lastlabel`; a chain patched twice or never; labels
set after the jump that reads them; catch ranges taken from `pc` without a
peephole barrier; order in the catch table; `sp` out of step between the valued
and the discarded form of a construct; jumps that must run `ensure` clauses;
`$!` on every way out of `rescue` and `ensure`; upvar levels across `for`; lists
gathered in mid-course at a stack limit; operands, offsets, integers, literals and
lines at the limits of their width; sizes computed ahead of what they count.

Notes on what cannot occur: nothing runs concurrently, nothing is persisted
between runs, and no message is sent, so there are no hazards of these kinds.

## 2. Modules

```
Listing    what the code buffer promises, abstractly
Scope      the methods of Scope on decoded instructions           (codegen.rs)
 |- Emitter        Scope with an arbitrary client: state machine; implements Listing
 |   |- EmitterMC        a small instance
 |   `- Emitter_proofs   theorems
 `- Calls          the calls handlers make, as data
     `- Values         literals, strings, arrays, hashes, calls   (handlers.rs)
         `- Control        conditions, loops, begin, jumps
             `- Writes         writes, op-writes, multiple assignment
                 `- Patterns       case/in, in, =>
                     `- Definitions    blocks, lambdas, methods, classes, yield,
                         |             super (with Params)
                         `- Codegen        the driver: state machine
                             `- Compile        Codegen, then Machine and Ruby side by side
                                 |- Machine        the virtual machine (external)
                                 |- Ruby           the language (external)
                                 |- Objects        their values (external)
                                 `- CompileMC      the dialects the runs use
Bytes      the code buffer as bytes: encoding, decoding, jumps    (codegen.rs, opcode.rs)
 |- Bytes_proofs       what is written reads back (with Induction)
 `- Image          Bytes with an arbitrary client; implements Listing
     |- ImageMC
     `- Image_proofs       the inductive invariant; every request is answered;
                           the refinement (with Bytes_proofs)
Induction  induction over the natural numbers, and recursion towards a bound
Names      which variable a name means                (front-mri/scope.rs)
 `- Reading        a text read, lowered and resolved   (front-mri/lower.rs, lib.rs)
     `- ReadingMC
Lines      the packed map of the lines of a scope     (debug.rs)
 `- Layout         an irep, its record and its debug record   (writer.rs, debug.rs)
     |- Ireps          scopes with pools and lines, finished: state machine (codegen.rs)
     |   `- Ireps_proofs       line maps and records; ireps say what was asked
     |                         (with Induction)
     `- Wire           the file: writer, reader       (writer.rs, reader.rs, debug.rs)
         `- Rite           Ireps, and the file written and read back (with Wire)
             |- Rite_proofs        the file is as long as counted (with Ireps_proofs)
             |   `- Reader_proofs      the reader takes the records that were written
             |       `- ReadBack_proofs    files are read back, and written the same
             `- Contents       what a reader and a debugger find in the file
                 `- RiteMC
```

**Scope.** The scope is a record; each operator is named after the method and
returns the scope after it. Code is a sequence of decoded instructions
`[op, a, b, c]`; `pc` is its length; rewinding `pc` truncates it. Jump operands
are positions, or a link of a chain of pending jumps: the negative number of an
instruction, so a link is never mistaken for a position (in the program both are
16-bit offsets, see Bytes). Refusals (`push_n`, `pop_n`, jump too far, too many
locals) are predicates next to the operator.

**Emitter.** A scope and a client that makes any call with any operands, in any
order. It keeps what a handler keeps: the positions it was given (`labels`) and
the links it must still land (`held`); `moving` is the recursive call of
`gen_move`, a step of its own here. The one rule for the client is the one the
handlers obey: a link goes into one place (it is extended by a jump, or landed).
Whatever holds of Emitter holds of every handler, modelled or not.

**Listing.** The abstract code buffer: a list of instructions that grows at its
end, in place of the last few when these are behind the last label and none is a
jump; a pending jump may be told that its target is the end of the list, which
thereby becomes a label. Nothing else ever happens to emitted code. Emitter
implements it with `code` and `lastlabel` of the scope (`Buffer` in Emitter), Image
with the listing its bytes decode to (`Buffer` there): the first says which
instructions a peephole may take back, the second that the bytes follow.

**Bytes, Image.** The same buffer, encoded: a byte is a value below `Base` or an
opcode, so decoding that is out of step is caught on its first byte. Bytes has
the emitters `genop_*` with their EXT prefixes, the decoder (`fetch`,
`decode_at`), `insn_size`, `prev_pc` and `last_insn`, `gen_int` and `int_operand`,
the negation in `gen_uniop`, and jumps as 16-bit offsets with the chain of links
in their slots. Image drives it with any calls; which instruction a peephole takes
back is free. What each emitter chooses to take back is Scope's subject.

**Codegen.** A handler is a sequence of calls: `Gen(child, val)`, `Push`, `Jump`,
`Land`, `CatchIs`, ... with named local variables, written in the order of the Rust
code; the sequence is chosen by the same conditions. Calls defines them; Values,
Control, Writes, Patterns and Definitions hold the handlers. `cg.todo` holds the
calls still to be made, that is, the call stack of the recursive program
flattened. `CodeNode` makes the calls of a handler up to its next child and
*chooses that child*: the syntax tree is grown during compilation, so a run covers
every tree its dialects allow. A *dialect* is a part of the language: the kinds of
node, for kinds with lists of children the *forms* these may have (`<<"any",
"arg", "splat">>`: a receiver, an argument, an argument under `*`), the number of
inner nodes in a tree and the answers that calls may get. Each program is written
in one of the constant `Dialects` (`CompileMC` names them), which keeps constructs
that do not interact out of each other's trees. What a parent looks at before
coding a child (`const_true`, a `nil?` predicate, the number of items of a literal
array) is fixed with the parent. `EndNode` returns to the parent. `Accepted` keeps
out the programs no parser accepts (`break` outside a loop, ...).

**Machine, Ruby, Compile.** When a program is compiled, `Compile` starts two
interpreters: `Machine` runs the finished ireps (frames, registers, catch tables
searched from the end, `JMPUW`/`BREAK`/`RETURN_BLK` unwinding through ensure
handlers, `ENTER` and the keyword instructions; a register that a call may have
overwritten holds `Junk`), and `Ruby` evaluates the tree by continuations. Both
stop at every call they make. The environment answers both alike: it returns an
object or nil, takes a value apart for a pattern, raises a StandardError or
another class (`"own"`), or runs the block, lambda or method once more with one
of the argument lists it may be given, as far as the dialect has these answers.
`Agree` says they always stop at the same call, with the same operands and the
same `$!`, with the same variables written, and end with the same outcome. The
virtual machine and the language are not in the repository; they are modelled from
what the handlers emit for them and marked external in the map.

**Lines, Layout, Wire.** These are the file format as functions. Lines packs the
line of each byte into differences and finds the line of a position in them, as
the virtual machine does; Layout is an irep, with the records of the code and of
the debug section that belong to it alone and the sizes counted ahead of them;
Wire puts the records of the tree together, strips them, and reads a file with
a cursor that fails where the code returns an error. What the code does by calling
itself for the nested ireps is a function on the set `Trees` of the ireps that are
nested at most `Depth` deep, a bound of the model: such a function can be reasoned
about, and a recursive operator cannot. The reader does not know its tree yet; its
functions are on positions in the file.

**Ireps, Rite.** Ireps is the state machine in front of the file: scopes are opened
and closed, bytes emitted under the line that is active, patched, and taken back;
literals and symbols are shared and refused at the limits of their pools. It keeps
beside this what each scope was *asked* for, and says what an irep must then look
like. Rite writes the root when it is finished, reads it and writes it again.
Contents compares what was asked for with what a reader of the file, and a debugger
that adds up the deltas of its line maps, will find.

**Names, Reading.** Names is the resolver: the frames and what each method does to
them, and the walk, whose recursion is a list of tasks as in Codegen, one action
per kind of node. It works on a tree of nodes with named fields; kinds that bind
nothing and only have their fields walked (`Passed`) are there for the order in
which they have them walked. Reading puts a front end before it: a text is read
from left to right, each construct chosen when it comes, and what a name means is
settled when it is read, by the names in the text before it. That is Ruby, and the
parser (lib-ruby-parser, external) does the same, except that it does not know
that a regular expression declares its captures. It hands over a tree in which a
name it knows is a variable, and any other a call; the lowering brings conditions
in front of what they decide and parameters into their slots; and Names resolves
what comes out. The lowering of the other nodes changes no order and is left out.

Definitions commented *Faulty variant* are deliberately wrong forms of the
definition that follows them. No specification uses them; each one shows, by
replacing its original, that a property notices such a mistake (`mutants` in
`PROJECT.json`).

## 3. Properties and runs

| Run | Instance | Properties | Shows |
|---|---|---|---|
| Emitter | EmitterMC: one local, one temporary, six operations, three instructions | TypeOK, LastInsnExact, BarrierHolds, ChainsDescend, ChainsDisjoint, PeepholeKeepsLabelled, ImplementsListing | the peephole decodes the last complete instruction, keeps labelled code and jumps; chains are disjoint lists |
| Image | ImageMC: bytes of four values; clients Shaped (every shape and width, 9 bytes), Counting (integers at every boundary), Jumping (11 bytes) | TypeOK, LastInsnDecodes, ChainsKept, ImplementsListing, DoesAsAsked | bytes decode to what was asked for; the offsets in the slots of pending jumps make chains |
| Jumps | Looping, Ensuring, Rescuing, RescuingAs, Nesting, Closures, Escapes, Required | Agree, StackBalanced, NoRefusal, LocalsReserved, JumpsLand, HandlersNest, RedoLandsOnNop | loops, exits, exceptions, blocks, `=>` |
| Values | Conditions, Constants, Cases, Passing, Operating, Gathering, Nested, Texts, Writing, Reading, Giving, Assigning, Updating, Spreading, Targeting | Agree, StackBalanced, RegistersInFrame | expressions and writes, valued and discarded |
| Definitions | Parameterized, Lambdas, Methods, Passed, Inherited, Surrounded, Opened, Several, OneLiners, ClausesOf | Agree, StackBalanced, RegistersInFrame | parameters and arguments, `yield`, `super`, classes, patterns |
| Progress | Retries | MachineKeepsUp | liveness of backward jumps |
| Rite | RiteMC: bytes of eight values, two literals, two symbols in a pool; clients Constants, Named, Lined, LinedBody, Nested | SizesFit, IrepsSayWhatWasAsked, FileSaysWhatWasAsked, RewriteIsIdentity, StripsAlike | every irep on the way, and the file, say what the handlers asked for |
| Reading | ReadingMC: two names; clients Assigning and Patterns (six nodes), Matching, Deciding, Hiding, Counting, Taking (five) | UsesAsRead, LocalsAsWritten | names are what they were read as |
| EmptyEnsure, NextInCondition, SuperForwarding | a dialect each | LocalsReserved, MachineKeepsUp, Agree | the findings below: each is expected to be violated |
| LateBinding | ReadingMC: names, writes and modifiers, four nodes | UsesAsRead | a finding: expected to be violated |

What the properties say is in the comment in front of each. `Agree` is the one
that speaks of the meaning of programs; the others of Compile find a mistake
where it is made rather than where it shows.

Bounds, and why they are enough.
*Emitter*: the deepest rewrite looks at two instructions, so three have one in
front of it, and chains of three links a middle.
*Image*: with bytes of four values, operands need a prefix from 4, jumps reach
from -8 to 7 bytes, and integers change their load at -1/0, 1/2, 3/4, 7/8, 127/128
and the same below zero; code of 11 bytes is longer than a jump can reach. The
integer loads are checked on code of one to two instructions, since they look at
one. `PoolMax` of two literals lets the pool be full.
*Compile*: two inner nodes are enough for every pair parent/child, each valued
and discarded; three for a construct between the two that interact (an `ensure`
between a `break` and its loop); four for handlers within handlers, and for a
block in a method that reads the parameters of the method (Surrounded). Nodes
without children are not counted. In Values and Definitions the limits on lists
are small (`CallArgLimit`, `LitAryMax`, `ArefMax` 2, `ValStackMax` 5), so that a
call with three arguments, an array of three items and a stack of a few registers
are gathered; Jumps has the values of the code. `DirectReps` 0 in Definitions
sends every method through the long form of its definition and 255 (the value of
the code) keeps it away from the others. `MaxSp`, `MaxOff`, `MaxLocals` are large
enough never to matter in these runs except as the size of the machine's register
file; `Modulus` keeps sums finite (32 in Definitions, more than any number of
arguments). `Burst` is only the number of steps an interpreter makes at a time.
Loops are not bounded: states repeat.
*Rite*: with bytes of eight values a u16 holds up to 63 and a packed number has a
second byte from 4, so lines 1, 5 and 63 go up and down with one, two and three
bytes and wrap; the integers are those around the boundary of 32 bits (2047/2048)
and the ends of the pool. Three instructions are enough for one that is taken back
or patched between two others; a tree of scopes three deep with two children each
for the order of the records.

*Reading*: a name can be declared outside, inside or on both sides of what is
between (a block, a method, a class, a construct that is walked out of order), and
used before or after, which takes five nodes with the program; six where that
construct is made of two (a multiple assignment and its targets, a pattern and its
guard). Two names are what a confusion takes, and they are interchangeable
(`Symmetric`). Parameters are of every kind, three in a scope at most, which has
every two kinds next to each other. `oddities` of a client lifts two restrictions of the text:
what the lowering walks before the text in front of it (`Late`: the condition of a
modifier or of a guard, the value of an op-write) is a name alone, and a parameter
does not have a name that a default in front of it calls. Without them UsesAsRead
fails, see LateBinding.

Deadlock is not checked where a program or a client that has ended stops (all
runs but Emitter). RegistersInFrame is checked where no `rescue` is in the
trees, because of the register it uses (below). LocalsReserved is checked under Jumps only:
StackBalanced implies it for a program without refusals whose nodes are all done,
so it adds something only in the middle of a handler.

`oddities` of a dialect names constructs the handlers get wrong, which are left
out of its trees unless it lists them: an empty `ensure` without a `rescue`,
`redo` and `next` in the condition of a loop, an empty `else` of `unless`, the
value of a write through `&.`, `__ENCODING__` as a statement. The passing runs
list none, except that Looping has `next` in conditions, which is right where
there is no ensure clause.

### Findings

The code generator is a port that must produce the bytes of its C reference, so
what is found there describes the reference as well.

* **EmptyEnsure.** `begin; a; ensure; end`: the pop after the rescue part is
  meant for the push in the ensure part, which an empty clause skips. `sp` ends
  one too low, below the locals.
* **NextInCondition.** `while (begin; next; ensure; b; end)`: the target of the
  jump is the first instruction of the ensure range, so the machine sees no
  reason to run the clause. The program calls `b` on each round, the bytecode
  spins.
* **SuperForwarding.** `def m(...) = super(...)` does not pass on the arguments
  of the method.
* **LateBinding.** In `a if (a = 1)` the first `a` is a call, for Ruby and for the
  parser; the walk sees the condition first and turns the call into a read of the
  variable. So does a default that calls a method named like a later parameter
  (`def m(a = b, b)`). The value of an op-write has the opposite fault: in
  `a ||= foo { a }` the block is walked before `a` is bound, so its read keeps
  depth 0, means a variable the block does not have, and the code reads register 0,
  `self`; so do guards with a block (`in x if foo { x }`). These are faults of the
  front end alone, not of the C reference.

Seen as well while modelling, and kept out of the trees of the passing runs:

* `redo` in the condition of a loop jumps to address 0 (`GenRedo` in Control has it:
  the frame of a loop gets its `pc1` behind the condition).
* The unwinding part of `rescue` uses a register beyond `nregs`.
* `unless c; a; else; end` as a statement leaves a register on the stack, because
  an empty list is coded with its nil even if no value is wanted; so does
  `__ENCODING__` as a statement.
* `x = (nil&.a = b)`: the register of the result is not set when the receiver is
  nil.
* `[1, a: 2]`: gen_values stops at the keywords, which are lost.
* A hash literal that follows `**` and is longer than the limit is closed with
  HASH where HASHADD is meant.
* A discarded string does not call `to_s` on what is interpolated; an interpolated
  regular expression with an encoding and no options passes the encoding as its
  options; `/(?<x>a)/ =~ s` binds no captures.
* A nameless `*` or `**` passed on in a block, or in a `for`, reads register 0,
  `self`; `it` in a `for` in a block reads register 1 of the loop.
* Defaults of parameters run before the parameters in front of them that are taken
  apart.
* `case/in` without `else` and `=>` use a register beyond `nregs` when nothing
  matches.
* Any forward jump beyond 32 KiB of code is refused, whatever its distance: the
  first link of a chain is encoded as the offset of address 0 (`JmpOffset` in
  Bytes has it).
* After a wide conditional jump, `lastpc` points behind its EXT1 prefix
  (LastInsnDecodes says so). No peephole looks at a jump, so nothing follows.
* The writer cuts the number of catch handlers, the lengths of names and the
  indices of locals to 16 bits unchecked; the number of children is checked in
  `pop_scope`.
* handlers.rs:430 says each byte carries the line of its node; the bytes a node
  emits after its children carry the line of the last child, because the line is
  not put back. Ireps models this (`Visit` holds until the next node).

### Fairness

`FairSpec` of Compile adds `WF(MachineStep)`: a virtual machine that can execute
an instruction does. Nothing is assumed of the environment (a call need not
return), of `Ruby`, or of the compiler; `MachineKeepsUp` asks of the machine
only that it reaches its next stop once `Ruby` has. The other specifications have
no liveness: each of their calls returns.

## 4. Proofs

| Module | Theorem | Says |
|---|---|---|
| Emitter_proofs | TypeCorrect, LastInsnIsExact, BarrierIsKept, ChainsEnd, ChainsDoNotMeet | `Spec => []P` for the five invariants of Emitter |
| | Invariance | their conjunction is inductive |
| | LabelledCodeStays | the action property PeepholeKeepsLabelled |
| | ScopeImplementsListing | Emitter refines Listing |
| Bytes_proofs | EncodeReadsBack | every instruction the emitters can be asked for decodes to itself, and `insn_size` steps over its bytes |
| | GenIntReadsBack | every integer is loaded by an instruction `int_operand` reads back as it |
| Image_proofs | ListingFollowsBuffer | the inductive invariant of Image |
| | PositionsInside, PeepholesSeeLast | `Spec => []P` for TypeOK and LastInsnDecodes |
| | PendingChainsKept | `Spec => []ChainsKept` |
| | HandlersAreAnswered | the action property DoesAsAsked |
| | BytesImplementListing | Image refines Listing |
| Ireps_proofs | LineMapsFit | a packed line map is as long as the size pass says |
| | LinesReadBack | the virtual machine finds the line of every byte in it |
| | RecordsFit, DebugRecordsFit | the records of an irep are as long as the sizes in front of them say |
| | IrepsSay | `Generates => []IrepsSayWhatWasAsked` |
| Rite_proofs | NestedRecordsFit | the records of a tree of ireps are as long as the recursive size passes count |
| | FilesFit | so is the file, with and without names of locals and a debug section |
| | TablesWithinLimits | `Spec => []Filled`: no table outgrows its limit, and finished ireps have what the writer counts on |
| | SizesAlwaysFit | `Spec => []SizesFit` |
| ReadBack_proofs | FileReads | the reader takes what the writer wrote, and holds the model again |
| | RewritesAreIdentities | `Spec => [](FieldsFit => RewriteIsIdentity)` |
| | StripsAreAlike | `Spec => [](FieldsFit => StripsAlike)` |

### The scope on instructions

`Emitter_proofs` holds for every number of locals, every set of operations,
registers and literals and code of any length, from `ScopeAssumption` and
`EmitterAssumption` alone.

The inductive invariant `IInv` is the conjunction of the five. None is inductive
alone: a rewind keeps chains intact only because it removes exactly the last
instruction (`LastInsnExact`), which is not a jump (the peephole matches on its
operation); that it is not before a label needs `BarrierHolds`, and that landing
one link leaves the other chains alone needs `ChainsDisjoint`. The argument:
every emitting method is one of four effects on the code: append an instruction
that is no pending jump (`EmitKeeps`), replace the last one or the last two by
one (`RewriteKeeps`), drop the last one (`DropKeeps`), or append or patch a jump
(`JumpStep`, `CondJumpStep`, `LandStep`). One lemma per method shows which; the
preservation of `IInv` and of `Preserved` is proved once per effect. That the
two-instruction rewrites do not cross a label uses the explicit tests of
`lastpc` against `lastlabel` in `gen_move` and `gen_binop`.

The refinement follows the same lines. Under `IInv`, an append is a `Write` of
Listing with nothing taken back, a rewrite a `Write` with one or two (`Free` of
Listing is what `LastInsnExact` and `BarrierHolds` give), a drop a `Drop`, a patch
a `Land` (the link is a pending jump by `ChainsDescend`); a call of `push_n`, or a
handler that lets a link go, is a stuttering step (`NextLists`).

### The scope in bytes

These hold for every number `Base` of values of a byte (256 in the code), every
split of the short loads, every size of the pool up to what an operand can name,
code of any length and any clients, from `BytesAssumption` and `ClientsAssumption`.
The latter says what the emitters can be asked for (operands of 16 bits, one of 8
or one of 24 by shape; jumps and integer loads only through their own emitters),
which is what the types of the parameters say in the code.

*Bytes_proofs* goes shape by shape. An emitter appends a prefix, an opcode and
operands of one byte or two; `Emits` says that the buffer grew by bytes the decoder
turns into the instruction at that place and nothing in front of it changed;
`DecodeLocal` that the decoder looks at no byte behind the end of its instruction.

*Image_proofs*. The code is read by two searches from its start (`Starts`, and
`prev_pc`, which is what the program does), so the properties speak of recursive
functions. `Laid(t, st)` says what they find without recursion: `st` begins at 0,
each instruction ends where the next one starts and the last one at `pc`, and
`insn_size` agrees. That there is only one such `st`, and that both searches find
it (`StartsOfLaid`, `PrevOfLaid`), is proved by induction, from `SetInduction` and
`ForwardRecursion` of Induction: the theorems of the library that take an operator
are no use here, but a set of numbers that has 0 and all successors is provable
to be `Nat` from the well-foundedness of finite subsets, and every induction is one
about such a set.

The inductive invariant `IInv` says that

* the buffer is laid out as the listing says (`Laid`),
* `lastlabel` and every position given out as a label are starts of instructions or
  the end, and none is behind `lastlabel` (`Marked`),
* the slots of pending jumps form chains: each holds the offset of address 0 or of
  a slot further back, which no other one does and no handler has (`Linked`),
* `lastpc` is the end of the code, the start of the last instruction, or behind the
  EXT1 of a wide conditional jump (`LastKnown`).

None of the checked invariants is inductive without the first, because a rewind to
`lastpc` or `prev_pc` is harmless only if that is where an instruction starts;
`Linked` needs `Marked`, because an offset must not be taken for a label and a
slot at once (`SlotNoBound`: a slot is strictly inside of its jump); and taking
back an instruction needs `LastKnown`. Each request has two lemmas: one says that
it keeps the invariant (`StepWrite`, `StepDrop`, ..., over `GoodCut`, `GoodMore`,
`GoodJump`, `GoodLand`: cut, append, append a jump, patch), the other that the
listing changes as it was asked to (`DoneWrite`, `DoneDrop`, ..., over `PrefixSame`,
which says that what is in front of the change is listed as before, the targets of
its jumps included, and `LandLeaves`, which says it of a patch).

So a compiler bug that would need a particular sequence of wide operands, rewinds
and patches (the C reference has had such) cannot be in the emitters as modelled:
`Emitter_proofs` shows that what a peephole takes back is what Listing lets it,
`Image_proofs` that the bytes follow.

### The lines and the records

The first half of `Ireps_proofs` holds for every even `Base` from 8 (a packed number
has half of the values of a byte for its digits) and, but for the types of numbers
and lines, for any irep, from `LinesAssumption` alone. That the size pass and the
writing pass of `pack_line_map` agree is one induction along the lines: both passes
are recursive functions of the number of lines seen, and `Counted` is the length of
`Packed` after each. That the lines read back is another one, with the invariant
`ReadSoFar`: after the bytes written for the first lines, a reader that looks for
`pos` has arrived at the pc of the last change, expects a pc next, and has the line of
the last change at or before `pos`. It rests on what a reader does with one packed
number (`ScanNumber`, by induction on the number), on its not looking ahead
(`PrefixScan`), and on differences modulo 2^16 adding up to the line (`LineDelta`
wraps where lines go down, and so does the reader).

The sizes are sums over sequences. A recursive function is defined by a CHOOSE, so
that each equation for one needs a proof that a function satisfies it: this is what
the recursion lemmas of Induction are for (`BackwardRecursion`, `PrefixRecursion`,
`FamilyRecursion`), and what the lemmas named `...Equation` conclude from them.

### The ireps

The second half of `Ireps_proofs` holds for all clients, any limits of the pools, any number of
instructions and scopes of any depth, from `IrepsAssumption`. It says that lines are numbered
from 1 and fit 16 bits, that names are sequences of bytes, that literals and catch
handlers have the types of their fields in the code, that the first room for symbols is
not above their limit (256 and 0xffff), and that the client opens scopes no deeper
than the trees of the model are (the one bound among these; any `Depth` will do). The
inductive invariant `Inv` says that

* every open scope is `Sound`: its lines are as many as its bytes; the bytes up to
  `pc` are its instructions one after the other and say what they were asked for
  (`CodeSays`); if an instruction may be taken back, `lastpc` is where the last one
  starts; while no node has been visited, all lines are 0 (`Unlined`);
* the locals of every open scope are in the table of names, where they have one;
* there is a set that has every finished irep beside what it was asked for, is
  closed under taking the nested ones, and of which each says what it was asked for.

The invariant checked is not inductive without the first: `TakeBack` sets `pc` to
`lastpc` and leaves bytes and lines behind it, which are overwritten later;
`emit_b` takes the line of the byte in front when none is active, which is the line
asked for only because no earlier one has a line either. The third stands for "at
any depth": a set is enough where the property itself counts levels, and the levels
are inside it by induction on their number (`LevelsInside`). The argument goes by
effect: a byte added (`EmitBEffect`) or replaced (`PokeBEffect`) in a buffer that
grows, an entry added to a pool or found there (`LitPlaced`, `SymPlaced`), an
instruction added to sound code (`InsnSound`), taken back (`TakeBackSound`), its
target patched (`PatchSound`), a scope finished (`FinishSays`, where LinesReadBack
comes in: the lines of an irep are those a debugger finds in its packed map). Pools
and the table of names only ever grow at their end, so what was said stays said
(`CodeStays`, `IrepSaysStill`).

### The file

`Rite_proofs` holds for trees of any depth and any number of children. `Trees` is the
last of the sets `Tree[d]`, each made of the one before; `TreeInduction` is the induction
over what is nested in an irep, `TreeRecursion` says that a function that calls itself
for the nested ireps exists, and with them each function of Wire on trees gets its
equation (`RecordEquation`, `LvSizeEquation`, `FilenamesEquation`, ...). That the writer
and the size pass agree on a tree then is one lemma (`ChainLength`: records one after
the other are as long as the sum of their sizes, if each is), used for the code
(`RecordsFit` for one irep) and for the names of locals, where it needs that an irep has
one name less than registers for locals: `lv_records_size` counts `nlocals - 1`, and the
writer writes `lv`. `FilesFit` puts the sections together. The debug section is measured
once it is built, so the theorem has nothing to say of its size; that of each record in
it is DebugRecordsFit.

For the specification, `SizesFit` needs to know what the generator hands to the writer.
`Filled` says it, and is inductive together with `Inv` of Ireps_proofs:

* no more scopes are open than the client may open; the pools and the catch table of
  each are within their limits (`Capped`: `new_sym` doubles its room, and refuses
  when the doubled room would be above the limit);
* the finished ireps in a scope have their types, and are nested no deeper than the place
  of the scope in the stack leaves room for (`Made`);
* each of them, and each irep nested in it, has one name less than registers for locals,
  and its names are among the first so many of the table (`Numbered`), which only grows
  (`MadeGrows`);
* when the root is finished, no scope is open.

The last is why nothing happens to the ireps once the file is written (`Filed`). A file
without its debug section is covered because what `clear_debug` makes of a tree are the
parts of the tree without their debug records (`ClearedParts`).

### Reading the file back

`Reader_proofs` and `ReadBack_proofs` hold for trees of any shape, any bytes in them
and any numbers, as long as these fit their fields.

A part *stands* in a file at a position (`Stands`), and a reader of such a part, with
its cursor there, ends right behind it, holds its value and has met no error (`At`).
That readers one after the other take parts one after the other is `InTurnAt`; from it
come the fields of fixed width (`FieldsAt`), the lists with their counts, and the kinds
of literals (`EntryAt`; the sign of an integer comes back modulo 2^32 or 2^64, and the
length of a big integer is the byte in front of it). `OwnReads` is the record of one
irep, where what the reader skips by the size and what it has read must end at the same
place. The functions of the reader are on positions and on how deep it may still go,
not on trees; that they find the tree again is an induction on the tree with the
position quantified (`RecordsAt`, and `LvsAt` for the names of the locals, which stand in
another section and in the same order).

Sections are read until the end marker. `SectionsAt` follows the reader from one to the
next: the one for ireps, the one for debug records, which it keeps as it stands, and
the one for names; it rests on where each section ends (`FileCut`). `FileReads` concludes: the reader accepts the file and holds the model that was
written, but for what the writer does not write: that a small integer was classed as a
long one (`Normal`), the names of locals where none are written, and the debug records,
which come back as the bytes of their section. Such a model is a *copy* (`Copies`), and every function of the
writer has the same value on a copy, by `TreeInduction` (`RewriteSame`). A stripped copy
is a copy of the stripped tree (`StripSame`).

For the specification, `Filled` supplies most of what the reader needs: the numbers of
literals, symbols and handlers fit 16 bits, ireps are nested no deeper than the reader
goes, and every local that has a name has one in the table. What it cannot supply is
`FieldsFit`: the writer casts the remaining counts and lengths to 16 or 32 bits unasked
(locals, registers and children of an irep, its size, the lengths of texts and names,
the number of names, the size of the file), and where a cast cuts something off the file is
not what was compiled. A length of 0xffff is the mark of a missing symbol, so names of
symbols must be shorter. FieldsFit holds in every state of run Rite. With the
widths of the code it says that a text is shorter than 64 KiB, a scope has fewer than
65536 locals, and the file is shorter than 4 GiB.

### Only model-checked

* `Agree` and the other properties of Compile: the evaluators and the tree of Codegen
  are recursive operators, which the prover does not support.
* `FileSaysWhatWasAsked` of Contents: it follows an irep through the file with recursive
  operators. IrepsSay (what the ireps say) and FileReads (the file is the ireps) are its
  two halves.
* Reading: the walk is over trees of nodes.
* Liveness (`MachineKeepsUp`), which the prover cannot express with fairness.

## 5. Not modelled

* `defined?` (handlers.rs 2937-3769) and the counter `rlev` it checks.
* The limit on locals is a predicate (`TooManyLocals`) no run reaches; messages
  and positions of refusals are left out, and so are `check_no_ext_ops` (a refusal
  of an option that is off by default) and `on_eval`.
* The front ends beyond their treatment of names: their output, a tree with scopes
  and depths, is what Codegen grows. The lowering is a translation node by node
  that keeps nothing between nodes; the Prism front end takes scopes and depths from
  its parser. Parsers, FFI adapters, the command line, the corpus runner and the
  playground have no state of their own worth a model beyond files.
* `it`, which has no name and no depth until the code generator gives it one.
  Pattern nodes are represented by one target, with or without a guard.

Growing the tree makes some sizes impossible: a call with more than three
arguments or a method with more than six parameters is only reached by the small
limits above.

## 6. Plan

1. Done: `Scope`, `Emitter`, `Listing` and their proofs; the handlers of control
   flow, values, writes, patterns, definitions; `Machine`, `Ruby`, `Compile`;
   `Bytes` and `Image`; `Lines`, `Layout`, `Wire`, `Ireps` and `Rite`; `Names` and
   `Reading`.
2. `Defined`: the handlers of `defined?`, under `Agree`.
3. Done: proofs of the invariants of Image and of its refinement; of the line maps and
   the sizes of records; of the invariant of Ireps; of the sizes of files; of the reader,
   which gives back what the writer wrote.
4. Proofs: each handler's calls obey the rule of Emitter's client; lower bound of `sp`
   for the handlers; the resolver of Names.
