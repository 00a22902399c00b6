# TLA+ models of VliwCompiler

VliwCompiler lowers LLVM IR to `.vliw` assembly for a statically scheduled
processor: every bundle issues one syllable per slot, results take a fixed
number of cycles, and the compiler has to order, pad and group the syllables.
These modules model the back end from the IR subset check to the text that is
written, and the driver around it. They are checked with TLC on small instances.
Every safety property the passing runs check, except that lowered instructions
compute what LLVM's do, is also proved with TLAPS for all sizes; the hypotheses
some of the theorems need are listed under Proofs.

Paths below are relative to the repository root; `lib.rs` without a directory is
`crates/vliw-backend/src/lib.rs`.

## The system

| Part | Source | State it keeps | Operations |
| --- | --- | --- | --- |
| Driver | `crates/vliwc/src/main.rs` | arguments, the text, the output file | select a mode, read, load the processor, compile, write |
| IR subset check | `lib.rs` `check_module` | none | accept or reject a module |
| Optimisation pipeline | `lib.rs` `run_opt_pipeline` | LLVM's | passes of LLVM |
| Instruction selection | `isel.rs` | worklist, visited labels, vreg map, MIR blocks, pending phis, latch remap | lower a block and its instructions, split at a call, add a latch, attach phi copies |
| Call convention | `isel.rs`, `regs.rs` | r31, its save slot | save, call, return, restore |
| Phi lowering | `phi.rs` | pending copies, `next_vreg`, moves per block | emit a ready copy, break a cycle |
| Liveness | `liveness.rs` | use/def/live-in/live-out bit sets per block | one backward sweep, until nothing changes |
| Register allocation | `regalloc.rs` | vreg-to-register map, free queue, spill slots | rewrite a syllable or terminator, spill, reload, free |
| List scheduler | `lib.rs` 343-637 | dependence DAG, heights, ready list, ready cycles | add a node, issue a node |
| Scalar emission | `lib.rs` 639-915 | item stream, ready cycles, cycle | emit label, syllable, terminator; pad |
| Packer | `lib.rs` 917-1262 | segment, ready cycles, cycle, packed items | merge, append, end a segment |
| Verifier | `crates/vliw-asm/src/verify.rs` | none | check the slots and GPR hazards of a bundle |
| Opcode table | `crates/vliw-asm/src/opcode.rs` | none | units, latency, write classes |
| Assembly text | `crates/vliw-asm/src/lib.rs`, `parse.rs` | parser position, what has been read | emit; read a line |

The parts form a pipeline: each function is selected, its phis are lowered, it is
allocated; all functions are then emitted in order into one stream
(`--schedule=scalar`), or list-scheduled block by block, emitted and packed
(`--schedule=pack`). The stream is verified and printed. There is one thread and
no persistent state. What is hard is ordering: dependences that must survive
serialisation, reordering and merging; ready cycles and register tables that are
computed at one point of the text and used at another; loops that must make
progress; and the difference between the order of the text and the order of
execution. `PROJECT.json` lists these places under `hazards`.

What makes each part correct:

- driver: a failure leaves the old output alone, the exit status is true, only
  verified text is written;
- instruction selection: the layout has the control flow of the IR, values are
  defined before they are looked up, the instructions compute what LLVM's do, phi
  copies run on their own edge;
- calls: arguments and the link register survive any nesting of calls;
- phi lowering: the moves have the effect of the parallel copy; it ends;
  temporaries are fresh;
- liveness: the least solution of the dataflow equations, for any number of
  registers;
- allocation: no two live values share a register on any path; a reload follows
  its spill on every path; a register is always found;
- list scheduler: the result is a permutation that keeps every dependence; a
  ready node always exists;
- emission and packing: same dataflow and control flow as the scalar stream, no
  use before its latency has passed, every bundle legal, no longer than before;
- verifier: accepts what the packer makes, and rejects every hazard;
- text: parse is the inverse of emit.

## Modules

| Module | Models | State and actions |
| --- | --- | --- |
| `VliwIsa` | `opcode.rs`, `regs.rs`, allocated MIR syllables | operators only |
| `Mir` | `mir.rs` before allocation | blocks, terminators, uses and definitions; also the path-based definition of liveness, the reference for `Liveness` |
| `Traversal` | what the worklist promises | abstract specification: `Visit` any unvisited successor, `Finish` when there is none |
| `IselBlocks` | `lower_function`: blocks | `LowerBlock` is a turn of the worklist loop (pieces, latch, enqueued targets), `SkipVisited` and `RejectCall` its early exits; `PlaceCopies` and `Panic` the two ends of `lower_phi_copies`' lookup |
| `IselInstr` | `check_module`, `lower_function`: instructions | one action per kind of instruction. i64 and i32 are scaled down to `WordBits` and `HalfBits` |
| `IselSemantics` | what instructions and syllables compute | operators only: `LlvmState` and `MirState` run both sides of `IselInstr`, `SameResults` compares them |
| `Calls` | the code around a call, executed | `CallFunction`, `ReturnFrom`, `RestoreLink` |
| `PhiCopies` | `phi.rs` | `remaining` is the Vec of pending copies as a function of their input position; `env` is the symbolic effect of the moves. `StartBlock`, `EmitReady`, `BreakCycle`, `FinishBlock` are the turns of the two loops |
| `Liveness` | `liveness.rs` | `VisitBlock` is a turn of the sweep, `NextSweep` the end of one; `LiveSet` has `LiveSetBits` bits and the masked shift of a release build |
| `RegAlloc` | `regalloc.rs` | one action per source, freed register, destination and terminator; the spill victim is any unprotected entry of the HashMap |
| `AllocRun` | `RegAlloc` composed with the processor | runs allocated and virtual code in step along every path |
| `ListScheduler` | `list_schedule_syllables` and what it calls | `AddNode` is a turn of `build_sched_dag`; `StartScheduling` the predecessor counts, `compute_heights` and the first ready list; `Issue` a turn of the scheduling loop; `ReturnShort` the early return |
| `Bundles` | operands, bundles, processor layouts, slot selection, `verify_bundle` | operators only; a bundle is the function from its occupied slots |
| `Packer` | `CodegenCtx`, `pack_scalar_program`, `verify_program` | `EmitFunction`, `EmitLabel`, `EmitSyllable`, `EmitTerminator`; `KeepScalar` or `StartPack`; `PackBundle`, `EndSegment`, `FinishPack`; `Verify` |
| `PackedRun` | `Packer` composed with the processor | `PassLabel` and `IssueBundle` run the packed program along any path |
| `AsmText` | `emit`, `parse.rs` | `EmitText` is a function; the parser is a state machine with one action per kind of line, its state the function that reads the next one |
| `Driver` | `main.rs`, `compile_for_processor`, composed with `AsmText` | the modes, one step per stage, each of which may fail; `ReadConfig` and `Parser` parse the processor file; `OpenFile` and `WriteFile` the two halves of `fs::write`; `ReadBack` parses the output |
| `PhiCopiesProofs`, `ListSchedulerProofs`, `IselBlocksProofs`, `LivenessProofs`, `PackerProofs` | theorems about the module of that name | |
| `IselProofs` | theorems about `IselInstr` and `Calls` | |
| `RegAllocProofs` | theorems about `RegAlloc` and `AllocRun` | |
| `DriverProofs` | theorems about `Driver` and `AsmText` | |
| `MC...` | instances for TLC | |

The processor that runs the output (in `PackedRun`, `AllocRun`, `Calls`), LLVM's
semantics (in `IselSemantics`) and the reader of the output (in `Driver`) are not in
the repository; they are modelled from what the back end compiles for and are
marked external in `PROJECT.json`.

Abstractions worth knowing:

- HashMaps whose order matters are free choices (the blocks of
  `lower_phi_copies`, the spill victim); HashMaps used as tables are functions.
  The Vec of ready nodes is a set, because both selections order nodes by keys
  that end in the node's number.
- The closed form of `ready_after_bundles` (the last bundle that writes a
  register counts) stands for its loop, and a padding loop for the number of
  bundles it appends.
- `pack_scalar_program` collects a segment and packs it when it ends; the model
  packs each bundle as it arrives, which is the same because neither the cycle
  nor the ready table changes in between.
- Syllables in `Packer` carry an `id` that no modelled code reads; the properties
  use it to follow an operation from the scalar stream into the packed one.
- `RegAlloc` starts from exact liveness where every register has a bit in a
  `LiveSet`, as `Liveness` shows `compute` to deliver, and from any sets of
  registers below `LiveSetBits` where one has none.
- In `IselBlocks` all phis of a block go the same way for one predecessor, so a
  pair of blocks stands for their copies.
- A label, a register and a number are told apart in the text by their spelling,
  as `parse_operand` does; spaces, padding and error messages are left out.
- Packer and emitter errors are one `"error"` phase.
- The stack bucket of the scheduler is the spill area that `regs.rs` reserves; it
  is taken to be disjoint from the addresses a program uses.

Definitions whose comment starts with "Mutant" are variants of the definition
that follows, each with one plausible mistake. They are not used by the
specifications; substituting one must make the property `PROJECT.json` pairs it
with fail, which shows that the property is sensitive to the code.

## Runs

`tlc -config <cfg> <module>` in this directory.

| Run | Config, module | Shows |
| --- | --- | --- |
| phi | `PhiCopies.cfg`, `MCPhiCopies` | all well-formed lists of up to 4 copies over 4 registers and an immediate, and two blocks in either order: `ParallelSemantics`, `OneTempPerCycle`, `TempsUnshared`, `Terminates` |
| list_scheduler | `ListScheduler.cfg`, `MCListScheduler` | all blocks of up to 4 out of 9 syllables: `DependencesKept`, `ReadyNodeExists`, `Permutation`, `SameDataflow`, `HeightIsCriticalPath`, `Terminates` |
| packer | `Packer.cfg`, `MCPacker` | blocks of up to 4 out of 6 syllables, a comparison anywhere before its branch, and two functions: `SameDataflow`, `ControlFlowKept`, `LayoutStallFree`, `VerifierAccepts`, `NeverLonger` |
| liveness | `Liveness.cfg`, `MCLiveness` | all control flows of three blocks, and registers beyond the bits of a set: `LeastSolution`, `ExactLiveness`, `SetsOnlyGrow`, `Terminates` |
| alloc | `AllocRun.cfg`, `MCAllocRun` | straight code with more values than registers, every spill victim, and a loop: `RegistersPartitioned`, `VictimExists`, `ReadsRightValue` |
| isel_blocks | `IselBlocks.cfg`, `MCIselBlocks` | every graph of four blocks, with calls: `ControlFlowKept`, `DominatorsFirst`, `CopiesReachTheirEdge`, `PanicOnlyUnreachable`, the refinement `ImplementsTraversal`, `Terminates` |
| isel_instr | `IselInstr.cfg`, `MCIselInstr` | two dependent operations and comparisons on words, halves and bits, folded addresses, rejected instructions: `SameResults` up to the deviations it names, `SingleAssignment`, `PanicOnlyUnchecked` |
| driver | `Driver.cfg`, `MCDriver` | every mode of the command line, programs of every operand and label spelling, well-formed, malformed and truncated configuration files, failure of every stage: `OnlyVerifiedText`, `ExitTellsTheTruth`, `RoundTrip`, `TextStable`, `EmitAccepted`, `Terminates` |
| packer_predicates | `Packer_predicates.cfg`, `MCPacker` | violation: a comparison and the `pnot` that reads its predicate are put in one bundle |
| packed_run | `PackedRun.cfg`, `MCPackedRun` | violation: a use on a taken path issues before its operand is ready |
| alloc_branches | `AllocRun_branches.cfg`, `MCAllocRun` | violation: a register both sides of a branch read is freed on the side first in the text, and the other side reads a fresh register nobody wrote |
| calls_nested | `Calls_nested.cfg`, `MCCalls` | violation: a return after a nested call goes to the wrong place |

Bounds. `MaxCopies` = `VRegs` = 4 has every shape a list of copies can take up to
two disjoint cycles, a cycle with a tail, a fan-out and a self copy; two blocks
are what sharing a temporary takes. Four syllables let a dependence pass through
two nodes in between, and the nine syllables have every dependence kind, alias
bucket and latency class the back end emits; four in a block are enough for a
merge to follow a merge behind a pending load. `MCTwoFunctions` carries a pending
load over a branch, a jump, a label and a function boundary. Four blocks have
loops, diamonds, loops with two entries, self loops, unreachable blocks and
branches with equal targets. Four registers and six values make several spills
and reloads necessary, with a choice of victim each time. `WordBits` = 3 and
`HalfBits` = 2 leave room for a sign bit and carries in both widths. In the text,
register numbers end at `U8Max` = 3 and offsets at `I64Max` = 7, so that the
largest of each and the ones beyond are used; a u64 ends at 15.

Fairness. `FairSpec` in `PhiCopies`, `ListScheduler`, `Liveness`, `IselBlocks`
and `Driver` asks that a step happens while one can (`WF(Next)`): the code is
sequential, has no input to wait for and cannot be preempted for ever. It is used
for the `Terminates` properties only.

Type invariants are checked by a run for `PhiCopies` and `ListScheduler`, and are
proved in each proof module as far as its proofs rest on them, as a theorem or as
a part of the inductive invariant.

Deadlock is checked in every run; the end of a program is the action `Terminated`
(`Returned` or `Halted` where code is executed).

## What the violations say

- *Predicates.* `verify_bundle` looks at general registers only, and the ready
  check of `try_merge_into_previous` looks at the table before the bundle that is
  merged into. `icmp ne` compiles to a comparison and a `pnot` of its result; the
  packer puts both in one bundle. `README.md` and `docs/mir.md` promise that
  there are no same-bundle predicate hazards.
- *Paths.* Ready cycles are counted over the text. If a branch skips a block, the
  cycles of that block are missing on the path and the processor stalls.
- *Branches in the allocator.* One assignment table is carried from block to
  block in layout order, so one side of a branch inherits the table the other
  side left. In the run both sides read a register for the last time: the side
  that comes first in the text frees it, and the other side, where it has no
  assignment any more, is given a fresh register and reads that, although nothing
  wrote it.
- *Nested calls.* The slot of the link register is one static address.
  `IselProofs` shows that nesting is what it takes.

### Other deviations

Met while modelling, visible in the modules, and not among the runs. The passing
runs leave these inputs out or state their property so that it allows them, as
noted.

- `isel.rs:598`: only a false edge to a block already placed has a latch. The phi
  copies of any other edge out of a two-way branch run on both paths
  (`CopiesReachTheirEdge` asks only that no edge loses its own copies, that latched
  copies stay off the other side and that unconditional edges are exact).
- `isel.rs:601`: after a call split the copies go to the first piece, before the
  call. `isel.rs:575`: when both targets of a branch are one placed block, the
  copies of both edges go to the latch and the taken side misses them.
- `phi.rs:43` panics for a phi with an unreachable predecessor
  (`PanicOnlyUnreachable` says that this is the only way).
- `isel.rs:111`: labels of two functions may coincide in the output.
- Integers narrower than a register. Constants are sign-extended, results are not
  brought back to their width. `isel.rs:437`: `lshr` on i32 shifts in the bits of
  the sign extension, `ashr` those an overflow left; `isel.rs:370`: comparisons of
  i32 compare whole registers, so two equal values can differ and a negative one
  be large; a computed i32 shift amount may have high bits too, which matters
  unless the processor masks it. `isel.rs:446`: logic on i1 reads general registers
  where comparisons wrote predicates, and so does the return of an i1
  (`isel.rs:207`). `isel.rs:710`: an i1 element has size 0. The isel_instr run has
  all of these; `SameResults` exempts them by name (`Deviates`) together with what
  is computed from them. None of the exemptions can be dropped.
- `isel.rs:227`: a constant branch condition, and `isel.rs:608`: an undef or poison
  incoming value of a phi, fail an `expect`. `IselBlocks` has no values and leaves
  these two out.
- `isel.rs:111`: a block that the source calls `a__cont__0` or `a__latch__b` has the
  label of a generated block, and one called `bb1` that of an unnamed block. In
  `IselBlocks` labels are tuples and never collide.
- `isel.rs:656`: vectors pass the subset check and panic (`PanicOnlyUnchecked`);
  `lib.rs:104`: i8 accesses,
  which `README.md` lists and `isel.rs` has code for, are rejected.
- `isel.rs:136`: parameters are never moved out of the argument registers;
  `isel.rs:278`: argument moves may overwrite the source of a later one.
- `regalloc.rs:149`: the reload of a spilled register that is redefined can
  overwrite a source; `regalloc.rs:235`: it may read a slot whose store was on
  another path; `regalloc.rs:265`: predicates are spilled as general registers;
  `regalloc.rs:275`: spill slots are not compared with the size of memory;
  `regalloc.rs:29`: every function uses the same spill area.
- `liveness.rs:26`: a `LiveSet` has 64 bits and is used for functions of any size
  (`ExactLiveness` is conditional on it).
- `lib.rs:1019`: with two memory slots, as in `tests/fixtures/wide8.vliw` of the
  back end, a load can join the bundle of a store it depends on.
- `lib.rs:533`: an absolute address inside the spill area aliases a spill slot and
  the scheduler takes them to be apart. `lib.rs:268`: what the optimiser introduces
  is not checked again.
- Text that does not come back. `parse.rs:304`: a label called `r1` or `7` is read
  as a register or a number (`RoundTrip` excludes it, `TextStable` does not);
  `parse.rs:317`: so is `r01`, which is then written `r1` (`TextStable` excludes
  leading zeros; `r+1` is the same). `lib.rs:243` of `vliw-asm`: a `nop` without
  operands is written like an empty slot. `parse.rs:210`: two slots of one name, or
  a slot called `??`, are not rejected and a syllable can come back in another slot.
- Text that is rejected. `lib.rs:53` of `vliw-asm` writes the offset i64::MIN with a
  magnitude `parse.rs:298` cannot read; `parse.rs:253` casts a negative memory size,
  as in `memory { size -1 }`, to a u64 from 2^63 on, which is written and cannot be
  read; `parse.rs:308` rejects a label that begins with `-` or a digit and is no
  number. `EmitAccepted` names these three (`Readable`); the driver run has them,
  and `parse` does reject each. A name with a comma, bracket, colon or space would
  be cut up by the parser; names are atoms here and have none.
- `main.rs:121`: `-o -` writes a file called `-`, while the help says stdout. The
  driver run's one output path stands for this one too.
- A comment in `phi.rs` says immediates are emitted first; the code (rightly)
  does not.

## Refinement and composition

`Traversal` is the abstract specification of the worklist: visit along edges, in
any order, until nothing is left. `IselBlocks` instantiates it with the graph of
the function, its own `visited`, and "the lowering loop has ended" for `finished`.
`ImplementsTraversal` is checked by TLC for all graphs of four blocks and proved
for all graphs. `DominatorsFirst` is a property of the traversal that
instruction selection relies on when it looks up operands.

`SingleAssignment` is what the functions of the alloc run satisfy, what
`AllocatedCodeReadsRightValues` assumes and what `IselInstr` guarantees.
`ExactLiveness` links `Liveness` to `RegAlloc`. Both are proved. `AllocRun`,
`PackedRun` and `Driver` extend the modules they compose.

## Proofs

All theorems hold for every value of the constants under the named assumptions
of their modules, which TLC evaluates in every run. Most of them give types to
the constants. Those that say more, and where the code guarantees it:

- `PhiCopies`, `IselBlocks`: the label `"none"` is not a block's, the entry is a
  block.
- `Liveness!LayoutAssumption`: labels are different within a function, and the
  continuation of a call is laid out behind it (`isel.rs`, the split at a call).
- `RegAlloc!LiveSetBitsAssumption`: a `LiveSet` has some number of bits, 64 in
  `liveness.rs`. `FunctionsAssumption`: a syllable reads at most two virtual registers,
  as every opcode `isel.rs` emits does; `AllocatableAssumption`: there are at
  least three registers, r2 to r30 in `regs.rs`.
- `Packer!ProcessorAssumption`: the layout describes no slot beyond its width.
  `ProgramsAssumption`: a module starts with the label of a function, which the
  loop over functions emits first, and branches, calls and returns are
  terminators, never syllables of a block (`isel.rs`).
- `IselInstr!BodiesAssumption`: what LLVM's verifier guarantees of a block. Binary
  operations, comparisons and stores have two operands; stores, addresses and
  returns are no integers; an integer operand is a constant or the result of an
  earlier instruction of its type.
- `Driver!ArgsAssumption`: `--schedule` has one of the two values clap accepts.

Some theorems have hypotheses beside these, because the code does not keep the
property without them (see the violations and deviations above):

| Theorem | Hypothesis | Without it |
| --- | --- | --- |
| `PackingKeepsDataflow` | `OneMemorySlot`: one slot has a memory unit, as in `Processor::default()` | `lib.rs:1019`: a load joins the store it depends on |
| | `NoPredicateHazard`: no predicate is used in the bundle that writes it | run packer_predicates |
| | `PlainPrograms`: blocks have no `nop` and operands are lists, as `isel.rs` emits them | |
| `AllocatedCodeReadsRightValues` | `StraightCode`: blocks follow one another, no predicates, a virtual register is written once and before it is read and has a bit in a `LiveSet` | run alloc_branches; `regalloc.rs:149`, `235`, `265`; `liveness.rs:26` |
| `LeafReturnsMatchCalls` | `ModulesAreLeafy`: functions that are called call nothing | run calls_nested |
| `EmittedTextIsAccepted` | `WellTyped`: the program has the types of `vliw-asm`, register numbers u8, offsets i64, the memory size u64. In `EmitAccepted` itself: `Readable`, no offset i64::MIN, no memory size from 2^63 on, no label that begins like a number and is none | `lib.rs:53`, `parse.rs:253`, `parse.rs:308` |
| `EmittedTextIsStable` | `WellTyped` and `Readable`. In `TextStable` itself: `NamesTellSlots`, a name is the alias of one slot and not the `??` of an unnamed one; `PlainLabel`, no leading zeros in a label like `r01` | `parse.rs:210`, `parse.rs:317` |
| `ParseInvertsEmit` | `WellTyped` and `Readable`. In `RoundTrip` itself: `NamesTellSlots`, `NoBareNops`, and `WordLabel`, no label like a register, predicate or number | `parse.rs:210`, `parse.rs:304` |

All programs and states of the packer run and all straight functions of the alloc
run satisfy the hypotheses. The driver run has programs that satisfy them and, for
each conjunct, one that does not and for which the property fails without it.

`PhiCopiesProofs`. `PhiTypeCorrect`, `PhiParallelSemantics`, `PhiTempsUnshared`,
`PhiOneTempPerCycle`.
`ParallelSemantics` speaks of a finished block and says nothing of the middle of
one. The inductive invariant adds three facts for every moment of the loop: the
current source of a pending copy holds the value the copy must deliver
(`PendingSound`); a copy no longer pending has been delivered (`DeliveredSound`);
a register that is no destination is untouched (`OthersKept`). Emitting a ready
copy keeps the first because its destination is nobody's source; breaking a
cycle keeps it because the temporary is above every register in use. For the
temporaries, every register a block has written is below the counter. That there
is one for each cycle is a count: when no copy is ready, every pending
destination is a pending source, so by cardinality the sources permute the
destinations; the copy that is broken is on a cycle of them that has not been
opened, and `CInv` says that the temporaries made are as many as the cycles
opened.

`ListSchedulerProofs`. `SchedTypeCorrect`, `SchedDependencesKept`,
`SchedReadyNodeExists`, `SchedPermutation`, `SchedSameDataflow`,
`SchedHeightIsCriticalPath`. The DAG has no edge for most pairs of
dependent nodes, so the invariant of its construction (`DagInv`) is about paths:
earlier writers reach the last writer, earlier readers are listed or reach it,
earlier unknown accesses reach the barrier, hence every node reaches all that
must follow it. In the loop (`SchedInv`) the unscheduled nodes are closed under
edges, the counts are the numbers of unscheduled predecessors, and the ready set
is exactly the unscheduled nodes with count 0. Closure under edges gives closure
under paths and with it the order; the least unscheduled node has no unscheduled
predecessor, so it is ready. The dataflow follows from order and permutation
together: two nodes that touch one location, one of them writing, are dependent,
so the writers in front of a reader are the same set in both orders and have the
same last element. For the heights, `HeightInv` says that they solve the equation
of `compute_heights` over the finished DAG. Its edges go forward, so from the last
node backwards the equation has one solution; and the latency of the heaviest path
is one, because a path is its first node or that and a path from a successor.

`IselBlocksProofs`. `TypeCorrect`, `LowersDominatorsFirst`,
`WorklistTraverses`, `LayoutKeepsControlFlow`, `CopiesOnTheirEdge`,
`PanicsForUnreachableOnly`. The invariant says that the worklist and the visited
blocks together are the frontier of the graph (`WorklistIsFrontier`): what waits
may be visited, and what may be visited waits. The first half makes a turn of the
loop a `Visit`, the second makes its end a `Finish`. Dominance is about paths,
which the state does not show; `VisitedAvoiding` replaces it by sets that cannot
be left without passing the dominator, and such a set keeps all visited blocks as
long as the dominator is not among them. For the layout, `LaidOut` says where the
pieces and the latch of every visited block are and that there is nothing else;
behind a two-way branch is its latch, its false target, or the end of what is laid
out with the false target next on the worklist. The last case is the point: fall
through is right only because the false target goes to the front of the worklist
and the true target to its back. From the places follow the edges, the blocks the
copies go to, and that the label of a visited block is always found.

`LivenessProofs`. `LivenessTypeCorrect`, `LivenessLeastSolution`,
`LivenessIsExact`, `LivenessSetsOnlyGrow`. A sweep updates the blocks in place, so
the sets in the middle of one solve nothing. The invariant says that they are
below every solution, that the live-in set of a block is at most what its
equation gives, and, while nothing has changed in the present sweep, that the
equations of the blocks visited in it hold. Exactness is two inclusions: the sets
of registers live on a path solve the equations, so the result is below them; and
a path that reads a register carries it, block by block backwards, into the
result.

`RegAllocProofs`. `RegistersArePartitioned`, `VictimAlwaysExists`,
`AllocatedCodeReadsRightValues`. The inductive
invariant (`Owns`) makes the assignment injective, the queue free of duplicates,
and the two a partition of the registers; each of `alloc_preg`, `preg_for_vreg`
and `free_vreg` keeps it. If the queue is empty then all registers, at least
three, are assigned to different virtual registers, and at most two of those are
protected. Reading the right value is about running the code, and the invariant
(`RunInv`) has two halves. While code is emitted there is a history of what every
register and slot would hold at each place of it, in which all reads so far are
right, and every virtual register that is read again is in its assigned register,
or in its slot if it has none (`Emitting`). When it runs, the machine is in the
state the history has for that place (`Followed`). Spill code keeps the first half
because assigned registers and slots are nobody else's; freeing a register keeps
it because a register that is not live after its block is not read again.

`PackerProofs`. `VerifierAcceptsWhatIsPacked`, `PackingKeepsControlFlow`,
`PackingKeepsDataflow`, `PackingLeavesNoStall`, `PackingNeverLengthens`, on
`TypeInv` and one invariant each. A merged bundle is legal because the merge
condition is at least as strict as the verifier's; appended bundles have one
syllable. For control flow, the packed items and the bundles of the open segment
correspond to the scalar items consumed so far, control item by control item. For
dataflow (`FlowInv`) the packed stream has the operations of the scalar one, none
of them in a later bundle than one it came before. Two operations on one register
or memory cell, one of them writing, are never in one bundle: the verifier keeps
general registers apart, the one memory slot keeps accesses apart, and the
hypothesis keeps predicates apart. So their order is the same, and with it every
last writer. For stalls (`StallInv`) both streams are stall-free up to where they
are, and the ready table covers every result that is not overwritten, so the
padding and the merge condition are computed from enough; branches read predicates
only, which is why packing need not look at them again. For the length
(`LengthInv`) the packed stream is never ahead of the scalar prefix in cycles and
no register is ready later in it than in the scalar one, so a bundle appended
never needs more padding than the scalar stream has.

`DriverProofs`. `OnlyVerifiedTextIsWritten`, `ExitStatusIsTrue`,
`EmittedTextIsAccepted`, `EmittedTextIsStable`, `ParseInvertsEmit`. For the first
two the invariant ties the next step to the arm of the match the arguments select,
to the stages that have succeeded, and to what is at the destination. For the text
it says (`ReadBackInv`) that the parser stands at one of the places of the emitted
text, in the state that reads what comes there, and has read exactly what stands
before it: so many units, names, slots, so many items, so many slots of the present
bundle. Each kind of line is a lemma that takes it from one place to the next. Where
the places are follows from the lengths of the parts `emit` joins. Acceptance is
that no place is an error, and rests on no condition on names; the other two are what the last place says was read,
which is the program except for operands that two spellings share.

`IselProofs`. `IselSingleAssignment`: the counter is above every register written,
the maps name written registers only, and no register is written twice
(`CodeInv`), with a lemma per kind of instruction. `IselPanicOnlyUnchecked`: the
results of all integer instructions lowered so far are in `vreg_map` (`LookupInv`),
so an operand that is one of them is found. `LeafReturnsMatchCalls`: the invariant
lists the four places control can be in, with the register, the slot and the
returns owed in each.

Functions over data. `Heights`, the sums of latencies and the joined lines of the
text are recursive functions, which the prover knows only as a `CHOOSE` of a
solution. The proofs first show that a solution exists, by induction over a subset
of the numbers (`SetInduction`), and then use the equation.

Only model-checked:

- `Terminates` in every module: liveness under fairness.
- `IselSemantics!SameResults`: it is about the values of arithmetic and bitwise
  operators, whose definitions are recursive and beyond the prover.

## Open

1. `SameResults` for all widths, from an axiomatic description of the bitwise
   operators.
2. `AllocRun!ReadsRightValue` for code with joins holds for an allocator that
   reconciles its tables at the end of a block; the present one does not
   (run alloc_branches).
3. The hazards without a property in `PROJECT.json`: most of them need functions
   that call each other to run through several stages.

## Not modelled

- `run_opt_pipeline` hands the module to LLVM's pass manager; `Driver` has it as a
  stage that may fail.
- The MIR dump (`emit_mir`) and the demo program are wording and data.
- `allocatable_gpr` of `regs.rs` has no caller.
- Parameter types for which `bve_key` panics, and functions with parameters other
  than one pointer, in `IselInstr`.
- Caches and topologies have no parameters that anything reads.
