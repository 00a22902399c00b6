------------------------------- MODULE Packer -------------------------------
(***************************************************************************)
(* Emission and packing, crates/vliw-backend/src/lib.rs: CodegenCtx turns  *)
(* allocated MIR into the scalar stream (at most one syllable per bundle,  *)
(* padded until its sources are ready), pack_scalar_program merges         *)
(* neighbouring bundles of the stream between labels and terminators, and  *)
(* verify_program checks the result before it is printed.                  *)
(*                                                                         *)
(* The input is a module flattened to the operations the emit loops visit: *)
(* the start of a function, a block, a syllable, a terminator.  Any order  *)
(* of syllables may come in, so both the source order of --schedule=scalar *)
(* and the list schedule of --schedule=pack are among the inputs.          *)
(***************************************************************************)
EXTENDS Bundles, Sequences, SequencesExt

CONSTANTS
  Processor,   \* the target layout
  Programs     \* the modules to compile

\* The layout describes no slot beyond the width: an operation in such a slot
\* would make bundle_with panic.
ASSUME ProcessorAssumption ==
  Processor.width \in Nat /\ DOMAIN Processor.slot_units \subseteq Slots(Processor)

\* A module starts with a function, and instruction selection puts branches,
\* calls and returns into terminators only.
ASSUME ProgramsAssumption ==
  \A program \in Programs :
    /\ Len(program) \in Nat
    /\ Len(program) > 0 => program[1].kind = "Function"
    /\ \A i \in 1 .. Len(program) :
         program[i].kind = "Syllable" => program[i].syl.opcode \notin TerminatorOps

\* The four kinds of source operation.  A terminator is "ret", "jmp", "br" or
\* "call" with the predicate and the label it names.
FuncStart(l) == [kind |-> "Function", label |-> l]
BlockStart(l) == [kind |-> "Block", label |-> l]
Op(syl) == [kind |-> "Syllable", syl |-> syl]
Term(op, cond, l) == [kind |-> "Terminator", op |-> op, cond |-> cond, label |-> l]

\* Item::Label and Item::Bundle.  Whether a label is a function's is kept for
\* the properties; the code does not tell.
LabelItem(l, func) == [kind |-> "Label", label |-> l, func |-> func]
BundleItem(b) == [kind |-> "Bundle", bundle |-> b]
IsBundle(item) == item.kind = "Bundle"

\* Labels and terminators delimit the segments that are packed.
IsControl(item) == IsBundle(item) => IsTerminator(item.bundle)

VARIABLES
  source,   \* the input
  at,       \* source operations, then scalar items, consumed so far
  phase,    \* "emit", "pack", "verify", "done" or "error"
  items,    \* Program.items: the scalar stream
  ready,    \* CodegenCtx.ready_*, then pack_scalar_program's ReadyState
  cycle,    \* CodegenCtx.cycle, then pack_scalar_program's cycle
  segment,  \* packed bundles since the last label or terminator
  packed    \* the packed items

vars == <<source, at, phase, items, ready, cycle, segment, packed>>

NothingPending == <<>>

Init ==
  /\ source \in Programs
  /\ at = 0
  /\ phase = "emit"
  /\ items = <<>>
  /\ ready = NothingPending
  /\ cycle = 0
  /\ segment = <<>>
  /\ packed = <<>>

-----------------------------------------------------------------------------
(***************************************************************************)
(* Ready tables: HashMaps from registers to the cycle their value may be   *)
(* read at.  A register without an entry is ready at 0.                    *)
(***************************************************************************)

ReadyAt(rdy, k) == IF k \in DOMAIN rdy THEN rdy[k] ELSE 0

\* required_cycle_for_sources; sources_ready_at compares the same maximum.
RequiredCycle(rdy, syl) == Max({0} \cup {ReadyAt(rdy, k) : k \in ReadKeys(syl)})

BundleRequiredCycle(rdy, bundle) ==
  Max({0} \cup {RequiredCycle(rdy, bundle[s]) : s \in DOMAIN bundle})

\* The registers whose ready cycle a syllable sets: r0 never is pending.
PendingKeys(syl) == WriteKeys(syl) \ {Key("Gpr", ZeroReg)}

BundlePendingKeys(bundle) == UNION {PendingKeys(bundle[s]) : s \in DOMAIN bundle}

\* update_ready_after_bundle.  The last slot that writes a register counts.
ReadyAfterBundle(rdy, bundle, c) ==
  LET writers(k) == {s \in DOMAIN bundle : k \in PendingKeys(bundle[s])}
  IN  [k \in DOMAIN rdy \cup BundlePendingKeys(bundle) |->
         IF writers(k) = {} THEN rdy[k]
                            ELSE c + Latency(bundle[Max(writers(k))].opcode)]

\* ready_after_bundles: bundles issue one per cycle from start on, and the last
\* bundle that writes a register counts.
ReadyAfterBundles(rdy, start, bundles) ==
  LET writers(k) == {i \in DOMAIN bundles : k \in BundlePendingKeys(bundles[i])}
      written == UNION {BundlePendingKeys(bundles[i]) : i \in DOMAIN bundles}
      last(k) == Max(writers(k))
  IN  [k \in DOMAIN rdy \cup written |->
         IF writers(k) = {} THEN rdy[k]
         ELSE ReadyAfterBundle(<<>>, bundles[last(k)], start + last(k) - 1)[k]]

-----------------------------------------------------------------------------
(***************************************************************************)
(* CodegenCtx: the scalar stream.                                          *)
(***************************************************************************)

GprOrImm(v) == IF v.kind = "Imm" THEN ImmOp(v.n) ELSE RegOp(v.n)

PredOrGpr(v, predSrc) ==
  IF v.kind = "Reg" /\ predSrc THEN PredOp(v.n) ELSE GprOrImm(v)

\* address_operand: absolute and stack addresses are relative to r0.
Address(base, offset) ==
  IF base.kind = "Reg" THEN MemAddrOp(base.n, offset)
                       ELSE MemAddrOp(ZeroReg, base.n + offset)

\* The operand shapes lower_syllable accepts; any other is an error.  A stack
\* address is an address only.
Lowerable(syl) ==
  LET n == Len(syl.srcs)
      offsetAt(k) == syl.srcs[k].kind = "Imm"
      scalar(k) == syl.srcs[k].kind # "Stack"
  IN  CASE syl.opcode \in StoreOps -> (n = 2 \/ (n = 3 /\ offsetAt(2))) /\ scalar(n)
        [] syl.opcode \in LoadOps  -> n = 1 \/ (n = 2 /\ offsetAt(2))
        [] OTHER                   -> \A k \in 1 .. n : scalar(k)

\* lower_syllable.  A load is [base] or [base, offset], a store [base, data]
\* or [base, offset, data]; the offset is an immediate.
Lower(syl, id) ==
  LET srcs == syl.srcs
      offset(n) == IF Len(srcs) = n THEN srcs[2].n ELSE 0
      plain(f(_)) == [k \in DOMAIN srcs |-> f(srcs[k])]
      dst(op(_)) == IF syl.dst = NoDst THEN <<>> ELSE <<op(syl.dst)>>
  IN  CASE syl.opcode \in StoreOps ->
             Asm(syl.opcode,
                 <<Address(srcs[1], offset(3)), GprOrImm(srcs[Len(srcs)])>>, id)
        [] syl.opcode \in LoadOps ->
             Asm(syl.opcode, <<RegOp(syl.dst), Address(srcs[1], offset(2))>>, id)
        [] WritesPred(syl.opcode) ->
             Asm(syl.opcode,
                 <<PredOp(syl.dst)>>
                   \o plain(LAMBDA v : PredOrGpr(v, syl.opcode \in PredLogicOps)),
                 id)
        [] OTHER -> Asm(syl.opcode, dst(RegOp) \o plain(GprOrImm), id)

\* emit_terminator: the operands of a terminator.
LowerTerminator(term, id) ==
  Asm(term.op,
      CASE term.op = "br"            -> <<PredOp(term.cond), LabelOp(term.label)>>
        [] term.op \in {"jmp", "call"} -> <<LabelOp(term.label)>>
        [] OTHER                     -> <<>>,
      id)

Padding(n) == [i \in 1 .. n |-> EmptyBundle]

AsItems(bundles) == [i \in DOMAIN bundles |-> BundleItem(bundles[i])]

\* emit_asm_syllable_in_slot: pad until the sources are ready, issue, record
\* when the result will be.  No slot is an error of the compilation.
EmitInSlot(syl, slots) ==
  IF slots = {} THEN /\ phase' = "error"
                     /\ UNCHANGED <<items, ready, cycle>>
  ELSE LET bundle == BundleWith(Min(slots), syl)
           issue == Max({cycle, RequiredCycle(ready, syl)})
       IN  /\ items' = items \o AsItems(Append(Padding(issue - cycle), bundle))
           /\ ready' = ReadyAfterBundle(ready, bundle, issue)
           /\ cycle' = issue + 1
           /\ UNCHANGED phase

Current == source[at + 1]

Visit(kind) ==
  /\ phase = "emit"
  /\ at < Len(source)
  /\ Current.kind = kind
  /\ at' = at + 1

\* A new CodegenCtx for each function, and its name as a label.
EmitFunction ==
  /\ Visit("Function")
  /\ items' = Append(items, LabelItem(Current.label, TRUE))
  /\ ready' = NothingPending
  /\ cycle' = 0
  /\ UNCHANGED <<source, phase, segment, packed>>

\* Mutant: latency tracking is reset at each block, not at each function.
EmitLabelResets ==
  /\ Visit("Block")
  /\ items' = Append(items, LabelItem(Current.label, FALSE))
  /\ ready' = NothingPending
  /\ cycle' = 0
  /\ UNCHANGED <<source, phase, segment, packed>>

EmitLabel ==
  /\ Visit("Block")
  /\ items' = Append(items, LabelItem(Current.label, FALSE))
  /\ UNCHANGED <<source, phase, ready, cycle, segment, packed>>

EmitSyllable ==
  /\ Visit("Syllable")
  /\ IF Lowerable(Current.syl)
       THEN EmitInSlot(Lower(Current.syl, at + 1),
                       ScalarSlot(Processor, Current.syl.opcode))
       ELSE phase' = "error" /\ UNCHANGED <<items, ready, cycle>>
  /\ UNCHANGED <<source, segment, packed>>

EmitTerminator ==
  /\ Visit("Terminator")
  /\ EmitInSlot(LowerTerminator(Current, at + 1), ControlSlot(Processor, Current.op))
  /\ UNCHANGED <<source, segment, packed>>

\* emit_scalar_vliw_module verifies the stream as it is ...
KeepScalar ==
  /\ phase = "emit"
  /\ at = Len(source)
  /\ packed' = items
  /\ phase' = "verify"
  /\ UNCHANGED <<source, at, items, ready, cycle, segment>>

\* ... emit_packed_vliw_module packs it first, with tables of its own.
StartPack ==
  /\ phase = "emit"
  /\ at = Len(source)
  /\ phase' = "pack"
  /\ at' = 0
  /\ ready' = NothingPending
  /\ cycle' = 0
  /\ UNCHANGED <<source, items, segment, packed>>

-----------------------------------------------------------------------------
(***************************************************************************)
(* pack_scalar_program.                                                    *)
(***************************************************************************)

\* has_pending_result_at.
HasPendingResultAt(rdy, c) == \E k \in DOMAIN rdy : rdy[k] > c

\* first_open_compatible_slot.
OpenSlots(bundle, op) ==
  {s \in Slots(Processor) \ DOMAIN bundle : SlotSupports(Processor, s, op)}

\* merge_bundles, as the set of the bundles it returns (none or one).  The
\* bundle merged in is a scalar one, so it has a single syllable.
MergeBundles(a, b) ==
  LET syl == b[Min(DOMAIN b)]
      open == OpenSlots(a, syl.opcode)
  IN  IF open = {} THEN {}
      ELSE {[s \in DOMAIN a \cup {Min(open)} |-> IF s = Min(open) THEN syl ELSE a[s]]}

\* Mutant: the merged bundle is not given to the verifier.
TryMergeUnverified(out, b, start, rdy) ==
  IF out = <<>> THEN {}
  ELSE LET last == out[Len(out)]
           before == ReadyAfterBundles(rdy, start, Front(out))
       IN  IF \/ IsEmpty(last)
              \/ IsTerminator(last)
              \/ HasPendingResultAt(ReadyAfterBundles(rdy, start, out), start + Len(out))
              \/ BundleRequiredCycle(before, b) > start + Len(out) - 1
             THEN {}
             ELSE MergeBundles(last, b)

\* try_merge_into_previous: the last bundle of out with b merged in, if the
\* merge is allowed.
TryMerge(out, b, start, rdy) ==
  IF out = <<>> THEN {}
  ELSE LET last == out[Len(out)]
           before == ReadyAfterBundles(rdy, start, Front(out))
       IN  IF \/ IsEmpty(last)
              \/ IsTerminator(last)
              \/ HasPendingResultAt(ReadyAfterBundles(rdy, start, out), start + Len(out))
              \/ BundleRequiredCycle(before, b) > start + Len(out) - 1
             THEN {}
             ELSE {m \in MergeBundles(last, b) : VerifyBundle(Processor, m)}

\* Mutant: sources must be ready strictly before the cycle.
PackOneLate(out, b, start, rdy) ==
  LET merged == TryMerge(out, b, start, rdy)
      required == BundleRequiredCycle(ReadyAfterBundles(rdy, start, out), b)
      missing == Max({0, required + 1 - (start + Len(out))})
  IN  IF IsEmpty(b) THEN Append(out, b)
      ELSE IF merged # {} THEN Append(Front(out), CHOOSE m \in merged : TRUE)
      ELSE Append(out \o Padding(missing), b)

\* One turn of the loop of pack_bundle_segment: out is what it has packed.
PackOne(out, b, start, rdy) ==
  LET merged == TryMerge(out, b, start, rdy)
      required == BundleRequiredCycle(ReadyAfterBundles(rdy, start, out), b)
      missing == Max({0, required - (start + Len(out))})
  IN  IF IsEmpty(b) THEN Append(out, b)
      ELSE IF merged # {} THEN Append(Front(out), CHOOSE m \in merged : TRUE)
      ELSE Append(out \o Padding(missing), b)

Item == items[at + 1]

\* The code collects the bundles of a segment and packs them in a loop when the
\* segment ends.  Neither cycle nor ready changes meanwhile, so the model packs
\* each bundle as it comes.
PackBundle ==
  /\ phase = "pack"
  /\ at < Len(items)
  /\ ~IsControl(Item)
  /\ segment' = PackOne(segment, Item.bundle, cycle, ready)
  /\ at' = at + 1
  /\ UNCHANGED <<source, phase, items, ready, cycle, packed>>

\* Mutant: the segment is put behind the item that ends it.
EndSegmentBehind ==
  /\ phase = "pack"
  /\ at < Len(items)
  /\ IsControl(Item)
  /\ packed' = Append(packed, Item) \o AsItems(segment)
  /\ cycle' = cycle + Len(segment) + 1
  /\ segment' = <<>>
  /\ at' = at + 1
  /\ UNCHANGED <<source, phase, items, ready>>

\* A label or a terminator ends the segment and follows it.  The sources of a
\* terminator are not looked at again.
EndSegment ==
  /\ phase = "pack"
  /\ at < Len(items)
  /\ IsControl(Item)
  /\ LET rdy == ReadyAfterBundles(ready, cycle, segment)
         c == cycle + Len(segment)
     IN  /\ packed' = Append(packed \o AsItems(segment), Item)
         /\ ready' = IF IsBundle(Item) THEN ReadyAfterBundle(rdy, Item.bundle, c) ELSE rdy
         /\ cycle' = IF IsBundle(Item) THEN c + 1 ELSE c
  /\ segment' = <<>>
  /\ at' = at + 1
  /\ UNCHANGED <<source, phase, items>>

FinishPack ==
  /\ phase = "pack"
  /\ at = Len(items)
  /\ packed' = packed \o AsItems(segment)
  /\ segment' = <<>>
  /\ phase' = "verify"
  /\ UNCHANGED <<source, at, items, ready, cycle>>

\* verify_program.
Verify ==
  /\ phase = "verify"
  /\ phase' = IF \A i \in DOMAIN packed :
                   IsBundle(packed[i]) => VerifyBundle(Processor, packed[i].bundle)
                THEN "done" ELSE "error"
  /\ UNCHANGED <<source, at, items, ready, cycle, segment, packed>>

Terminated == phase \in {"done", "error"} /\ UNCHANGED vars

Next ==
  \/ EmitFunction
  \/ EmitLabel
  \/ EmitSyllable
  \/ EmitTerminator
  \/ KeepScalar
  \/ StartPack
  \/ PackBundle
  \/ EndSegment
  \/ FinishPack
  \/ Verify
  \/ Terminated

Spec == Init /\ [][Next]_vars

-----------------------------------------------------------------------------
(***************************************************************************)
(* Properties.  They compare the packed items with the scalar stream,      *)
(* which docs/architecture.md calls the oracle.                            *)
(***************************************************************************)

BundlesOf(stream) == {i \in DOMAIN stream : IsBundle(stream[i])}

\* The syllables of a stream, as pairs of an item and a slot.
SyllablesOf(stream) ==
  UNION {{i} \X DOMAIN stream[i].bundle : i \in BundlesOf(stream)}

SylAt(stream, p) == stream[p[1]].bundle[p[2]]

\* The machine, as far as the back end relies on it: the bundles of a stream
\* issue in order, the syllables of a bundle at once, so that they all read
\* before any of them writes.  A memory address is a cell of its own if it is
\* absolute; an address in a register may be any cell.
MemOperands(syl) ==
  {syl.operands[k] : k \in Sources(syl, "MemAddr", FALSE)}

Cell(operand) == [class |-> "Mem", reg |-> operand.offset]

MemCells(syl) ==
  LET addresses == MemOperands(syl)
      all == UNION {MemOperands(SylAt(items, p)) : p \in SyllablesOf(items)}
  IN  {Cell(a) : a \in IF \A m \in addresses : m.n = ZeroReg THEN addresses ELSE all}

Uses(syl) == (ReadKeys(syl) \cup MemCells(syl)) \ {Key("Gpr", ZeroReg)}

Defines(syl) ==
  PendingKeys(syl) \cup IF WritesMem(syl.opcode) THEN MemCells(syl) ELSE {}

\* The operations whose results location c holds when item i of stream issues:
\* none, one, or more if one bundle writes it twice.  writers is the set of the
\* syllables of the stream that define c.
LastWriters(stream, writers, i) ==
  LET before == {p \in writers : p[1] < i}
  IN  {SylAt(stream, p).id :
         p \in {q \in before : \A r \in before : r[1] <= q[1]}}

Writers(stream, c) == {p \in SyllablesOf(stream) : c \in Defines(SylAt(stream, p))}

\* Packing gives every syllable the operands it has in the scalar stream and
\* leaves the same results in every register and memory cell: "the same
\* observable result as the scalar stream" (docs/architecture.md).
SameDataflow ==
  phase = "done" =>
    \A c \in UNION {Uses(SylAt(items, q)) \cup Defines(SylAt(items, q)) :
                     q \in SyllablesOf(items)} :
      LET scalar == Writers(items, c)
          packing == Writers(packed, c)
          readers(stream) ==
            {<<SylAt(stream, p).id, LastWriters(stream, Writers(stream, c), p[1])>> :
               p \in {q \in SyllablesOf(stream) : c \in Uses(SylAt(stream, q))}}
      IN  /\ readers(packed) = readers(items)
          /\ LastWriters(packed, packing, Len(packed) + 1)
               = LastWriters(items, scalar, Len(items) + 1)

\* The number of control items before item i.
ControlsBefore(stream, i) == Cardinality({j \in 1 .. (i - 1) : IsControl(stream[j])})

\* The control items of a stream and its operations, each with the number of
\* control items before it.
Controls(stream) ==
  {<<stream[i], ControlsBefore(stream, i)>> : i \in {j \in DOMAIN stream : IsControl(stream[j])}}

Placement(stream) ==
  {<<SylAt(stream, p).id, ControlsBefore(stream, p[1])>> : p \in SyllablesOf(stream)}

\* No operation has two syllables.
Once(stream) ==
  \A p, q \in SyllablesOf(stream) : SylAt(stream, p).id = SylAt(stream, q).id => p = q

\* Packing keeps the labels and terminators in their order, and every syllable
\* stays between the two it was emitted between, once.
ControlFlowKept ==
  phase = "done" =>
    /\ Controls(packed) = Controls(items)
    /\ Placement(packed) = Placement(items)
    /\ Once(packed)

\* The cycle an item of a stream issues at, and the function it is in.
CycleAt(stream, i) == Cardinality({j \in BundlesOf(stream) : j < i})

FunctionAt(stream, i) ==
  Cardinality({j \in 1 .. i : ~IsBundle(stream[j]) /\ stream[j].func})

\* In the order of the text of a function, no syllable issues before its
\* sources are ready: packing moves syllables to earlier cycles, keeps the
\* padding of the scalar stream and does not look at terminators again, and
\* still leaves every latency covered.
StallFreeInLayout(stream) ==
  LET syls == SyllablesOf(stream)
      writers(k) == {p \in syls : k \in PendingKeys(SylAt(stream, p))}
      sameFunction(p, q) == FunctionAt(stream, p[1]) = FunctionAt(stream, q[1])
      overwritten(k, p, q) == \E r \in writers(k) : p[1] < r[1] /\ r[1] < q[1]
  IN  \A q \in syls : \A k \in ReadKeys(SylAt(stream, q)) : \A p \in writers(k) :
        (p[1] < q[1] /\ sameFunction(p, q) /\ ~overwritten(k, p, q)) =>
          CycleAt(stream, p[1]) + Latency(SylAt(stream, p).opcode)
            <= CycleAt(stream, q[1])

LayoutStallFree ==
  phase = "done" => StallFreeInLayout(items) /\ StallFreeInLayout(packed)

\* The verifier never rejects what the compiler itself packed: an error comes
\* only from an operation that has no slot or no operand shape.
VerifierAccepts == phase = "error" => packed = <<>>

\* Packing a single function never makes it longer, although it keeps the
\* padding bundles of the scalar stream and adds its own.
NeverLonger ==
  (phase = "done" /\ FunctionAt(items, Len(items)) = 1) =>
    Cardinality(BundlesOf(packed)) <= Cardinality(BundlesOf(items))

\* No two syllables of a bundle write the same predicate, and none reads a
\* predicate another writes.
NoPredicateHazard ==
  phase = "done" =>
    \A p, q \in SyllablesOf(packed) :
      (p[1] = q[1] /\ p[2] # q[2]) =>
        PredWrites(SylAt(packed, p)) \cap
          (PredWrites(SylAt(packed, q)) \cup PredReads(SylAt(packed, q))) = {}
=============================================================================
