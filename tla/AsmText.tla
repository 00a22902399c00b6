------------------------------- MODULE AsmText -------------------------------
(***************************************************************************)
(* The .vliw text format: emit (crates/vliw-asm/src/lib.rs) and its        *)
(* inverse, the line parser of crates/vliw-asm/src/parse.rs.               *)
(*                                                                         *)
(* A text is a sequence of lines, a line a record of its kind (key) and    *)
(* what varies in it.  A name that stands for an operand is a spelling:    *)
(* a letter and a number, a number, a word that begins like a number and   *)
(* is none, or another word.  A label is a spelling too, so a label may be *)
(* spelled like a register, and with leading zeros that emit would not     *)
(* write.  Commas, brackets, colons and spaces within a name are not       *)
(* modelled, and indentation and padding, which the parser trims, are left *)
(* out.                                                                    *)
(***************************************************************************)
EXTENDS Integers, Sequences, SequencesExt, FiniteSetsExt

CONSTANTS
  Texts,         \* texts written by hand: processor configurations
  U8Max,         \* largest register number the format can hold
  I64Max,        \* largest i64
  DEFAULT_MEMORY_SIZE

ASSUME BoundsAssumption == U8Max \in Nat /\ I64Max \in Nat

None == [op |-> "none"]

\* i64, and the values of a u64.
I64 == -(I64Max + 1) .. I64Max
U64Size == 2 * (I64Max + 1)

\* Spellings: r1 and 1 as Display writes them, r01 and 01, 1x or -x, and others.
Letter(c, n) == [letter |-> c, n |-> n, zeros |-> 0]
Number(n) == [number |-> n, zeros |-> 0]
WithZeros(s, zeros) == [s EXCEPT !.zeros = zeros]
Dashed(s) == [dashed |-> s]
Word(s) == [word |-> s]
IsLetter(s, c) == "letter" \in DOMAIN s /\ s.letter = c

\* Operands and syllables.
Reg(n) == [reg |-> n]
Pred(n) == [pred |-> n]
Imm(n) == [imm |-> n]
MemAddr(base, offset) == [base |-> base, offset |-> offset]
Label(s) == [label |-> s]
Syllable(opcode, operands) == [op |-> opcode, operands |-> operands]

\* Items of a program.
LabelItem(s) == [name |-> s]
Bundle(slots) == [slots |-> slots]

\* struct Processor (the parameterless cache stanza left out).
ProcessorOf(width, units, aliases, slot_units, cpus, memory_size) ==
  [width |-> width, units |-> units, slot_aliases |-> aliases,
   slot_units |-> slot_units, cpus |-> cpus, memory_size |-> memory_size]

\* The values parse_processor starts from.
BlankProcessor == ProcessorOf(4, <<>>, <<>>, <<>>, 1, DEFAULT_MEMORY_SIZE)
-----------------------------------------------------------------------------
(***************************************************************************)
(* emit.                                                                   *)
(***************************************************************************)
Line(key) == [key |-> key]
Blank == Line("")

\* Mutant: a negative offset is written with its sign lost.
SpelledUnsigned(o) ==
  IF "base" \in DOMAIN o
  THEN [base |-> Letter("r", o.base), sign |-> IF o.offset = 0 THEN "" ELSE "+",
        abs |-> IF o.offset < 0 THEN -o.offset ELSE o.offset]
  ELSE IF "reg" \in DOMAIN o THEN Letter("r", o.reg)
  ELSE IF "pred" \in DOMAIN o THEN Letter("p", o.pred)
  ELSE IF "imm" \in DOMAIN o THEN Number(o.imm)
  ELSE o.label

\* Display of an operand.
Spelled(o) ==
  CASE "reg" \in DOMAIN o -> Letter("r", o.reg)
    [] "pred" \in DOMAIN o -> Letter("p", o.pred)
    [] "imm" \in DOMAIN o -> Number(o.imm)
    [] "label" \in DOMAIN o -> o.label
    [] OTHER -> [base |-> Letter("r", o.base),
                 sign |-> IF o.offset = 0 THEN "" ELSE IF o.offset > 0 THEN "+" ELSE "-",
                 abs |-> IF o.offset < 0 THEN -o.offset ELSE o.offset]

UnitLine(name, kind) == [key |-> "unit", name |-> name, kind |-> kind]
AliasLine(name, slot) == [key |-> "alias", name |-> name, slot |-> slot]
UnitsLine(slot, units) == [key |-> "slot units", slot |-> slot, units |-> units]
CountLine(key, n) == [key |-> key, n |-> n]

\* emit_header.
HeaderText(p) ==
  <<Line(".processor {"), CountLine("width", p.width), Blank, Line("hardware {")>>
    \o [k \in DOMAIN p.units |-> UnitLine(p.units[k].name, p.units[k].kind)]
    \o <<Line("}"), Blank, Line("layout slots {")>>
    \o [k \in DOMAIN p.slot_aliases |-> AliasLine(p.slot_aliases[k].name, p.slot_aliases[k].slot)]
    \o <<Blank>>
    \o [k \in DOMAIN p.slot_units |-> UnitsLine(k - 1, p.slot_units[k])]
    \o <<Line("}"), Blank>>
    \o (IF p.memory_size = DEFAULT_MEMORY_SIZE THEN <<>>
        ELSE <<Blank, CountLine("memory", p.memory_size)>>)
    \o <<Line("cache {"), CountLine("topology", p.cpus), Line("}")>>

\* The first element of sequence s that satisfies Test, as a set of at most one.
FirstThat(s, Test(_)) ==
  {s[k] : k \in {j \in DOMAIN s : Test(s[j]) /\ \A h \in 1 .. (j - 1) : ~Test(s[h])}}

\* slot_display_names, for one slot.
SlotName(p, slot) ==
  LET found == FirstThat(p.slot_aliases, LAMBDA a : a.slot = slot)
  IN  IF found = {} THEN "??" ELSE (CHOOSE a \in found : TRUE).name

\* b.slots.get(slot): nothing beyond the slots the bundle has.
SlotOf(b, k) == IF k \in DOMAIN b.slots THEN b.slots[k] ELSE None

SlotLine(name, syl) ==
  [key |-> "slot", name |-> name, opcode |-> IF syl = None THEN "nop" ELSE syl.op,
   operands |-> IF syl = None THEN <<>>
                ELSE [k \in DOMAIN syl.operands |-> Spelled(syl.operands[k])]]

BundleText(b, p) ==
  <<Line("{")>> \o [k \in 1 .. p.width |-> SlotLine(SlotName(p, k - 1), SlotOf(b, k))]
    \o <<Line("}")>>

\* emit.
EmitText(program) ==
  HeaderText(program.processor) \o <<Blank>>
    \o FlattenSeq([k \in DOMAIN program.items |->
         LET it == program.items[k]
         IN  IF "name" \in DOMAIN it THEN <<[key |-> "label", name |-> it.name]>>
             ELSE BundleText(it, program.processor)])
-----------------------------------------------------------------------------
(***************************************************************************)
(* The parser's operand level.  {} is the error result, {o} the operand.   *)
(***************************************************************************)

\* Mutant: the largest i64 is out of range.
ParseHexOrDecBelow(n) == IF n \in I64 \ {I64Max} THEN {n} ELSE {}

\* parse_hex_or_dec of what is written for n.
ParseHexOrDec(n) == IF n \in I64 THEN {n} ELSE {}

\* try_parse_reg and try_parse_pred; leading zeros do not matter to u8::parse.
TryParse(c, s) == IF IsLetter(s, c) /\ s.n <= U8Max THEN {s.n} ELSE {}

\* Mutant: predicates are read as general registers.
ParseOperandOneFile(s) ==
  IF "base" \in DOMAIN s
  THEN {MemAddr(b, IF s.sign = "-" THEN -n ELSE n) : b \in TryParse("r", s.base), n \in ParseHexOrDec(s.abs)}
  ELSE IF TryParse("r", s) \cup TryParse("p", s) # {}
  THEN {Reg(n) : n \in TryParse("r", s) \cup TryParse("p", s)}
  ELSE IF "number" \in DOMAIN s THEN {Imm(n) : n \in {s.number} \cap I64}
  ELSE IF "dashed" \in DOMAIN s THEN {}
  ELSE {Label(s)}

\* parse_operand.  (The negation of a written i64::MIN, which overflows, is not
\* among the texts.)
ParseOperand(s) ==
  CASE "base" \in DOMAIN s ->
         {MemAddr(b, IF s.sign = "-" THEN -n ELSE n) :
            b \in TryParse("r", s.base), n \in ParseHexOrDec(s.abs)}
    [] TryParse("r", s) # {} -> {Reg(n) : n \in TryParse("r", s)}
    [] TryParse("p", s) # {} -> {Pred(n) : n \in TryParse("p", s)}
    [] "number" \in DOMAIN s -> {Imm(n) : n \in {s.number} \cap I64}
    [] "dashed" \in DOMAIN s -> {}
    [] OTHER -> {Label(s)}

\* parse_syllable of what follows the colon; `nop' alone is the empty slot.
ParseSyllable(line) ==
  IF line.opcode = "nop" /\ line.operands = <<>> THEN {None}
  ELSE IF \E k \in DOMAIN line.operands : ParseOperand(line.operands[k]) = {} THEN {}
  ELSE {Syllable(line.opcode,
          [k \in DOMAIN line.operands |-> CHOOSE o \in ParseOperand(line.operands[k]) : TRUE])}
-----------------------------------------------------------------------------
VARIABLES
  text,      \* the lines to parse
  pos,       \* Parser.pos: lines consumed
  state,     \* the parser function that reads the next line, "idle", "done" or "error"
  proc,      \* the processor block read so far
  indexed,   \* parse_layout's list of slot declarations
  items,     \* the items read so far
  slots,     \* parse_bundle's slots
  pos_idx    \* and the lines it has read

\* What the parser has built.
result == <<proc, indexed, items, slots, pos_idx>>

vars == <<text, pos, state, result>>

\* Before the first call.
Init ==
  /\ text = <<>>
  /\ pos = 0
  /\ state = "idle"
  /\ proc = BlankProcessor
  /\ indexed = <<>>
  /\ items = <<>>
  /\ slots = <<>>
  /\ pos_idx = 0

\* A call of parse: a parser at the start of text t.
Parse(t) ==
  /\ state \in {"idle", "done"}
  /\ text' = t
  /\ pos' = 0
  /\ state' = "program"
  /\ proc' = BlankProcessor
  /\ items' = <<>>
  /\ UNCHANGED <<indexed, slots, pos_idx>>

\* The next line is one of kind key.
At(key) == pos < Len(text) /\ text[pos + 1].key = key

Current == text[pos + 1]

Consume == pos' = pos + 1 /\ UNCHANGED text

\* Mutant: a blank line is not stepped over.
SkipBlankStays ==
  /\ state \in {"program", "processor", "hardware", "layout", "items"}
  /\ At("")
  /\ UNCHANGED vars

\* skip_blank; parse_bundle does not call it.
SkipBlank ==
  /\ state \in {"program", "processor", "hardware", "layout", "items"}
  /\ At("")
  /\ Consume
  /\ UNCHANGED <<state, result>>

\* The `.processor {' line.
OpenProcessor ==
  /\ state = "program"
  /\ At(".processor {")
  /\ state' = "processor"
  /\ Consume
  /\ UNCHANGED result

\* The numbers of the processor block.  A width or a number of cpus that does not
\* parse is negative; a memory size is read as an i64 and cast to u64.
ReadCount ==
  /\ state = "processor"
  /\ At("width") \/ At("topology") \/ At("memory")
  /\ IF At("memory") THEN ParseHexOrDec(Current.n) # {} ELSE Current.n >= 0
  /\ proc' = CASE At("width") -> [proc EXCEPT !.width = Current.n]
               [] At("topology") -> [proc EXCEPT !.cpus = Current.n]
               [] At("memory") -> [proc EXCEPT !.memory_size = Current.n % U64Size]
  /\ Consume
  /\ UNCHANGED <<state, indexed, items, slots, pos_idx>>

\* `cache { }' has no parameters.
ReadCache ==
  /\ state = "processor"
  /\ At("cache {")
  /\ Consume
  /\ UNCHANGED <<state, result>>

\* parse_hardware and parse_layout start from empty lists.
OpenHardware ==
  /\ state = "processor"
  /\ At("hardware {")
  /\ proc' = [proc EXCEPT !.units = <<>>]
  /\ state' = "hardware"
  /\ Consume
  /\ UNCHANGED <<indexed, items, slots, pos_idx>>

OpenLayout ==
  /\ state = "processor"
  /\ At("layout slots {")
  /\ proc' = [proc EXCEPT !.slot_aliases = <<>>]
  /\ indexed' = <<>>
  /\ state' = "layout"
  /\ Consume
  /\ UNCHANGED <<items, slots, pos_idx>>

ReadUnit ==
  /\ state = "hardware"
  /\ At("unit")
  /\ proc' = [proc EXCEPT !.units = Append(@, [name |-> Current.name, kind |-> Current.kind])]
  /\ Consume
  /\ UNCHANGED <<state, indexed, items, slots, pos_idx>>

ReadAlias ==
  /\ state = "layout"
  /\ At("alias")
  /\ Current.slot >= 0
  /\ proc' = [proc EXCEPT !.slot_aliases = Append(@, [name |-> Current.name, slot |-> Current.slot])]
  /\ Consume
  /\ UNCHANGED <<state, indexed, items, slots, pos_idx>>

ReadSlotUnits ==
  /\ state = "layout"
  /\ At("slot units")
  /\ Current.slot >= 0
  /\ indexed' = Append(indexed, [slot |-> Current.slot, units |-> Current.units])
  /\ Consume
  /\ UNCHANGED <<state, proc, items, slots, pos_idx>>

\* The slots in the order of their index, a later declaration of one winning,
\* and no units for an index that is missing.
SlotUnits ==
  IF indexed = <<>> THEN <<>>
  ELSE LET listed == {indexed[k].slot : k \in DOMAIN indexed}
           last(s) == Max({k \in DOMAIN indexed : indexed[k].slot = s})
       IN  [k \in 1 .. (Max(listed) + 1) |->
              IF k - 1 \in listed THEN indexed[last(k - 1)].units ELSE <<>>]

CloseHardware ==
  /\ state = "hardware"
  /\ At("}")
  /\ state' = "processor"
  /\ Consume
  /\ UNCHANGED result

CloseLayout ==
  /\ state = "layout"
  /\ At("}")
  /\ proc' = [proc EXCEPT !.slot_units = SlotUnits]
  /\ indexed' = <<>>
  /\ state' = "processor"
  /\ Consume
  /\ UNCHANGED <<items, slots, pos_idx>>

CloseProcessor ==
  /\ state = "processor"
  /\ At("}")
  /\ state' = "items"
  /\ Consume
  /\ UNCHANGED result

ReadLabel ==
  /\ state = "items"
  /\ At("label")
  /\ items' = Append(items, LabelItem(Current.name))
  /\ Consume
  /\ UNCHANGED <<state, proc, indexed, slots, pos_idx>>

\* parse_bundle: an empty slot for each of the processor's.
OpenBundle ==
  /\ state = "items"
  /\ At("{")
  /\ slots' = [k \in 1 .. proc.width |-> None]
  /\ pos_idx' = 0
  /\ state' = "bundle"
  /\ Consume
  /\ UNCHANGED <<proc, indexed, items>>

\* The slot a name stands for, else the position of the line in the bundle.
SlotIndex(name) ==
  LET found == FirstThat(proc.slot_aliases, LAMBDA a : a.name = name)
  IN  IF found = {} THEN pos_idx ELSE (CHOOSE a \in found : TRUE).slot

\* A slot line; one for a slot the bundle does not have is dropped.
ReadSlot ==
  /\ state = "bundle"
  /\ At("slot")
  /\ \E syl \in ParseSyllable(Current) :
       slots' = [k \in DOMAIN slots |-> IF k = SlotIndex(Current.name) + 1 THEN syl ELSE slots[k]]
  /\ pos_idx' = pos_idx + 1
  /\ Consume
  /\ UNCHANGED <<state, proc, indexed, items>>

CloseBundle ==
  /\ state = "bundle"
  /\ At("}")
  /\ items' = Append(items, Bundle(slots))
  /\ slots' = <<>>
  /\ pos_idx' = 0
  /\ state' = "items"
  /\ Consume
  /\ UNCHANGED <<proc, indexed>>

\* The end of the text between two items.
EndOfText ==
  /\ state = "items"
  /\ pos = Len(text)
  /\ state' = "done"
  /\ UNCHANGED <<text, pos, result>>

\* The kinds of line each parser function takes.  (A label line inside a bundle,
\* which the code reads as a slot with an empty opcode, is not among the texts.)
Expected ==
  CASE state = "program" -> {"", ".processor {"}
    [] state = "processor" ->
         {"", "width", "topology", "memory", "cache {", "hardware {", "layout slots {", "}"}
    [] state = "hardware" -> {"", "unit", "}"}
    [] state = "layout" -> {"", "alias", "slot units", "}"}
    [] state = "items" -> {"", "label", "{"}
    [] state = "bundle" -> {"slot", "}"}
    [] OTHER -> {}

\* A number or an operand of the line does not parse.
BadValue ==
  \/ Current.key \in {"width", "topology"} /\ Current.n < 0
  \/ Current.key = "memory" /\ ParseHexOrDec(Current.n) = {}
  \/ Current.key \in {"alias", "slot units"} /\ Current.slot < 0
  \/ Current.key = "slot" /\ ParseSyllable(Current) = {}

\* ParseError::UnexpectedEof and ParseError::Syntax.
Reject ==
  /\ \/ pos = Len(text) /\ state \in {"program", "processor", "hardware", "layout", "bundle"}
     \/ pos < Len(text) /\ state \notin {"idle", "done", "error"} /\ Current.key \notin Expected
     \/ pos < Len(text) /\ Current.key \in Expected /\ BadValue
  /\ state' = "error"
  /\ UNCHANGED <<text, pos, result>>

\* The program parse returns.
Parsed == [processor |-> proc, items |-> items]

\* A line of the text.
ReadLine ==
  \/ SkipBlank \/ OpenProcessor \/ ReadCount \/ ReadCache
  \/ OpenHardware \/ ReadUnit \/ CloseHardware
  \/ OpenLayout \/ ReadAlias \/ ReadSlotUnits \/ CloseLayout \/ CloseProcessor
  \/ ReadLabel \/ OpenBundle \/ ReadSlot \/ CloseBundle
  \/ EndOfText \/ Reject

Next == ReadLine \/ (\E t \in Texts : Parse(t))

Spec == Init /\ [][Next]_vars
-----------------------------------------------------------------------------
\* A bundle as emit_bundle writes it: as many slots as the processor has.
Padded(p) ==
  [p EXCEPT !.items = [k \in DOMAIN p.items |->
     IF "name" \in DOMAIN p.items[k] THEN p.items[k]
     ELSE Bundle([j \in 1 .. p.processor.width |-> SlotOf(p.items[k], j)])]]

\* P holds of every operand of every syllable of p.
EveryOperand(p, P(_)) ==
  \A k \in DOMAIN p.items : "slots" \in DOMAIN p.items[k] =>
    \A j \in {h \in DOMAIN p.items[k].slots : p.items[k].slots[h] # None} :
      \A n \in DOMAIN p.items[k].slots[j].operands : P(p.items[k].slots[j].operands[n])

\* parse_operand can read what emit writes for o: o is neither an address with the
\* offset i64::MIN, whose magnitude is no i64, nor a label that begins like a number
\* and is no i64.
ReadableOperand(o) ==
  /\ "base" \in DOMAIN o => -o.offset <= I64Max
  /\ "label" \in DOMAIN o => /\ "dashed" \notin DOMAIN o.label
                             /\ "number" \in DOMAIN o.label => o.label.number \in I64

\* parse can read what emit writes for p.  A memory size is written as a u64 and
\* read as an i64.
Readable(p) == p.processor.memory_size <= I64Max /\ EveryOperand(p, ReadableOperand)

\* A label without leading zeros: were it taken for a register, it would be
\* written the same way again.
PlainLabel(o) == "label" \in DOMAIN o /\ "zeros" \in DOMAIN o.label => o.label.zeros = 0

\* A label that is spelled neither like a register, a predicate nor a number.
WordLabel(o) ==
  "label" \in DOMAIN o => /\ TryParse("r", o.label) \cup TryParse("p", o.label) = {}
                          /\ "number" \notin DOMAIN o.label

\* No syllable of p is a nop without operands, which emit writes like an empty slot.
NoBareNops(p) ==
  \A k \in DOMAIN p.items : "slots" \in DOMAIN p.items[k] =>
    \A j \in DOMAIN p.items[k].slots : p.items[k].slots[j] # Syllable("nop", <<>>)

\* The name emit writes for a slot leads back to it: one name is not the alias of
\* two slots, nor the one that emit writes for a slot without an alias.
NamesTellSlots(pr) ==
  \A k, n \in DOMAIN pr.slot_aliases :
    /\ pr.slot_aliases[k].name # "??"
    /\ pr.slot_aliases[k].name = pr.slot_aliases[n].name =>
         pr.slot_aliases[k].slot = pr.slot_aliases[n].slot
==============================================================================
