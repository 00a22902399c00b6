------------------------------ MODULE Bundles ------------------------------
(***************************************************************************)
(* Assembly syllables, bundles and processors (crates/vliw-asm/src/lib.rs),*)
(* the in-bundle hazard verifier (crates/vliw-asm/src/verify.rs) and the   *)
(* slot selection of crates/vliw-backend/src/lib.rs.                       *)
(*                                                                         *)
(* An operand is [kind, n]: Reg r, Pred p, Imm k, Label l, or MemAddr with *)
(* its base register n and an offset.  A bundle is the function from its   *)
(* occupied slots to their syllables; a slot outside its domain is a nop.  *)
(* `id' names the source operation a syllable comes from; no code reads it.*)
(*                                                                         *)
(* A processor is [width, slot_units, aliases]: slot_units[s] is the set of*)
(* unit kinds of slot s, the declared units already looked up by name, and *)
(* aliases the partial function from alias names to slots.                 *)
(***************************************************************************)
EXTENDS VliwIsa, Integers, FiniteSets, FiniteSetsExt

RegOp(r) == [kind |-> "Reg", n |-> r]
PredOp(p) == [kind |-> "Pred", n |-> p]
ImmOp(k) == [kind |-> "Imm", n |-> k]
LabelOp(l) == [kind |-> "Label", n |-> l]
MemAddrOp(base, off) == [kind |-> "MemAddr", n |-> base, offset |-> off]

Asm(op, operands, id) == [opcode |-> op, operands |-> operands, id |-> id]

\* The operands of a kind, without the first one if that is a destination.
Sources(syl, kind, skipFirst) ==
  LET ks == {k \in DOMAIN syl.operands : syl.operands[k].kind = kind}
  IN  IF skipFirst /\ ks # {} THEN ks \ {Min(ks)} ELSE ks

GprReads(syl) ==
  {syl.operands[k].n : k \in Sources(syl, "Reg", WritesGpr(syl.opcode))
                               \cup Sources(syl, "MemAddr", FALSE)}

PredReads(syl) ==
  {syl.operands[k].n : k \in Sources(syl, "Pred", WritesPred(syl.opcode))}

\* The destination is the first operand, when it is of the class written.
FirstOperand(syl, kind) ==
  IF syl.operands # <<>> /\ syl.operands[1].kind = kind
    THEN {syl.operands[1].n} ELSE {}

GprWrites(syl) == IF WritesGpr(syl.opcode) THEN FirstOperand(syl, "Reg") ELSE {}

PredWrites(syl) == IF WritesPred(syl.opcode) THEN FirstOperand(syl, "Pred") ELSE {}

ReadKeys(syl) ==
  {Key("Gpr", r) : r \in GprReads(syl)} \cup {Key("Pred", p) : p \in PredReads(syl)}

WriteKeys(syl) ==
  {Key("Gpr", r) : r \in GprWrites(syl)} \cup {Key("Pred", p) : p \in PredWrites(syl)}

-----------------------------------------------------------------------------
(***************************************************************************)
(* Bundles and slots.                                                      *)
(***************************************************************************)

EmptyBundle == <<>>

BundleWith(slot, syl) == [s \in {slot} |-> syl]

IsEmpty(bundle) == DOMAIN bundle = {}

IsTerminator(bundle) ==
  \E s \in DOMAIN bundle : bundle[s].opcode \in TerminatorOps

Slots(proc) == 1 .. proc.width

SlotSupports(proc, slot, op) ==
  IF op = "nop" THEN slot \in Slots(proc)
  ELSE slot \in DOMAIN proc.slot_units /\ Units(op) \cap proc.slot_units[slot] # {}

\* first_compatible_slot, as a set that is empty when it is an error.
FirstCompatibleSlot(proc, op) ==
  LET fit == {s \in Slots(proc) : op = "nop" \/ SlotSupports(proc, s, op)}
  IN  IF fit = {} THEN {} ELSE {Min(fit)}

\* The alias scalar_slot prefers: M for memory, X for control and multiplier,
\* I0 for the integer ALU.
CanonicalAlias(op) ==
  CASE Units(op) = {"Memory"}                        -> "M"
    [] Units(op) \in {{"Control"}, {"Multiplier"}}   -> "X"
    [] Units(op) = {"IntegerAlu"}                    -> "I0"
    [] OTHER                                         -> "none"

\* scalar_slot, as a set that is empty when it is an error.
ScalarSlot(proc, op) ==
  LET alias == CanonicalAlias(op)
  IN  IF alias \in DOMAIN proc.aliases /\ SlotSupports(proc, proc.aliases[alias], op)
        THEN {proc.aliases[alias]} ELSE FirstCompatibleSlot(proc, op)

\* x_slot, and the check emit_asm_syllable_in_slot makes of it.
ControlSlot(proc, op) ==
  IF "X" \in DOMAIN proc.aliases /\ SlotSupports(proc, proc.aliases["X"], op)
    THEN {proc.aliases["X"]} ELSE {}

-----------------------------------------------------------------------------
(***************************************************************************)
(* verify_bundle.  It looks at the slots of the processor's width, skips   *)
(* nops, and knows nothing of predicates and memory.                       *)
(***************************************************************************)

Checked(proc, bundle) ==
  {s \in DOMAIN bundle \cap Slots(proc) : bundle[s].opcode # "nop"}

SlotsLegal(proc, bundle) ==
  \A s \in Checked(proc, bundle) :
    /\ s \in DOMAIN proc.slot_units
    /\ Units(bundle[s].opcode) \cap proc.slot_units[s] # {}

NoGprWaw(proc, bundle) ==
  \A s, t \in Checked(proc, bundle) :
    s # t => GprWrites(bundle[s]) \cap GprWrites(bundle[t]) = {}

\* Mutant: a read of a register another slot writes is not looked for.
NoGprRawUnchecked(proc, bundle) == TRUE

NoGprRaw(proc, bundle) ==
  \A s, t \in Checked(proc, bundle) :
    s # t => GprReads(bundle[s]) \cap GprWrites(bundle[t]) = {}

VerifyBundle(proc, bundle) ==
  SlotsLegal(proc, bundle) /\ NoGprWaw(proc, bundle) /\ NoGprRaw(proc, bundle)
=============================================================================
