----------------------------- MODULE IselInstr -----------------------------
(***************************************************************************)
(* The subset check (check_module, crates/vliw-backend/src/lib.rs) and the *)
(* lowering of the instructions of one block (isel.rs).                    *)
(*                                                                         *)
(* An instruction is [op, ty, pred, elem, args]: its result type, the      *)
(* icmp predicate, the element type of a getelementptr.  An argument is    *)
(* [kind, n, ty]: a constant, a constant address, or the result of         *)
(* instruction n.  vreg_map and gep_map are keyed by instruction; the      *)
(* function has one parameter, a pointer, under the key Param.             *)
(*                                                                         *)
(* Words are scaled down: i64 has WordBits bits and i32 has HalfBits; a    *)
(* value is the number its bits spell.  Sizes in bytes are not scaled.     *)
(***************************************************************************)
EXTENDS Mir, Integers

CONSTANTS
  Bodies,     \* the instruction sequences to lower
  WordBits,   \* bits of a register, and of i64; 64 in the code
  HalfBits    \* bits of i32

ASSUME BitsAssumption == WordBits \in Nat /\ HalfBits \in 1 .. WordBits

BinaryOps == {"add", "sub", "mul", "and", "or", "xor", "shl", "lshr", "ashr"}
IntTypes == {"i1", "i8", "i32", "i64"}

\* What LLVM's verifier guarantees: the number of operands, that stores,
\* addresses and returns are no integers, and that an integer operand is a
\* constant or the result of an earlier instruction.
ASSUME BodiesAssumption ==
  \A b \in Bodies :
    /\ Len(b) \in Nat /\ DOMAIN b = 1 .. Len(b)
    /\ \A j \in DOMAIN b :
         /\ b[j].op \in BinaryOps \cup {"icmp", "store"} => DOMAIN b[j].args = 1 .. 2
         /\ b[j].op \in {"store", "getelementptr", "ret"} => b[j].ty \notin IntTypes
         /\ \A a \in DOMAIN b[j].args :
              LET arg == b[j].args[a]
              IN  arg.ty \in IntTypes =>
                    \/ arg.kind = "const"
                    \/ arg.kind = "ref" /\ arg.n \in 1 .. (j - 1) /\ b[arg.n].ty = arg.ty

VARIABLES
  body,       \* the instructions
  i,          \* the instruction that is lowered next
  vreg_map,   \* instruction -> virtual register of its result
  gep_map,    \* instruction -> <<base, byte offset>>
  next_vreg,
  syllables,  \* the MIR of the block
  phase       \* "check", "lower", "done", "unsupported", "not implemented", "panic"

vars == <<body, i, vreg_map, gep_map, next_vreg, syllables, phase>>

\* Bits of a type, and what int_type_byte_size computes from the true width.
Bits(ty) == CASE ty = "i1" -> 1 [] ty = "i8" -> 1 [] ty = "i32" -> HalfBits [] OTHER -> WordBits
TypeByteSize(ty) == CASE ty = "i1" -> 0 [] ty = "i8" -> 1 [] ty = "i32" -> 4 [] ty = "i64" -> 8

\* A constant of `bits' bits as a register holds it: sign-extended.
SignExtend(c, bits) ==
  IF c >= 2 ^ (bits - 1) THEN c + 2 ^ WordBits - 2 ^ bits ELSE c

Param == 0

\* HashMap::insert.
With(f, x, e) == [y \in DOMAIN f \cup {x} |-> IF y = x THEN e ELSE f[y]]

\* The parameter has the first register.
Init ==
  /\ body \in Bodies
  /\ i = 1
  /\ vreg_map = [j \in {Param} |-> 0] /\ gep_map = <<>>
  /\ next_vreg = 1
  /\ syllables = <<>>
  /\ phase = "check"
-----------------------------------------------------------------------------
(***************************************************************************)
(* check_module: a type is only looked at when it is an integer type.      *)
(***************************************************************************)
CheckIntWidth(ty) == ty \in IntTypes => ty \in {"i1", "i32", "i64"}

CheckInstruction(ins) ==
  /\ ins.op \notin {"invoke", "callbr", "atomicrmw", "cmpxchg", "fence"}
  /\ CheckIntWidth(ins.ty)
  /\ \A a \in DOMAIN ins.args : CheckIntWidth(ins.args[a].ty)

CheckModule ==
  /\ phase = "check"
  /\ phase' = IF \A j \in DOMAIN body : CheckInstruction(body[j]) THEN "lower" ELSE "unsupported"
  /\ UNCHANGED <<body, i, vreg_map, gep_map, next_vreg, syllables>>
-----------------------------------------------------------------------------
(***************************************************************************)
(* Operands.  Lowering one gives [value, code, fresh]: the MIR value, the  *)
(* syllables pushed, and the registers taken from next_vreg.               *)
(***************************************************************************)
Now == body[i]
Arg(a) == Now.args[a]

\* lower_operand panics on anything but an integer constant or a known value.
Lowerable(arg) ==
  arg.ty \in IntTypes /\ (arg.kind = "const" \/ (arg.kind = "ref" /\ arg.n \in DOMAIN vreg_map))

\* Mutant: the register of a constant is not counted.
LowerOperandUncounted(arg, v) ==
  IF arg.kind = "const"
    THEN [value |-> VReg(v), fresh |-> 0,
          code |-> <<Syl("movi", VReg(v), <<Imm(SignExtend(arg.n, Bits(arg.ty)))>>)>>]
    ELSE [value |-> VReg(vreg_map[arg.n]), fresh |-> 0, code |-> <<>>]

\* lower_operand, when next_vreg is v.
LowerOperand(arg, v) ==
  IF arg.kind = "const"
    THEN [value |-> VReg(v), fresh |-> 1,
          code |-> <<Syl("movi", VReg(v), <<Imm(SignExtend(arg.n, Bits(arg.ty)))>>)>>]
    ELSE [value |-> VReg(vreg_map[arg.n]), fresh |-> 0, code |-> <<>>]

\* lower_ptr_operand: the base and the offset, or none.
PtrOperands(arg) ==
  CASE arg.ty # "ptr"                                     -> {}
    [] arg.kind = "inttoptr"                              -> {<<Imm(arg.n), 0>>}
    [] arg.kind = "ref" /\ arg.n \in DOMAIN gep_map       -> {gep_map[arg.n]}
    [] arg.kind = "ref" /\ arg.n \in DOMAIN vreg_map      -> {<<VReg(vreg_map[arg.n]), 0>>}
    [] OTHER                                              -> {}

\* The address operands of a load or store.
Address(p) == IF p[2] = 0 THEN <<p[1]>> ELSE <<p[1], Imm(p[2])>>

\* The load or store of an access width.
LoadOp(ty) == CASE ty = "i8" -> "ldb" [] ty = "i32" -> "ldw" [] ty = "i64" -> "ldd"
StoreOp(ty) == CASE ty = "i8" -> "stb" [] ty = "i32" -> "stw" [] ty = "i64" -> "std"
AccessTypes == {"i8", "i32", "i64"}

Lowering(op) == phase = "lower" /\ i <= Len(body) /\ Now.op \in op
Goto(p) == phase' = p /\ UNCHANGED <<body, i, vreg_map, gep_map, next_vreg, syllables>>

\* Mutant: the result is not entered into vreg_map.
ProduceUnmapped(code, v, fresh) ==
  /\ syllables' = syllables \o code
  /\ next_vreg' = next_vreg + fresh
  /\ i' = i + 1
  /\ UNCHANGED <<body, vreg_map, gep_map, phase>>

\* The MIR of instruction i, whose result is in register v; `fresh' registers
\* are used up.
Produce(code, v, fresh) ==
  /\ syllables' = syllables \o code
  /\ vreg_map' = With(vreg_map, i, v)
  /\ next_vreg' = next_vreg + fresh
  /\ i' = i + 1
  /\ UNCHANGED <<body, gep_map, phase>>
-----------------------------------------------------------------------------
VliwOp(op) == CASE op = "lshr" -> "srl" [] op = "ashr" -> "sra" [] OTHER -> op

LowerBinary ==
  /\ Lowering(BinaryOps)
  /\ Lowerable(Arg(1)) /\ Lowerable(Arg(2))
  /\ LET lhs == LowerOperand(Arg(1), next_vreg)
         rhs == LowerOperand(Arg(2), next_vreg + lhs.fresh)
         dst == next_vreg + lhs.fresh + rhs.fresh
     IN  Produce(Append(lhs.code \o rhs.code,
                        Syl(VliwOp(Now.op), VReg(dst), <<lhs.value, rhs.value>>)),
                 dst, lhs.fresh + rhs.fresh + 1)

\* Mutant: greater-than does not swap its operands.
CompareOfUnswapped(pred, lhs, rhs) ==
  CASE pred \in {"eq", "ne"}   -> <<"cmpeq", lhs, rhs>>
    [] pred \in {"slt", "sgt"} -> <<"cmplt", lhs, rhs>>
    [] pred \in {"ult", "ugt"} -> <<"cmpult", lhs, rhs>>

\* The comparison a predicate becomes.
CompareOf(pred, lhs, rhs) ==
  CASE pred \in {"eq", "ne"} -> <<"cmpeq", lhs, rhs>>
    [] pred = "slt"          -> <<"cmplt", lhs, rhs>>
    [] pred = "sgt"          -> <<"cmplt", rhs, lhs>>
    [] pred = "ult"          -> <<"cmpult", lhs, rhs>>
    [] pred = "ugt"          -> <<"cmpult", rhs, lhs>>

ComparePreds == {"eq", "ne", "slt", "sgt", "ult", "ugt"}

LowerICmp ==
  /\ Lowering({"icmp"})
  /\ Lowerable(Arg(1)) /\ Lowerable(Arg(2)) /\ Now.pred \in ComparePreds
  /\ LET lhs == LowerOperand(Arg(1), next_vreg)
         rhs == LowerOperand(Arg(2), next_vreg + lhs.fresh)
         cmp == CompareOf(Now.pred, lhs.value, rhs.value)
         dst == next_vreg + lhs.fresh + rhs.fresh
         code == Append(lhs.code \o rhs.code, Syl(cmp[1], VReg(dst), <<cmp[2], cmp[3]>>))
     IN  IF Now.pred = "ne"
           THEN Produce(Append(code, Syl("pnot", VReg(dst + 1), <<VReg(dst)>>)),
                        dst + 1, lhs.fresh + rhs.fresh + 2)
           ELSE Produce(code, dst, lhs.fresh + rhs.fresh + 1)

LowerStore ==
  /\ Lowering({"store"})
  /\ Arg(1).ty \in AccessTypes /\ Lowerable(Arg(1))
  /\ \E p \in PtrOperands(Arg(2)) :
       LET data == LowerOperand(Arg(1), next_vreg)
       IN  /\ syllables' = Append(syllables \o data.code,
                                  Syl(StoreOp(Arg(1).ty), NoReg, Append(Address(p), data.value)))
           /\ next_vreg' = next_vreg + data.fresh
  /\ i' = i + 1
  /\ UNCHANGED <<body, vreg_map, gep_map, phase>>

LowerLoad ==
  /\ Lowering({"load"})
  /\ Now.ty \in AccessTypes
  /\ \E p \in PtrOperands(Arg(1)) :
       Produce(<<Syl(LoadOp(Now.ty), VReg(next_vreg), Address(p))>>, next_vreg, 1)

\* The folded offset.  An integer element has one index.
GepOffset(p) == p[2] + Arg(2).n * TypeByteSize(Now.elem)

LowerGep ==
  /\ Lowering({"getelementptr"})
  /\ Now.elem \in IntTypes /\ Arg(2).kind = "const"
  /\ \E p \in PtrOperands(Arg(1)) : gep_map' = With(gep_map, i, <<p[1], GepOffset(p)>>)
  /\ i' = i + 1
  /\ UNCHANGED <<body, vreg_map, next_vreg, syllables, phase>>

\* ret: an integer goes to the return register, anything else is not moved.
LowerReturn ==
  /\ Lowering({"ret"})
  /\ LET int == Now.args # <<>> /\ Arg(1).ty \in IntTypes
     IN  /\ int => Lowerable(Arg(1))
         /\ syllables' = IF ~int THEN syllables
                         ELSE IF Arg(1).kind = "const"
                           THEN Append(syllables, Syl("movi", PReg(RetvalReg),
                                                      <<Imm(SignExtend(Arg(1).n, Bits(Arg(1).ty)))>>))
                           ELSE Append(syllables, Syl("mov", PReg(RetvalReg), <<VReg(vreg_map[Arg(1).n])>>))
  /\ i' = i + 1
  /\ UNCHANGED <<body, vreg_map, gep_map, next_vreg, phase>>

\* The operands that lower_operand, or the lookup of ret, is called with.
IntegerArgs ==
  IF Now.op \in BinaryOps \cup {"icmp"} THEN {1, 2}
  ELSE IF Now.op = "store" /\ Arg(1).ty \in AccessTypes THEN {1}
  ELSE IF Now.op = "ret" THEN {a \in DOMAIN Now.args : Arg(a).ty \in IntTypes}
  ELSE {}

\* expect and panic! in the lowering of an operand.
Panic ==
  /\ phase = "lower" /\ i <= Len(body)
  /\ \E a \in IntegerArgs : ~Lowerable(Arg(a))
  /\ Goto("panic")

\* Everything that returns CompileError::NotImplemented.
NotImplemented ==
  /\ phase = "lower" /\ i <= Len(body)
  /\ \A a \in IntegerArgs : Lowerable(Arg(a))
  /\ CASE Now.op \in BinaryOps \cup {"ret"} -> FALSE
       [] Now.op = "icmp" -> Now.pred \notin ComparePreds
       [] Now.op = "store" -> Arg(1).ty \notin AccessTypes \/ PtrOperands(Arg(2)) = {}
       [] Now.op = "load" -> Now.ty \notin AccessTypes \/ PtrOperands(Arg(1)) = {}
       [] Now.op = "getelementptr" ->
            PtrOperands(Arg(1)) = {} \/ Now.elem \notin IntTypes \/ Arg(2).kind # "const"
       [] OTHER -> TRUE
  /\ Goto("not implemented")

Finish == phase = "lower" /\ i = Len(body) + 1 /\ Goto("done")

Terminated == phase \notin {"check", "lower"} /\ UNCHANGED vars

Next ==
  \/ CheckModule \/ LowerBinary \/ LowerICmp \/ LowerStore \/ LowerLoad \/ LowerGep
  \/ LowerReturn \/ Panic \/ NotImplemented \/ Finish \/ Terminated

Spec == Init /\ [][Next]_vars
-----------------------------------------------------------------------------
(***************************************************************************)
(* Properties.                                                             *)
(***************************************************************************)

\* Before phi lowering no virtual register is written twice, and none is read
\* before it is written: what the allocator runs take as their input.
SingleAssignment ==
  \A k \in DOMAIN syllables :
    /\ \A h \in 1 .. (k - 1) : Defs(syllables[k]) \cap Defs(syllables[h]) = {}
    /\ Uses(syllables[k]) \subseteq {0} \cup UNION {Defs(syllables[h]) : h \in 1 .. (k - 1)}

\* The lookups of lower_operand ("VReg not found; value used before definition")
\* never fail for an integer: a panic comes from an operand whose type the subset
\* check does not look at.
PanicOnlyUnchecked ==
  phase = "panic" => \E a \in IntegerArgs : Arg(a).ty \notin IntTypes
=============================================================================
