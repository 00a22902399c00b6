------------------------------ MODULE VliwIsa ------------------------------
(***************************************************************************)
(* The instruction set the back end compiles to: the opcode metadata of    *)
(* crates/vliw-asm/src/opcode.rs (which units run an opcode, how long its  *)
(* result takes, what it writes), the fixed registers of                   *)
(* crates/vliw-backend/src/regs.rs and the post-allocation MIR syllable of *)
(* crates/vliw-backend/src/mir.rs.  An opcode is named by its mnemonic:    *)
(* Opcode::mnemonic and Opcode::from_mnemonic are inverse bijections       *)
(* between the enum and this set of names.                                 *)
(***************************************************************************)
EXTENDS Naturals, Sequences

CompareOps == {"cmpeq", "cmplt", "cmpult"}

PredLogicOps == {"pand", "por", "pxor", "pnot"}

TerminatorOps == {"br", "jmp", "call", "ret"}

LoadOps == {"ldb", "ldh", "ldw", "ldd"}

StoreOps == {"stb", "sth", "stw", "std"}

IntegerAluOps ==
  {"add", "sub", "and", "or", "xor", "shl", "srl", "sra", "mov", "movi"}
    \cup CompareOps

MemoryOps ==
  LoadOps \cup StoreOps \cup {"lea", "prefetch", "acqload", "relstore"}

ControlOps == TerminatorOps \cup PredLogicOps

MultiplierOps == {"mul", "mulh"}

FloatOps == {"fpadd32", "fpmul32", "fpadd64", "fpmul64"}

AesOps == {"aesenc", "aesdec"}

Opcodes ==
  IntegerAluOps \cup MemoryOps \cup ControlOps \cup MultiplierOps
    \cup FloatOps \cup AesOps \cup {"nop"}

\* Opcode::units: the unit kinds that run op.  "nop" needs none.
Units(op) ==
  CASE op \in IntegerAluOps -> {"IntegerAlu"}
    [] op \in MemoryOps     -> {"Memory"}
    [] op \in ControlOps    -> {"Control"}
    [] op \in MultiplierOps -> {"Multiplier"}
    [] op \in FloatOps      -> {"FloatingPoint"}
    [] op \in AesOps        -> {"Aes"}
    [] OTHER                -> {}

\* Opcode::latency: cycles from issue until the result may be read.
Latency(op) ==
  CASE op \in LoadOps \cup {"acqload"} \cup MultiplierOps    -> 3
    [] op \in {"fpadd32", "fpmul32"} \cup AesOps             -> 4
    [] op \in {"fpadd64", "fpmul64"}                         -> 6
    [] op = "nop"                                            -> 0
    [] OTHER                                                 -> 1

\* Opcode::writes_gpr; "call" is in it for its implicit write of the link
\* register, which is no operand of the syllable.
WritesGpr(op) ==
  op \in (IntegerAluOps \ CompareOps) \cup LoadOps \cup {"lea", "acqload"}
           \cup MultiplierOps \cup FloatOps \cup AesOps \cup {"call"}

\* Opcode::writes_pred.
WritesPred(op) == op \in CompareOps \cup PredLogicOps

\* Opcode::writes_mem.
WritesMem(op) == op \in StoreOps \cup {"relstore"}

ZeroReg == 0
RetvalReg == 1
LinkReg == 31
Gprs == ZeroReg .. LinkReg

(***************************************************************************)
(* mir::Value and mir::Syllable after register allocation, where every     *)
(* register is a PReg.  NoDst is the dst of a syllable that has none.      *)
(***************************************************************************)
NoDst == 32

\* A register as the ready tables and the dependence tables name it.
Key(class, r) == [class |-> class, reg |-> r]

Value == [kind : {"Reg", "Imm", "Stack"}, n : Nat]

Reg(r) == [kind |-> "Reg", n |-> r]
Imm(k) == [kind |-> "Imm", n |-> k]
Stack(k) == [kind |-> "Stack", n |-> k]

MirSyllable == [opcode : Opcodes, dst : Gprs \cup {NoDst}, srcs : Seq(Value)]

Syl(op, dst, srcs) == [opcode |-> op, dst |-> dst, srcs |-> srcs]
=============================================================================
