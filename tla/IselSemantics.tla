--------------------------- MODULE IselSemantics ---------------------------
(***************************************************************************)
(* What the instructions of IselInstr and the syllables they are lowered   *)
(* to mean, to compare the two after every instruction.  A value that was  *)
(* never computed is Undefined.  Memory maps the addresses that were       *)
(* written to values; every other address holds its own number.            *)
(***************************************************************************)
EXTENDS IselInstr, Bitwise, TLC

Undefined == -1
ParamAddress == 64

Lookup(f, x) == IF x \in DOMAIN f THEN f[x] ELSE Undefined
Read(mem, a, bits) == (IF a \in DOMAIN mem THEN mem[a] ELSE a) % 2 ^ bits

Signed(x, bits) == IF x >= 2 ^ (bits - 1) THEN x - 2 ^ bits ELSE x

\* The arithmetic of both machines, on words of `bits' bits.
Compute(op, x, y, bits) ==
  IF x = Undefined \/ y = Undefined THEN Undefined
  ELSE CASE op = "add" -> (x + y) % 2 ^ bits
         [] op = "sub" -> (x - y) % 2 ^ bits
         [] op = "mul" -> (x * y) % 2 ^ bits
         [] op = "and" -> x & y
         [] op = "or"  -> x | y
         [] op = "xor" -> x ^^ y
         [] op = "shl" -> (x * 2 ^ y) % 2 ^ bits
         [] op = "srl" -> x \div 2 ^ y
         [] op = "sra" -> (Signed(x, bits) \div 2 ^ y) % 2 ^ bits
         [] op = "cmpeq"  -> IF x = y THEN 1 ELSE 0
         [] op = "cmplt"  -> IF Signed(x, bits) < Signed(y, bits) THEN 1 ELSE 0
         [] op = "cmpult" -> IF x < y THEN 1 ELSE 0

\* LLVM: the state [val, mem, ret] after one more instruction.
Evaluate(st, j) ==
  LET ins == body[j]
      x == [a \in DOMAIN ins.args |->
              IF ins.args[a].kind = "ref" THEN Lookup(st.val, ins.args[a].n) ELSE ins.args[a].n]
      bits == Bits(ins.args[1].ty)
      result(v) == [st EXCEPT !.val = @ @@ (j :> v)]
      icmp == CASE ins.pred = "eq"  -> x[1] = x[2]
                [] ins.pred = "ne"  -> x[1] # x[2]
                [] ins.pred = "ult" -> x[1] < x[2]
                [] ins.pred = "ugt" -> x[1] > x[2]
                [] ins.pred = "slt" -> Signed(x[1], bits) < Signed(x[2], bits)
                [] ins.pred = "sgt" -> Signed(x[1], bits) > Signed(x[2], bits)
  IN  CASE ins.op \in BinaryOps -> result(Compute(VliwOp(ins.op), x[1], x[2], bits))
        [] ins.op = "icmp"       -> result(IF icmp THEN 1 ELSE 0)
        [] ins.op = "load"       -> result(Read(st.mem, x[1], Bits(ins.ty)))
        [] ins.op = "store"      -> [st EXCEPT !.mem = (x[2] :> x[1]) @@ @]
        [] ins.op = "getelementptr" ->
             result(x[1] + x[2] * (IF ins.elem = "i1" THEN 1 ELSE TypeByteSize(ins.elem)))
        [] ins.op = "ret"        -> IF x = <<>> THEN st ELSE [st EXCEPT !.ret = x[1]]

LlvmState ==
  LET after[j \in 0 .. (i - 1)] ==
        IF j = 0 THEN [val |-> (Param :> ParamAddress), mem |-> <<>>, ret |-> Undefined]
        ELSE Evaluate(after[j - 1], j)
  IN  after[i - 1]

\* MIR: predicates and general registers are different files, as in lower_syllable.
File(pred, v) == <<IF pred THEN "Pred" ELSE "Gpr", v>>

\* The state [reg, mem, ret] after one more syllable.
Execute(st, syl) ==
  LET src(k) == IF syl.srcs[k].kind = "VReg"
                  THEN Lookup(st.reg, File(syl.opcode \in PredLogicOps, syl.srcs[k].n))
                  ELSE syl.srcs[k].n
      n == Len(syl.srcs)
      addr(last) == src(1) + (IF last = 2 THEN src(2) ELSE 0)
      width == CASE syl.opcode \in {"ldb", "stb"} -> 1
                 [] syl.opcode \in {"ldw", "stw"} -> HalfBits
                 [] OTHER -> WordBits
      v == CASE syl.opcode \in {"mov", "movi"} -> src(1)
             [] syl.opcode = "pnot" -> IF src(1) = Undefined THEN Undefined ELSE 1 - src(1)
             [] syl.opcode \in LoadOps -> Read(st.mem, addr(n), width)
             [] OTHER -> Compute(syl.opcode, src(1), src(2), WordBits)
  IN  IF syl.opcode \in StoreOps THEN [st EXCEPT !.mem = (addr(n - 1) :> src(n) % 2 ^ width) @@ @]
      ELSE IF syl.dst.kind = "PReg" THEN [st EXCEPT !.ret = v]
      ELSE [st EXCEPT !.reg = (File(WritesPred(syl.opcode), syl.dst.n) :> v) @@ @]

MirState ==
  LET after[k \in 0 .. Len(syllables)] ==
        IF k = 0 THEN [reg |-> (File(FALSE, 0) :> ParamAddress), mem |-> <<>>, ret |-> Undefined]
        ELSE Execute(after[k - 1], syllables[k])
  IN  after[Len(syllables)]

\* Two values agree as values of a type: in its low bits.
Agree(x, y, ty) == x # Undefined /\ y # Undefined /\ x % 2 ^ Bits(ty) = y % 2 ^ Bits(ty)
-----------------------------------------------------------------------------
(***************************************************************************)
(* The instructions that the subset check lets through and the code is     *)
(* known to lower wrongly: those that look at more bits of a register than *)
(* their type has, where only constants are extended; those that read a    *)
(* comparison's result, which is a predicate, as a general register; and   *)
(* the addresses of i1 elements, which have size 0.                        *)
(***************************************************************************)
Narrow(ins) == ins.args[1].ty \in {"i1", "i32"}
Computed(arg) == arg.kind = "ref"

ReadsHighBits(ins) ==
  \/ ins.op = "lshr" /\ Narrow(ins)
  \/ ins.op \in {"ashr", "icmp"} /\ Narrow(ins) /\ \E a \in 1 .. 2 : Computed(ins.args[a])
  \/ ins.op = "shl" /\ Narrow(ins) /\ Computed(ins.args[2])

ReadsPredicate(ins) ==
  \E a \in DOMAIN ins.args :
    Computed(ins.args[a]) /\ ins.args[a].n # Param /\ body[ins.args[a].n].op = "icmp"

Deviates(ins) ==
  \/ ReadsHighBits(ins)
  \/ ReadsPredicate(ins)
  \/ ins.op = "getelementptr" /\ ins.elem = "i1"

\* The instructions so far that deviate, that use what such an instruction
\* computed, or that load after it was stored or used as an address.
Affected ==
  LET affected[j \in 1 .. (i - 1)] ==
        \/ Deviates(body[j])
        \/ \E a \in DOMAIN body[j].args :
             LET arg == body[j].args[a]
             IN  Computed(arg) /\ arg.n # Param /\ affected[arg.n]
        \/ body[j].op = "load" /\ \E k \in 1 .. (j - 1) : body[k].op = "store" /\ affected[k]
  IN  {j \in 1 .. (i - 1) : affected[j]}

\* "Supported lowering currently includes integer ALU ops, integer comparisons,
\* loads and stores, constant-offset GEPs" (README.md).  After every instruction
\* of a body the subset check lets through, the registers of all results so far,
\* the folded addresses, the memory and the return register agree with LLVM,
\* except for what the instructions of Deviates compute and what is computed from
\* it: a deviation spreads along operands and memory and no further.
SameResults ==
  phase \in {"lower", "done"} =>
    LET llvm == LlvmState
        mir == MirState
        affected == Affected
        RegisterOf(j) == Lookup(mir.reg, File(body[j].op = "icmp", vreg_map[j]))
        BaseOf(j) == IF gep_map[j][1].kind = "VReg"
                       THEN Lookup(mir.reg, File(FALSE, gep_map[j][1].n)) ELSE gep_map[j][1].n
    IN  /\ \A j \in DOMAIN vreg_map \ ({Param} \cup affected) :
             Agree(llvm.val[j], RegisterOf(j), body[j].ty)
        /\ \A j \in DOMAIN gep_map \ affected : BaseOf(j) + gep_map[j][2] = llvm.val[j]
        /\ (\A j \in affected : body[j].op # "store") => mir.mem = llvm.mem
        /\ phase = "done" /\ body[Len(body)].op = "ret" /\ body[Len(body)].args # <<>>
             /\ Len(body) \notin affected =>
             Agree(llvm.ret, mir.ret, body[Len(body)].args[1].ty)
=============================================================================
