----------------------------- MODULE MCLiveness -----------------------------
(* Functions of three blocks for Liveness: every shape of control flow, and *)
(* blocks that expose, define, or define and then use a register.           *)
EXTENDS Liveness

Use(v) == Syl("std", NoReg, <<Imm(0), VReg(v)>>)
Set(v) == Syl("movi", VReg(v), <<Imm(1)>>)
Step(v, w) == Syl("add", VReg(v), <<VReg(w), VReg(v)>>)

Bodies(v, w) == {<<>>, <<Use(v)>>, <<Set(v), Use(v)>>, <<Step(v, w)>>}

Terms(v, Ls) == {Return} \cup {Jump(l) : l \in Ls} \cup {Branch(VReg(v), l) : l \in Ls}

Ls == {"a", "b", "c"}

MCBlocks(l, v, w) == {MirBlock(l, s, t) : s \in Bodies(v, w), t \in Terms(w, Ls)}

\* Three blocks of any body and any terminator.
MCThreeBlocks ==
  {<<x, y, z>> : x \in MCBlocks("a", 0, 1), y \in MCBlocks("b", 0, 1),
                 z \in {b \in MCBlocks("c", 0, 1) : b.terminator.op # "br"}}

\* Registers the set has no bit for, and the ones their bits fall on.
MCManyRegisters ==
  {<<MirBlock("a", <<Set(v), Set(w)>>, Jump("b")), MirBlock("b", <<Use(v)>>, Return)>> :
     v \in 0 .. 3, w \in 0 .. 3}

MCFunctions == MCThreeBlocks \cup MCManyRegisters
=============================================================================
