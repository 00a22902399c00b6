----------------------------- MODULE MCAllocRun -----------------------------
(* Functions for AllocRun: with the four registers r2 .. r5, straight code  *)
(* that spills and a loop that does not; a branch with registers to spare.  *)
EXTENDS AllocRun

Set(v) == Syl("movi", VReg(v), <<Imm(1)>>)
Add(d, a, b) == Syl("add", VReg(d), <<VReg(a), VReg(b)>>)
Compare(d, a, b) == Syl("cmpeq", VReg(d), <<VReg(a), VReg(b)>>)
MoveTo(p, v) == Syl("mov", PReg(p), <<VReg(v)>>)
Copy(d, v) == Syl("mov", VReg(d), <<VReg(v)>>)

\* Code cut into two blocks that run one after the other.
Cut(code, n, term) ==
  <<MirBlock("a", SubSeq(code, 1, n), Jump("b")),
    MirBlock("b", SubSeq(code, n + 1, Len(code)), term)>>

\* Six values and three sums of some of them and of each other; no register is
\* defined twice, as before phi lowering.
MCStraight ==
  {Cut([v \in 1 .. 6 |-> Set(v - 1)]
         \o <<Add(6, a, b), Add(7, c, d), Add(8, e, f), MoveTo(RetvalReg, 8)>>, n, Return) :
     a \in {0, 1, 2}, b \in {0, 3}, c \in {1, 4, 6}, d \in {2, 5}, e \in {0, 4, 7}, f \in {3, 5, 6},
     n \in 6 .. 9}

\* A loop after an entry block: the body updates register 0 from a sum, as the
\* copies of a phi do, and branches back; e is read after the loop.
MCLoop ==
  {<<MirBlock("a", <<Set(0), Set(1)>>, Jump("b")),
     MirBlock("b", <<Add(2, a, b), Compare(3, c, d), Copy(0, f)>>, Branch(VReg(3), "b")),
     MirBlock("c", <<MoveTo(RetvalReg, e)>>, Return)>> :
     a \in 0 .. 1, b \in 0 .. 1, c \in 0 .. 2, d \in 0 .. 2, e \in 0 .. 2, f \in 1 .. 2}

MCFunctions == MCStraight \cup MCLoop

\* Both sides of a branch add 1 to register 0.
MCDiamond ==
  {<<MirBlock("a", <<Set(0), Set(1), Compare(2, 0, 1)>>, Branch(VReg(2), "c")),
     MirBlock("b", <<Add(3, 0, 0), Copy(5, 3)>>, Jump("d")),
     MirBlock("c", <<Set(4), Add(6, 0, 4), Copy(5, 6)>>, Jump("d")),
     MirBlock("d", <<MoveTo(RetvalReg, 5)>>, Return)>>}
=============================================================================
