---------------------------- MODULE MCPhiCopies ----------------------------
(* Copies for PhiCopies: every list for one block beside an empty one, and  *)
(* every pair of short lists over the first registers.                      *)
EXTENDS PhiCopies

MCOneBlock == {[l \in Labels |-> IF l = "p" THEN c ELSE <<>>] : c \in CopyLists}

MCShort(n) ==
  LET regs == 0 .. (VRegs - 2)
  IN  {c \in CopyLists :
         Len(c) <= n /\ \A k \in DOMAIN c :
           c[k].dst \in regs /\ c[k].src \in {VReg(v) : v \in regs} \cup {Const(i) : i \in Consts}}

MCInputs == MCOneBlock \cup [Labels -> MCShort(2)]
=============================================================================
