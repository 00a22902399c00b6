-------------------------- MODULE MCListScheduler --------------------------
(* Blocks of loads, stores, arithmetic and predicate code over two general  *)
(* registers and one predicate, so that every kind of dependence, alias and *)
(* latency meets every other.                                               *)
EXTENDS ListScheduler

MCSyllables ==
  { Syl("ldd", 2, <<Stack(0)>>),
    Syl("std", NoDst, <<Stack(8), Reg(2)>>),
    Syl("stw", NoDst, <<Imm(16), Reg(3)>>),
    Syl("ldw", 3, <<Reg(2)>>),
    Syl("mul", 2, <<Reg(2), Reg(3)>>),
    Syl("add", 3, <<Reg(2), Imm(1)>>),
    Syl("movi", 2, <<Imm(7)>>),
    Syl("cmpeq", 2, <<Reg(2), Reg(3)>>),
    Syl("pnot", 2, <<Reg(2)>>) }
=============================================================================
