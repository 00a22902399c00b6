------------------------------ MODULE MCPacker ------------------------------
(* Small modules for Packer: one block of every sequence of a few syllables,*)
(* and two functions, the first with a branch around a block.               *)
EXTENDS Packer

\* Processor::default(): I0, I1, M, X.
DefaultProcessor ==
  [ width |-> 4,
    slot_units |-> <<{"IntegerAlu"}, {"IntegerAlu"}, {"Memory"}, {"Control", "Multiplier"}>>,
    aliases |-> [I0 |-> 1, I1 |-> 2, M |-> 3, X |-> 4] ]

ScalarSyllables ==
  { Syl("ldd", 2, <<Imm(8)>>),
    Syl("std", NoDst, <<Imm(8), Reg(2)>>),
    Syl("stw", NoDst, <<Reg(3), Imm(4), Imm(1)>>),
    Syl("mul", 3, <<Reg(2), Reg(3)>>),
    Syl("add", 2, <<Reg(3), Imm(1)>>),
    Syl("movi", 3, <<Imm(7)>>) }

Compare == Syl("cmplt", 2, <<Reg(2), Reg(3)>>)

SeqsUpTo(S, n) == UNION {[1 .. m -> S] : m \in 0 .. n}

Ops(syls) == [i \in DOMAIN syls |-> Op(syls[i])]

Block(l, syls, term) == <<BlockStart(l)>> \o Ops(syls) \o <<term>>

\* One block that ends in a return, or in a branch on the predicate of its
\* only comparison, which stands anywhere in the block.
OneBlock(n) ==
  {<<FuncStart(1)>> \o Block(2, s, Term("ret", 0, 0)) : s \in SeqsUpTo(ScalarSyllables, n)}
    \cup
  {<<FuncStart(1)>> \o Block(2, s \o <<Compare>> \o t, Term("br", 2, 2)) :
     s \in SeqsUpTo(ScalarSyllables, 2), t \in SeqsUpTo(ScalarSyllables, 1)}

\* An operation no slot of the default layout runs, and an operand shape that
\* is not lowered.
Rejected ==
  {<<FuncStart(1)>> \o Block(2, <<s>>, Term("ret", 0, 0)) :
     s \in {Syl("fpadd32", 2, <<Reg(2), Reg(3)>>), Syl("add", 2, <<Stack(8), Reg(3)>>)}}

MCOneBlock == OneBlock(4) \cup Rejected

Carried == {Syl("ldd", 4, <<Imm(8)>>), Syl("mul", 3, <<Reg(4), Reg(3)>>),
            Syl("add", 2, <<Reg(4), Imm(1)>>)}

\* Two functions; the first branches around its second block.
MCTwoFunctions ==
  {<<FuncStart(1)>> \o Block(2, <<Compare>> \o s, Term("br", 2, 4))
     \o Block(3, t, Term("jmp", 0, 4)) \o Block(4, u, Term("ret", 0, 0))
     \o <<FuncStart(5)>> \o Block(6, v, Term("ret", 0, 0)) :
   s \in SeqsUpTo(Carried, 2), t \in SeqsUpTo(Carried, 1),
   u \in SeqsUpTo(Carried, 1), v \in SeqsUpTo(Carried, 2)}

MCPrograms == MCOneBlock \cup MCTwoFunctions

\* What isel emits for an `icmp ne' and its branch: a comparison and the pnot that
\* reads and writes its predicate, with up to one syllable before them.
MCPredicates ==
  {<<FuncStart(1)>> \o Block(2, s \o <<Compare, Syl("pnot", 2, <<Reg(2)>>)>>, Term("br", 2, 2)) :
     s \in SeqsUpTo(ScalarSyllables, 1)}
=============================================================================
