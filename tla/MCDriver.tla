------------------------------ MODULE MCDriver -------------------------------
(* Command lines, configuration files and compiled items for Driver.         *)
EXTENDS Driver

\* Every mode of the command line; the ones with a processor file differ in
\* nothing else that the parser could notice.  "a_path" is any path, `-' too,
\* which main writes like every other and the help calls stdout.
MCArgs ==
  {a \in [emit : {"bundles", "demo"}, demo : BOOLEAN, emit_mir : BOOLEAN, input : {"none", "a_file"},
          output : {"none", "a_path"}, processor : {"none", "a_file"}, schedule : {"scalar", "pack"}] :
     a.processor # "none" => a.schedule = "pack" /\ a.output = "a_path"}

Unit(n, k) == [name |-> n, kind |-> k]
Alias(n, s) == [name |-> n, slot |-> s]

\* The canonical four slots.
MCDefault ==
  ProcessorOf(4, <<Unit("alu", "integer_alu"), Unit("mem", "memory"), Unit("ctrl", "control"),
                   Unit("mul", "multiplier")>>,
              <<Alias("I0", 0), Alias("I1", 1), Alias("M", 2), Alias("X", 3)>>,
              <<<<"alu">>, <<"alu">>, <<"mem">>, <<"ctrl", "mul">>>>, 1, DEFAULT_MEMORY_SIZE)

\* Two named slots out of three, named out of order; one with two names; one name
\* for two slots; and the name of slots without one.
MCProcessors ==
  {ProcessorOf(3, <<Unit("alu", "integer_alu")>>, als, <<<<"alu">>, <<>>, <<"alu", "mem">>>>, 1, mem) :
     als \in {<<Alias("X", 2), Alias("I", 0)>>, <<Alias("I", 0), Alias("J", 0), Alias("M", 5)>>, <<>>,
             <<Alias("I", 0), Alias("I", 1)>>, <<Alias("??", 2)>>},
     mem \in {DEFAULT_MEMORY_SIZE, 3}}

MCOperands ==
  {Reg(1), Pred(1), Imm(-2), Imm(0), Label(Word("loop")), MemAddr(1, 0), MemAddr(0, I64Max), MemAddr(0, -I64Max),
   MemAddr(0, -(I64Max + 1))}

\* Labels spelled like a register, a predicate, a register no file has or a number,
\* in range and not, with leading zeros, and like the beginning of a number.
OddLabels ==
  {Label(s) : s \in {Letter("r", 1), Letter("p", 0), Letter("r", U8Max + 1), Number(2), Number(I64Max + 1),
                     WithZeros(Letter("r", 1), 1), WithZeros(Number(2), 1), Dashed("1x")}}

Slots(Ops) ==
  {None, Syllable("ret", <<>>), Syllable("nop", <<>>)} \cup {Syllable("add", <<Reg(0), o>>) : o \in Ops}

ItemsOver(Ops) ==
  {<<LabelItem(Word("loop")), Bundle(<<s, t>>), Bundle(<<>>)>> : s \in Slots(Ops), t \in Slots(Ops)}

\* All operands for the processors above, a few for the other ones.
MCOutputs(p) ==
  IF p.width = 3 THEN ItemsOver(MCOperands \cup OddLabels)
  ELSE ItemsOver({Pred(1)}) \cup {<<>>}

\* Configuration files: three lines of the processor block in any order, with
\* what follows it; and every file cut short.
HeaderLines ==
  {Blank, Line("cache {"), CountLine("width", 2), CountLine("width", -1), CountLine("memory", 3),
   CountLine("memory", I64Max + 1), CountLine("memory", -1), CountLine("topology", 2), Line("other")}

LayoutLines ==
  {UnitsLine(0, <<"mem">>), UnitsLine(2, <<"alu">>), UnitsLine(0, <<>>), UnitsLine(-1, <<>>),
   AliasLine("I", 1), AliasLine("I", -1), Blank}

Rest ==
  {<<>>, <<Line("{"), [key |-> "slot", name |-> "I", opcode |-> "ret", operands |-> <<>>], Line("}")>>,
   <<Line("{"), [key |-> "slot", name |-> "I", opcode |-> "ld",
                 operands |-> <<[base |-> Word("q"), sign |-> "", abs |-> 0]>>], Line("}")>>}

Files ==
  {<<Line(".processor {"), h, Line("hardware {"), UnitLine("alu", "integer_alu"), Line("}"),
     Line("layout slots {"), a, b, Line("}"), Line("}")>> \o r :
       h \in HeaderLines, a \in LayoutLines, b \in LayoutLines, r \in Rest}

Cut ==
  LET f == <<Line(".processor {"), Line("hardware {"), UnitLine("alu", "integer_alu"), Line("}"),
             Line("layout slots {"), AliasLine("I", 0), Line("}"), Line("}"), Line("{"),
             [key |-> "slot", name |-> "I", opcode |-> "ret", operands |-> <<>>]>>
  IN  {SubSeq(f, 1, k) : k \in 0 .. Len(f)}

MCTexts == Files \cup Cut \cup {HeaderText(p) : p \in MCProcessors}
==============================================================================
