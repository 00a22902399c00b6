---------------------------- MODULE DriverProofs ----------------------------
(***************************************************************************)
(* Theorems about the driver of main.rs, for every command line, every     *)
(* configuration file and every failure of a stage or of a write: what the *)
(* exit status says, and what may be found at the destination.  And about  *)
(* the text of the output, for every program and every processor: parse    *)
(* accepts it and reads the program it was written from.                   *)
(***************************************************************************)
EXTENDS Driver, SequenceTheorems, WellFoundedInduction, TLAPS

\* A text the driver may write.
GoodText(t) ==
  /\ t = [kind |-> t.kind, through |-> t.through]
  /\ \/ t.kind \in {"demo", "demo_mir"}
     \/ t.kind = "mir" /\ \E k \in DOMAIN t.through : t.through[k] = "check"
     \/ t.kind = "bundles" /\ \E k \in DOMAIN t.through : t.through[k] = "verify"

\* The stages of the arm of the match that the arguments select.
ModeStages == Stages(Mode)

StageName ==
  {"read_input", "load_processor", "parse", "check", "optimise", "lower", "lower_all",
   "allocate", "scalar", "pack", "verify", "emit_text"}

\* The stages that have succeeded are the first of those the mode calls for, and
\* a compilation to bundles that has not yet returned has not emitted.
DoneIsPrefix ==
  /\ Len(done) \in Nat /\ Len(done) <= Len(ModeStages)
  /\ done \in Seq(StageName)
  /\ \A k \in 1 .. Len(done) : done[k] = ModeStages[k]
  /\ Mode = "bundles" => Len(done) < Len(ModeStages)

\* Nothing is written before the text is complete, and only the text is.
NothingWritten == stdout = Empty /\ file = Old

StepOK ==
  CASE step = "select"    -> done = <<>> /\ out = NoText /\ NothingWritten /\ exit = "running"
    [] step = "compile"   -> /\ Mode \in {"mir", "bundles"} /\ DoneIsPrefix
                             /\ out = NoText /\ NothingWritten /\ exit = "running"
    [] step = "write"     -> GoodText(out) /\ NothingWritten /\ exit = "running"
    [] step = "write_all" -> GoodText(out) /\ stdout = Empty /\ file = Empty /\ exit = "running"
    [] OTHER              ->
         \/ exit = "ok" /\ GoodText(out) /\ stdout \in {out, Empty} /\ file \in {out, Old}
              /\ out \in {stdout, file}
         \/ exit = "error" /\ out = NoText /\ NothingWritten
         \/ exit = "error" /\ GoodText(out) /\ stdout \in {Empty, Partial}
              /\ file \in {Old, Empty, Partial}

\* The inductive invariant.
DriverInv == args \in Args /\ StepOK

LEMMA DriverInitInv == DriverInit => DriverInv
  BY DEF DriverInit, DriverInv, StepOK, NothingWritten

\* The stages of a compilation to MIR and of one to bundles.
LEMMA StagesOfMir ==
  ASSUME Mode = "mir"
  PROVE  /\ Len(ModeStages) = 4
         /\ ModeStages[3] = "check"
         /\ \A k \in 1 .. 4 : ModeStages[k] \in StageName \ {"emit_text"}
<1> DEFINE st == ModeStages
<1>1. st = <<"read_input", "parse", "check", "lower">>
  BY DEF Stages, ModeStages
<1> HIDE DEF st
<1>2. /\ Len(st) = 4
      /\ st[1] = "read_input" /\ st[2] = "parse" /\ st[3] = "check" /\ st[4] = "lower"
  BY <1>1
<1>3. \A k \in 1 .. 4 : k = 1 \/ k = 2 \/ k = 3 \/ k = 4
  OBVIOUS
<1>4. \A k \in 1 .. 4 : st[k] \in StageName \ {"emit_text"}
  BY <1>2, <1>3 DEF StageName
<1> QED
  BY <1>2, <1>4 DEF st

\* A compilation to bundles verifies right before it emits, and emits last.
LEMMA StagesOfBundles ==
  ASSUME args \in Args, Mode = "bundles"
  PROVE  /\ Len(ModeStages) = 10
         /\ ModeStages[9] = "verify" /\ ModeStages[10] = "emit_text"
         /\ \A k \in 1 .. 9 : ModeStages[k] \in StageName \ {"emit_text"}
<1> DEFINE st == ModeStages
<1>1. st = <<"read_input", "load_processor", "parse", "check", "optimise",
             "lower_all", "allocate", args.schedule, "verify", "emit_text">>
  BY DEF Stages, ModeStages
<1> HIDE DEF st
<1>2. /\ Len(st) = 10
      /\ st[1] = "read_input" /\ st[2] = "load_processor" /\ st[3] = "parse"
      /\ st[4] = "check" /\ st[5] = "optimise" /\ st[6] = "lower_all"
      /\ st[7] = "allocate" /\ st[8] = args.schedule /\ st[9] = "verify"
      /\ st[10] = "emit_text"
  BY <1>1
<1>3. \A k \in 1 .. 9 :
        k = 1 \/ k = 2 \/ k = 3 \/ k = 4 \/ k = 5 \/ k = 6 \/ k = 7 \/ k = 8 \/ k = 9
  OBVIOUS
<1>4. args.schedule \in {"scalar", "pack"}
  BY ArgsAssumption
<1>5. \A k \in 1 .. 9 : st[k] \in StageName \ {"emit_text"}
  BY <1>2, <1>3, <1>4 DEF StageName
<1> QED
  BY <1>2, <1>5 DEF st

\* Every step of main, of the parser and of fs::write keeps the invariant.
LEMMA DriverNextInv == DriverInv /\ [DriverNext]_allVars => DriverInv'
<1> SUFFICES ASSUME DriverInv, [DriverNext]_allVars PROVE DriverInv'
  OBVIOUS
<1> USE DEF DriverInv
<1>1. CASE EmitDemo
  BY <1>1 DEF EmitDemo, StepOK, NothingWritten, GoodText, Text
<1>2. CASE SelectInput
  <2>1. done = <<>> /\ out = NoText /\ NothingWritten /\ exit = "running"
    BY <1>2 DEF SelectInput, StepOK
  <2>2. CASE args.input = "none"
    BY <1>2, <2>1, <2>2 DEF SelectInput, Fail, StepOK, NothingWritten
  <2>3. CASE args.input # "none"
    <3>1. /\ step' = "compile" /\ exit' = "running" /\ Mode \in {"mir", "bundles"}
          /\ UNCHANGED <<args, done, source, out, stdout, file>>
      BY <1>2, <2>1, <2>3 DEF SelectInput
    <3>2. DoneIsPrefix
      <4>1. Len(done) = 0 /\ done \in Seq(StageName)
        BY <2>1
      <4>2. Len(ModeStages) \in {4, 10}
        BY <3>1, StagesOfMir, StagesOfBundles
      <4> QED
        BY <4>1, <4>2 DEF DoneIsPrefix
    <3>3. DoneIsPrefix' /\ Mode' = Mode
      BY <3>1, <3>2 DEF DoneIsPrefix, ModeStages, Mode, EffectiveEmit, Stages
    <3> QED
      BY <2>1, <3>1, <3>3 DEF StepOK, NothingWritten
  <2> QED
    BY <2>2, <2>3
<1>10. CASE UNCHANGED driverVars
  BY <1>10
     DEF driverVars, StepOK, NothingWritten, DoneIsPrefix, ModeStages, Mode, EffectiveEmit, Stages, GoodText
<1>3. CASE LoadDefault \/ Loaded \/ RunStage
  <2>0. HasStage /\ Pending # "emit_text" /\ Succeed
    BY <1>3 DEF LoadDefault, Loaded, RunStage
  <2>1. /\ step = "compile" /\ Len(done) < Len(ModeStages)
        /\ ModeStages[Len(done) + 1] # "emit_text"
        /\ done' = Append(done, ModeStages[Len(done) + 1])
        /\ UNCHANGED <<args, step, out, stdout, file, exit>>
    BY <1>3, <2>0, Zenon
       DEF LoadDefault, Loaded, RunStage, HasStage, Pending, Succeed, ModeStages
  <2>2. /\ Mode \in {"mir", "bundles"} /\ DoneIsPrefix
        /\ out = NoText /\ NothingWritten /\ exit = "running" /\ step = "compile"
    BY <2>1 DEF StepOK
  <2>3. Mode' = Mode /\ ModeStages' = ModeStages
    BY <2>1 DEF ModeStages, Mode, EffectiveEmit, Stages
  <2>4. /\ Len(done) + 1 \in 1 .. Len(ModeStages)
        /\ ModeStages[Len(done) + 1] \in StageName
        /\ Mode = "bundles" => Len(done) + 1 < Len(ModeStages)
    <3>1. CASE Mode = "mir"
      <4>1. Len(ModeStages) = 4 /\ \A k \in 1 .. 4 : ModeStages[k] \in StageName
        BY <3>1, StagesOfMir
      <4>2. Len(done) \in Nat
        BY <2>2 DEF DoneIsPrefix
      <4>3. Len(done) + 1 \in 1 .. 4
        BY <2>1, <4>1, <4>2
      <4> QED
        BY <3>1, <4>1, <4>3
    <3>2. CASE Mode = "bundles"
      <4>1. Len(ModeStages) = 10 /\ ModeStages[10] = "emit_text"
        BY <3>2, StagesOfBundles
      <4>2. Len(done) \in Nat
        BY <2>2 DEF DoneIsPrefix
      <4>3. Len(done) < 10
        BY <2>1, <4>1
      <4>4. Len(done) + 1 # 10
        BY <2>1, <4>1
      <4>5. Len(done) + 1 \in 1 .. 9
        BY <4>2, <4>3, <4>4
      <4>6. ModeStages[Len(done) + 1] \in StageName
        BY <3>2, <4>5, StagesOfBundles
      <4> QED
        BY <4>1, <4>5, <4>6
    <3> QED
      BY <2>2, <3>1, <3>2
  <2>5. /\ done' \in Seq(StageName) /\ Len(done') = Len(done) + 1
        /\ \A k \in 1 .. Len(done) : done'[k] = done[k]
        /\ done'[Len(done) + 1] = ModeStages[Len(done) + 1]
    BY <2>1, <2>2, <2>4 DEF DoneIsPrefix
  <2>6. DoneIsPrefix'
    <3>1. \A k \in 1 .. Len(done') : done'[k] = ModeStages[k]
      BY <2>2, <2>5 DEF DoneIsPrefix
    <3> QED
      BY <2>2, <2>3, <2>4, <2>5, <3>1 DEF DoneIsPrefix
  <2> QED
    BY <2>1, <2>2, <2>3, <2>6 DEF StepOK, NothingWritten
<1>4. CASE FailStage
  BY <1>4 DEF FailStage, HasStage, Fail, StepOK, NothingWritten
<1>5. CASE EmitBundles
  <2>1. /\ step = "compile" /\ Len(done) < Len(ModeStages)
        /\ ModeStages[Len(done) + 1] = "emit_text"
        /\ done' = Append(done, "emit_text")
        /\ out' = Text(Mode, done') /\ step' = "write"
        /\ UNCHANGED <<args, stdout, file, exit>>
    BY <1>5, Zenon DEF EmitBundles, HasStage, Pending, Succeed, ModeStages
  <2>2. /\ Mode \in {"mir", "bundles"} /\ DoneIsPrefix /\ NothingWritten /\ exit = "running"
    BY <2>1 DEF StepOK
  <2>3. Len(done) + 1 \in 1 .. Len(ModeStages) /\ ModeStages[Len(done) + 1] = "emit_text"
    BY <2>1, <2>2, StagesOfMir, StagesOfBundles DEF DoneIsPrefix
  <2>4. Mode = "bundles"
    BY <2>2, <2>3, StagesOfMir
  <2>5. Len(done) = 9
    <3> DEFINE n == Len(done)
    <3>1. n \in Nat /\ n < 10
      BY <2>1, <2>2, <2>4, StagesOfBundles DEF DoneIsPrefix
    <3>2. n + 1 \in 1 .. 9 => FALSE
      BY <2>1, <2>4, StagesOfBundles
    <3> HIDE DEF n
    <3>3. n = 9
      BY <3>1, <3>2
    <3> QED
      BY <3>3 DEF n
  <2>6. done[9] = "verify"
    BY <2>2, <2>4, <2>5, StagesOfBundles DEF DoneIsPrefix
  <2>7. 9 \in DOMAIN done' /\ done'[9] = "verify"
    <3>1. done \in Seq(StageName) /\ "emit_text" \in StageName
      BY <2>2 DEF DoneIsPrefix, StageName
    <3> QED
      BY <2>1, <2>5, <2>6, <3>1
  <2>8. GoodText(out')
    BY <2>1, <2>4, <2>7 DEF GoodText, Text
  <2> QED
    BY <2>1, <2>2, <2>8 DEF StepOK, NothingWritten, GoodText
<1>6. CASE EmitMir
  <2>1. /\ Mode \in {"mir", "bundles"} /\ DoneIsPrefix /\ NothingWritten /\ exit = "running"
    BY <1>6 DEF EmitMir, StepOK
  <2>2. Mode = "mir" /\ Len(done) = 4
    <3>1. Len(done) = Len(ModeStages)
      BY <1>6, Zenon DEF EmitMir, ModeStages
    <3> QED
      BY <2>1, <3>1, StagesOfMir, StagesOfBundles DEF DoneIsPrefix
  <2>3. done[3] = "check" /\ 3 \in DOMAIN done
    BY <2>1, <2>2, StagesOfMir DEF DoneIsPrefix
  <2>4. GoodText(out')
    BY <1>6, <2>2, <2>3 DEF EmitMir, GoodText, Text
  <2> QED
    BY <1>6, <2>1, <2>4 DEF EmitMir, StepOK, NothingWritten, GoodText
<1>7. CASE WriteStdout
  BY <1>7 DEF WriteStdout, Fail, StepOK, NothingWritten, GoodText
<1>8. CASE OpenFile
  BY <1>8 DEF OpenFile, Fail, StepOK, NothingWritten, GoodText
<1>9. CASE WriteFile
  BY <1>9 DEF WriteFile, Fail, StepOK, NothingWritten, GoodText
<1>11. CASE ReadBack
  BY <1>11 DEF ReadBack, StepOK, NothingWritten, GoodText
<1> QED
  BY <1>1, <1>2, <1>3, <1>4, <1>5, <1>6, <1>7, <1>8, <1>9, <1>10, <1>11
     DEF DriverNext, ReadConfig, Parser, Terminated, allVars

LEMMA DriverSpecInv == DriverSpec => []DriverInv
  BY DriverInitInv, DriverNextInv, PTL DEF DriverSpec
-----------------------------------------------------------------------------
\* Whatever the arguments and whichever stage fails, no text reaches standard
\* output or the output file that has not been through the subset check and,
\* for bundles, the verifier; a compilation that fails leaves both alone.
THEOREM OnlyVerifiedTextIsWritten == DriverSpec => []OnlyVerifiedText
<1>1. DriverInv => OnlyVerifiedText
  <2> SUFFICES ASSUME DriverInv PROVE OnlyVerifiedText
    OBVIOUS
  <2>1. \A t \in {stdout, file} : t \in {Old, Empty, Partial} \/ GoodText(t)
    BY DEF DriverInv, StepOK, NothingWritten
  <2>2. exit = "error" /\ out = NoText => file = Old /\ stdout = Empty
    <3>1. ~GoodText(NoText)
      BY DEF GoodText, NoText
    <3> QED
      BY <3>1 DEF DriverInv, StepOK, NothingWritten
  <2> QED
    BY <2>1, <2>2 DEF OnlyVerifiedText, GoodText
<1> QED
  BY <1>1, DriverSpecInv, PTL

\* main returns Ok exactly when the whole text has been written.
THEOREM ExitStatusIsTrue == DriverSpec => []ExitTellsTheTruth
<1>1. DriverInv => ExitTellsTheTruth
  <2>1. NoText \notin {Old, Empty}
    BY DEF NoText, Old, Empty
  <2>2. ~GoodText(Old) /\ ~GoodText(Empty) /\ ~GoodText(Partial)
    BY DEF GoodText, Old, Empty, Partial
  <2> QED
    BY <2>1, <2>2 DEF DriverInv, StepOK, NothingWritten, ExitTellsTheTruth
<1> QED
  BY <1>1, DriverSpecInv, PTL
-----------------------------------------------------------------------------
(***************************************************************************)
(* The programs that the types of the code allow: numbers are in the range *)
(* of u8, i64, u64 and usize, vectors are sequences.                       *)
(***************************************************************************)
IsSequence(q) ==
  Len(q) \in Nat /\ DOMAIN q = 1 .. Len(q) /\ q = [n \in 1 .. Len(q) |-> q[n]]

IsSpelling(s) ==
  \/ "letter" \in DOMAIN s /\ s = [letter |-> s.letter, n |-> s.n, zeros |-> s.zeros]
  \/ "number" \in DOMAIN s /\ s = [number |-> s.number, zeros |-> s.zeros]
  \/ "dashed" \in DOMAIN s /\ s = Dashed(s.dashed)
  \/ "word" \in DOMAIN s /\ s = Word(s.word)

TypedOperand(o) ==
  \/ "reg" \in DOMAIN o /\ o = Reg(o.reg) /\ o.reg \in 0 .. U8Max
  \/ "pred" \in DOMAIN o /\ o = Pred(o.pred) /\ o.pred \in 0 .. U8Max
  \/ "imm" \in DOMAIN o /\ o = Imm(o.imm) /\ o.imm \in I64
  \/ "label" \in DOMAIN o /\ o = Label(o.label) /\ IsSpelling(o.label)
  \/ /\ "base" \in DOMAIN o /\ o = MemAddr(o.base, o.offset)
     /\ o.base \in 0 .. U8Max /\ o.offset \in I64

TypedSyllable(syl) ==
  \/ syl = None
  \/ /\ "operands" \in DOMAIN syl /\ syl = Syllable(syl.op, syl.operands)
     /\ IsSequence(syl.operands)
     /\ \A n \in DOMAIN syl.operands : TypedOperand(syl.operands[n])

TypedItem(it) ==
  \/ "name" \in DOMAIN it /\ it = LabelItem(it.name)
  \/ /\ "slots" \in DOMAIN it /\ it = Bundle(it.slots)
     /\ IsSequence(it.slots)
     /\ \A n \in DOMAIN it.slots : TypedSyllable(it.slots[n])

TypedAliases(als) ==
  /\ IsSequence(als)
  /\ \A k \in DOMAIN als : /\ als[k] = [name |-> als[k].name, slot |-> als[k].slot]
                           /\ als[k].slot \in Nat

TypedProcessor(p) ==
  /\ p = ProcessorOf(p.width, p.units, p.slot_aliases, p.slot_units, p.cpus, p.memory_size)
  /\ p.width \in Nat /\ p.cpus \in Nat /\ p.memory_size \in 0 .. (U64Size - 1)
  /\ IsSequence(p.units)
  /\ \A k \in DOMAIN p.units : p.units[k] = [name |-> p.units[k].name, kind |-> p.units[k].kind]
  /\ TypedAliases(p.slot_aliases)
  /\ IsSequence(p.slot_units)

WellTyped(p) ==
  /\ "items" \in DOMAIN p /\ p = [processor |-> p.processor, items |-> p.items]
  /\ TypedProcessor(p.processor)
  /\ IsSequence(p.items)
  /\ \A k \in DOMAIN p.items : TypedItem(p.items[k])

\* Those that emit writes so that parse can read them.
WritableOperand(o) == TypedOperand(o) /\ ReadableOperand(o)

WritableSyllable(syl) ==
  /\ TypedSyllable(syl)
  /\ syl # None => \A n \in DOMAIN syl.operands : ReadableOperand(syl.operands[n])

WritableItem(it) ==
  /\ TypedItem(it)
  /\ "slots" \in DOMAIN it => \A n \in DOMAIN it.slots : WritableSyllable(it.slots[n])

WritableProcessor(p) == TypedProcessor(p) /\ p.memory_size <= I64Max

Writable(p) == WellTyped(p) /\ Readable(p)

LEMMA WritableParts ==
  ASSUME NEW p, Writable(p)
  PROVE  /\ WritableProcessor(p.processor)
         /\ \A k \in DOMAIN p.items : WritableItem(p.items[k])
<1>1. WritableProcessor(p.processor)
  BY DEF Writable, WellTyped, Readable, WritableProcessor
<1>2. ASSUME NEW k \in DOMAIN p.items, "slots" \in DOMAIN p.items[k], NEW n \in DOMAIN p.items[k].slots
      PROVE  WritableSyllable(p.items[k].slots[n])
  <2> DEFINE syl == p.items[k].slots[n]
  <2>1. TypedItem(p.items[k])
    BY DEF Writable, WellTyped
  <2>2. "name" \notin DOMAIN p.items[k] \/ p.items[k] # LabelItem(p.items[k].name)
    BY <1>2 DEF LabelItem
  <2>3. TypedSyllable(syl)
    BY <2>1, <2>2, Zenon DEF TypedItem
  <2>4. syl # None => \A h \in DOMAIN syl.operands : ReadableOperand(syl.operands[h])
    BY <1>2, Zenon DEF Writable, Readable, EveryOperand
  <2> QED
    BY <2>3, <2>4, Zenon DEF WritableSyllable
<1>3. \A k \in DOMAIN p.items : WritableItem(p.items[k])
  BY <1>2, Zenon DEF Writable, WellTyped, WritableItem
<1> QED
  BY <1>1, <1>3
-----------------------------------------------------------------------------
(***************************************************************************)
(* An operand and a syllable, written and read again.                      *)
(***************************************************************************)
Reread(o) == CHOOSE x \in ParseOperand(Spelled(o)) : TRUE

\* An operand is read as one operand, which is written the same way unless it was
\* a label with leading zeros; it is the operand unless it is a label.
RereadOK(o) ==
  /\ ParseOperand(Spelled(o)) = {Reread(o)}
  /\ PlainLabel(o) => Spelled(Reread(o)) = Spelled(o)
  /\ WordLabel(o) => Reread(o) = o

LEMMA ChooseOne ==
  ASSUME NEW x
  PROVE  (CHOOSE y \in {x} : TRUE) = x
  OBVIOUS

\* The cases of parse_operand, of which only one applies.
LEMMA ParseOperandCases ==
  ASSUME NEW s
  PROVE  /\ ("base" \in DOMAIN s /\ TryParse("r", s) = {} /\ TryParse("p", s) = {}
              /\ "number" \notin DOMAIN s /\ "dashed" \notin DOMAIN s) =>
              ParseOperand(s) = {MemAddr(b, IF s.sign = "-" THEN -n ELSE n) :
                                   b \in TryParse("r", s.base), n \in ParseHexOrDec(s.abs)}
         /\ ("base" \notin DOMAIN s /\ TryParse("r", s) # {} /\ TryParse("p", s) = {}
              /\ "number" \notin DOMAIN s /\ "dashed" \notin DOMAIN s) =>
              ParseOperand(s) = {Reg(n) : n \in TryParse("r", s)}
         /\ ("base" \notin DOMAIN s /\ TryParse("r", s) = {} /\ TryParse("p", s) # {}
              /\ "number" \notin DOMAIN s /\ "dashed" \notin DOMAIN s) =>
              ParseOperand(s) = {Pred(n) : n \in TryParse("p", s)}
<1> DEFINE A == {MemAddr(b, IF s.sign = "-" THEN -n ELSE n) :
                   b \in TryParse("r", s.base), n \in ParseHexOrDec(s.abs)}
           B == {Reg(n) : n \in TryParse("r", s)}
           C == {Pred(n) : n \in TryParse("p", s)}
           D == {Imm(n) : n \in {s.number} \cap I64}
<1>1. ParseOperand(s) = CASE "base" \in DOMAIN s    -> A
                          [] TryParse("r", s) # {}  -> B
                          [] TryParse("p", s) # {}  -> C
                          [] "number" \in DOMAIN s  -> D
                          [] "dashed" \in DOMAIN s  -> {}
                          [] OTHER                  -> {Label(s)}
  BY DEF ParseOperand
<1> HIDE DEF A, B, C, D
<1> SUFFICES /\ ("base" \in DOMAIN s /\ TryParse("r", s) = {} /\ TryParse("p", s) = {}
                  /\ "number" \notin DOMAIN s /\ "dashed" \notin DOMAIN s) => ParseOperand(s) = A
             /\ ("base" \notin DOMAIN s /\ TryParse("r", s) # {} /\ TryParse("p", s) = {}
                  /\ "number" \notin DOMAIN s /\ "dashed" \notin DOMAIN s) => ParseOperand(s) = B
             /\ ("base" \notin DOMAIN s /\ TryParse("r", s) = {} /\ TryParse("p", s) # {}
                  /\ "number" \notin DOMAIN s /\ "dashed" \notin DOMAIN s) => ParseOperand(s) = C
  BY DEF A, B, C
<1> QED
  BY <1>1

\* A number is an immediate.
LEMMA NumberParsed ==
  ASSUME NEW s, "base" \notin DOMAIN s, TryParse("r", s) = {}, TryParse("p", s) = {},
         "number" \in DOMAIN s, "dashed" \notin DOMAIN s, {s.number} \cap I64 = {s.number}
  PROVE  ParseOperand(s) = {Imm(s.number)}
<1> DEFINE D == {Imm(n) : n \in {s.number} \cap I64}
<1>1. D = {Imm(s.number)}
  OBVIOUS
<1> DEFINE A == {MemAddr(b, IF s.sign = "-" THEN -n ELSE n) :
                   b \in TryParse("r", s.base), n \in ParseHexOrDec(s.abs)}
           B == {Reg(n) : n \in TryParse("r", s)}
           C == {Pred(n) : n \in TryParse("p", s)}
<1>2. ParseOperand(s) = CASE "base" \in DOMAIN s    -> A
                          [] TryParse("r", s) # {}  -> B
                          [] TryParse("p", s) # {}  -> C
                          [] "number" \in DOMAIN s  -> D
                          [] "dashed" \in DOMAIN s  -> {}
                          [] OTHER                  -> {Label(s)}
  BY DEF ParseOperand
<1> HIDE DEF A, B, C, D
<1>3. ParseOperand(s) = D
  BY <1>2
<1> QED
  BY <1>1, <1>3

\* parse_operand reads back every operand emit writes, up to labels that look
\* like something else.
LEMMA OperandReread ==
  ASSUME NEW o, WritableOperand(o)
  PROVE  RereadOK(o)
<1>0. U8Max \in Nat /\ I64Max \in Nat
  BY BoundsAssumption
<1>1. ASSUME NEW x, ParseOperand(Spelled(o)) = {x}
      PROVE  Reread(o) = x
  BY <1>1, ChooseOne DEF Reread
<1>2. CASE "reg" \in DOMAIN o /\ o = Reg(o.reg) /\ o.reg \in 0 .. U8Max
  <2>1. DOMAIN o = {"reg"} /\ Spelled(o) = Letter("r", o.reg)
    BY <1>2 DEF Reg, Spelled
  <2>2. TryParse("r", Letter("r", o.reg)) = {o.reg} /\ TryParse("p", Letter("r", o.reg)) = {}
    BY <1>0, <1>2 DEF TryParse, IsLetter, Letter
  <2>3. "base" \notin DOMAIN Letter("r", o.reg) /\ DOMAIN Letter("r", o.reg) = {"letter", "n", "zeros"}
    BY DEF Letter
  <2>4. ParseOperand(Spelled(o)) = {Reg(o.reg)}
    <3>1. ParseOperand(Letter("r", o.reg)) = {Reg(n) : n \in TryParse("r", Letter("r", o.reg))}
      BY <2>2, <2>3, ParseOperandCases
    <3> QED
      BY <2>1, <2>2, <3>1
  <2>5. Reread(o) = o
    BY <1>1, <1>2, <2>4
  <2> QED
    BY <1>2, <2>4, <2>5 DEF RereadOK
<1>3. CASE "pred" \in DOMAIN o /\ o = Pred(o.pred) /\ o.pred \in 0 .. U8Max
  <2>1. DOMAIN o = {"pred"} /\ Spelled(o) = Letter("p", o.pred)
    BY <1>3 DEF Pred, Spelled
  <2>2. TryParse("p", Letter("p", o.pred)) = {o.pred} /\ TryParse("r", Letter("p", o.pred)) = {}
    BY <1>0, <1>3 DEF TryParse, IsLetter, Letter
  <2>3. "base" \notin DOMAIN Letter("p", o.pred) /\ DOMAIN Letter("p", o.pred) = {"letter", "n", "zeros"}
    BY DEF Letter
  <2>4. ParseOperand(Spelled(o)) = {Pred(o.pred)}
    <3>1. ParseOperand(Letter("p", o.pred)) = {Pred(n) : n \in TryParse("p", Letter("p", o.pred))}
      BY <2>2, <2>3, ParseOperandCases
    <3> QED
      BY <2>1, <2>2, <3>1
  <2>5. Reread(o) = o
    BY <1>1, <1>3, <2>4
  <2> QED
    BY <1>3, <2>4, <2>5 DEF RereadOK
<1>4. CASE "imm" \in DOMAIN o /\ o = Imm(o.imm) /\ o.imm \in I64
  <2>1. DOMAIN o = {"imm"} /\ Spelled(o) = Number(o.imm)
    BY <1>4 DEF Imm, Spelled
  <2>2. DOMAIN Number(o.imm) = {"number", "zeros"} /\ Number(o.imm).number = o.imm
    BY DEF Number
  <2>3. TryParse("r", Number(o.imm)) = {} /\ TryParse("p", Number(o.imm)) = {}
    BY <2>2 DEF TryParse, IsLetter
  <2>4. ParseOperand(Spelled(o)) = {Imm(o.imm)}
    <3>1. {o.imm} \cap I64 = {o.imm}
      BY <1>4
    <3> QED
      BY <2>1, <2>2, <2>3, <3>1, NumberParsed
  <2>5. Reread(o) = o
    BY <1>1, <1>4, <2>4
  <2> QED
    BY <1>4, <2>4, <2>5 DEF RereadOK
<1>5. CASE /\ "base" \in DOMAIN o /\ o = MemAddr(o.base, o.offset)
           /\ o.base \in 0 .. U8Max /\ o.offset \in I64
  <2> DEFINE sign == IF o.offset = 0 THEN "" ELSE IF o.offset > 0 THEN "+" ELSE "-"
             abs == IF o.offset < 0 THEN -o.offset ELSE o.offset
             s == [base |-> Letter("r", o.base), sign |-> sign, abs |-> abs]
  <2>1. DOMAIN o = {"base", "offset"}
    BY <1>5 DEF MemAddr
  <2>2. Spelled(o) = s
    BY <2>1 DEF Spelled
  <2>3. /\ DOMAIN s = {"base", "sign", "abs"} /\ s.base = Letter("r", o.base)
        /\ s.sign = sign /\ s.abs = abs
    OBVIOUS
  <2>4. abs \in 0 .. I64Max /\ (IF sign = "-" THEN -abs ELSE abs) = o.offset
    <3>1. -o.offset <= I64Max
      BY <1>5 DEF WritableOperand, ReadableOperand
    <3> QED
      BY <1>0, <1>5, <3>1 DEF I64
  <2>5. TryParse("r", Letter("r", o.base)) = {o.base}
    BY <1>0, <1>5 DEF TryParse, IsLetter, Letter
  <2>6. ParseHexOrDec(abs) = {abs}
    BY <1>0, <2>4 DEF ParseHexOrDec, I64
  <2> HIDE DEF s, sign, abs
  <2>7. ParseOperand(s) = {MemAddr(b, IF s.sign = "-" THEN -n ELSE n) :
                             b \in TryParse("r", s.base), n \in ParseHexOrDec(s.abs)}
    <3>1. TryParse("r", s) = {} /\ TryParse("p", s) = {}
      BY <2>3 DEF TryParse, IsLetter
    <3> QED
      BY <2>3, <3>1, ParseOperandCases
  <2>8. ParseOperand(s) = {MemAddr(o.base, o.offset)}
    <3>1. ParseOperand(s) = {MemAddr(b, IF sign = "-" THEN -n ELSE n) : b \in {o.base}, n \in {abs}}
      BY <2>3, <2>5, <2>6, <2>7
    <3>2. \A x : x \in ParseOperand(s) <=> x = MemAddr(o.base, IF sign = "-" THEN -abs ELSE abs)
      BY <3>1
    <3> QED
      BY <2>4, <3>2
  <2>9. Reread(o) = o
    BY <1>1, <1>5, <2>2, <2>8
  <2> QED
    BY <1>5, <2>2, <2>8, <2>9 DEF RereadOK
<1>6. CASE "label" \in DOMAIN o /\ o = Label(o.label) /\ IsSpelling(o.label)
  <2> DEFINE s == o.label
  <2>1. DOMAIN o = {"label"} /\ Spelled(o) = s
    BY <1>6 DEF Label, Spelled
  <2>2. ~("base" \in DOMAIN s)
    BY <1>6 DEF IsSpelling, Dashed, Word
  <2>3. CASE TryParse("r", s) # {}
    <3>1. /\ s = [letter |-> "r", n |-> s.n, zeros |-> s.zeros] /\ TryParse("r", s) = {s.n}
          /\ TryParse("p", s) = {} /\ "number" \notin DOMAIN s
      BY <1>6, <2>3 DEF TryParse, IsLetter, IsSpelling, Dashed, Word
    <3>2. ParseOperand(s) = {Reg(s.n)}
      <4>1. ParseOperand(s) = {Reg(n) : n \in TryParse("r", s)}
        BY <2>2, <2>3, <3>1, ParseOperandCases
      <4> QED
        BY <3>1, <4>1
    <3>3. Reread(o) = Reg(s.n)
      BY <1>1, <2>1, <3>2
    <3>4. Spelled(Reg(s.n)) = Letter("r", s.n)
      BY DEF Spelled, Reg
    <3>5. ~WordLabel(o)
      BY <1>6, <2>3 DEF WordLabel
    <3>6. PlainLabel(o) => s = Letter("r", s.n)
      <4>1. "zeros" \in DOMAIN s
        BY <3>1
      <4>2. PlainLabel(o) => s.zeros = 0
        BY <1>6, <4>1 DEF PlainLabel
      <4> QED
        BY <3>1, <4>2 DEF Letter
    <3> QED
      BY <2>1, <3>2, <3>3, <3>4, <3>5, <3>6 DEF RereadOK
  <2>4. CASE TryParse("r", s) = {} /\ TryParse("p", s) # {}
    <3>1. /\ s = [letter |-> "p", n |-> s.n, zeros |-> s.zeros] /\ TryParse("p", s) = {s.n}
          /\ "number" \notin DOMAIN s
      BY <1>6, <2>4 DEF TryParse, IsLetter, IsSpelling, Dashed, Word
    <3>2. ParseOperand(s) = {Pred(s.n)}
      <4>1. ParseOperand(s) = {Pred(n) : n \in TryParse("p", s)}
        BY <2>2, <2>4, <3>1, ParseOperandCases
      <4> QED
        BY <3>1, <4>1
    <3>3. Reread(o) = Pred(s.n)
      BY <1>1, <2>1, <3>2
    <3>4. Spelled(Pred(s.n)) = Letter("p", s.n)
      BY DEF Spelled, Pred
    <3>5. ~WordLabel(o)
      BY <1>6, <2>4 DEF WordLabel
    <3>6. PlainLabel(o) => s = Letter("p", s.n)
      <4>1. "zeros" \in DOMAIN s
        BY <3>1
      <4>2. PlainLabel(o) => s.zeros = 0
        BY <1>6, <4>1 DEF PlainLabel
      <4> QED
        BY <3>1, <4>2 DEF Letter
    <3> QED
      BY <2>1, <3>2, <3>3, <3>4, <3>5, <3>6 DEF RereadOK
  <2>5. CASE TryParse("r", s) = {} /\ TryParse("p", s) = {} /\ "number" \in DOMAIN s
    <3>1. s = [number |-> s.number, zeros |-> s.zeros] /\ s.number \in I64
      BY <1>6, <2>5 DEF IsSpelling, Dashed, Word, WritableOperand, ReadableOperand
    <3>2. ParseOperand(s) = {Imm(s.number)}
      <4>1. {s.number} \cap I64 = {s.number}
        BY <3>1
      <4>2. "dashed" \notin DOMAIN s
        BY <3>1
      <4> QED
        BY <2>2, <2>5, <4>1, <4>2, NumberParsed
    <3>3. Reread(o) = Imm(s.number)
      BY <1>1, <2>1, <3>2
    <3>4. Spelled(Imm(s.number)) = Number(s.number)
      BY DEF Spelled, Imm
    <3>5. ~WordLabel(o)
      BY <1>6, <2>5 DEF WordLabel
    <3>6. PlainLabel(o) => s = Number(s.number)
      <4>1. "zeros" \in DOMAIN s
        BY <3>1
      <4>2. PlainLabel(o) => s.zeros = 0
        BY <1>6, <4>1 DEF PlainLabel
      <4> QED
        BY <3>1, <4>2 DEF Number
    <3> QED
      BY <2>1, <3>2, <3>3, <3>4, <3>5, <3>6 DEF RereadOK
  <2>6. CASE TryParse("r", s) = {} /\ TryParse("p", s) = {} /\ "number" \notin DOMAIN s
    <3>0. "dashed" \notin DOMAIN s
      BY <1>6 DEF WritableOperand, ReadableOperand
    <3>1. ParseOperand(s) = {Label(s)}
      BY <2>2, <2>6, <3>0 DEF ParseOperand
    <3>2. Reread(o) = o
      BY <1>1, <1>6, <2>1, <3>1
    <3> QED
      BY <1>6, <2>1, <3>1, <3>2 DEF RereadOK
  <2> QED
    BY <2>3, <2>4, <2>5, <2>6
<1> QED
  BY <1>2, <1>3, <1>4, <1>5, <1>6 DEF WritableOperand, TypedOperand

\* What parse_syllable makes of the line of a slot.
RereadSyllable(syl) ==
  IF syl = None THEN None
  ELSE IF syl.op = "nop" /\ syl.operands = <<>> THEN None
  ELSE Syllable(syl.op, [k \in DOMAIN syl.operands |-> Reread(syl.operands[k])])

\* The labels of a syllable have no leading zeros.
PlainSyllable(syl) == syl # None => \A n \in DOMAIN syl.operands : PlainLabel(syl.operands[n])

\* A slot line is read as one syllable, which is written as the same line.
LEMMA SyllableReread ==
  ASSUME NEW syl, WritableSyllable(syl)
  PROVE  /\ \A name : ParseSyllable(SlotLine(name, syl)) = {RereadSyllable(syl)}
         /\ PlainSyllable(syl) => \A name : SlotLine(name, RereadSyllable(syl)) = SlotLine(name, syl)
<1>1. CASE syl = None
  <2>1. RereadSyllable(syl) = None
    BY <1>1 DEF RereadSyllable
  <2>2. \A name : SlotLine(name, syl) = [key |-> "slot", name |-> name, opcode |-> "nop", operands |-> <<>>]
    BY <1>1 DEF SlotLine
  <2>3. \A name : ParseSyllable(SlotLine(name, syl)) = {None}
    BY <2>2 DEF ParseSyllable
  <2> QED
    BY <1>1, <2>1, <2>3
<1>2. CASE syl # None
  <2> DEFINE ops == syl.operands
             spelled == [k \in DOMAIN ops |-> Spelled(ops[k])]
             again == [k \in DOMAIN ops |-> Reread(ops[k])]
  <2>1. IsSequence(ops) /\ \A k \in DOMAIN ops : RereadOK(ops[k])
    BY <1>2, OperandReread DEF WritableSyllable, TypedSyllable, WritableOperand
  <2>2. \A name : SlotLine(name, syl) = [key |-> "slot", name |-> name, opcode |-> syl.op, operands |-> spelled]
    BY <1>2 DEF SlotLine
  <2>3. CASE syl.op = "nop" /\ ops = <<>>
    <3>1. spelled = <<>>
      BY <2>3
    <3>2. \A name : SlotLine(name, syl) = [key |-> "slot", name |-> name, opcode |-> "nop", operands |-> <<>>]
      BY <2>2, <2>3, <3>1
    <3>3. \A name : ParseSyllable(SlotLine(name, syl)) = {None}
      BY <3>2 DEF ParseSyllable
    <3>4. RereadSyllable(syl) = None
      BY <2>3 DEF RereadSyllable
    <3>5. \A name : SlotLine(name, None) = [key |-> "slot", name |-> name, opcode |-> "nop", operands |-> <<>>]
      BY DEF SlotLine
    <3> QED
      BY <3>2, <3>3, <3>4, <3>5
  <2>4. CASE ~(syl.op = "nop" /\ ops = <<>>)
    <3>1. spelled = <<>> => ops = <<>>
      <4>1. DOMAIN spelled = DOMAIN ops
        OBVIOUS
      <4>2. spelled = <<>> => DOMAIN ops = {}
        BY <4>1
      <4> QED
        BY <2>1, <4>2 DEF IsSequence
    <3>2. RereadSyllable(syl) = Syllable(syl.op, again)
      BY <1>2, <2>4 DEF RereadSyllable
    <3>3. \A k \in DOMAIN ops : ParseOperand(spelled[k]) = {again[k]}
      BY <2>1 DEF RereadOK
    <3>11. PlainSyllable(syl) => \A k \in DOMAIN ops : Spelled(again[k]) = spelled[k]
      BY <1>2, <2>1 DEF RereadOK, PlainSyllable
    <3>4. DOMAIN spelled = DOMAIN ops /\ DOMAIN again = DOMAIN ops
      OBVIOUS
    <3> HIDE DEF ops
    <3>5. again = [k \in DOMAIN ops |-> again[k]] /\ spelled = [k \in DOMAIN ops |-> spelled[k]]
      OBVIOUS
    <3> HIDE DEF again, spelled
    <3>6. \A k \in DOMAIN ops : (CHOOSE o \in ParseOperand(spelled[k]) : TRUE) = again[k]
      BY <3>3, ChooseOne
    <3>7. [k \in DOMAIN spelled |-> CHOOSE o \in ParseOperand(spelled[k]) : TRUE] = again
      BY <3>4, <3>5, <3>6
    <3>8. PlainSyllable(syl) => [k \in DOMAIN again |-> Spelled(again[k])] = spelled
      BY <3>4, <3>5, <3>11
    <3>9. ASSUME NEW name
          PROVE  ParseSyllable(SlotLine(name, syl)) = {Syllable(syl.op, again)}
      <4> DEFINE line == SlotLine(name, syl)
      <4>1. line.opcode = syl.op /\ line.operands = spelled
        BY <2>2
      <4> HIDE DEF line
      <4>2. ~(line.opcode = "nop" /\ line.operands = <<>>)
        BY <2>4, <3>1, <4>1
      <4>3. ~ \E k \in DOMAIN line.operands : ParseOperand(line.operands[k]) = {}
        BY <3>3, <3>4, <4>1
      <4>4. ParseSyllable(line) = {Syllable(line.opcode,
              [k \in DOMAIN line.operands |-> CHOOSE o \in ParseOperand(line.operands[k]) : TRUE])}
        BY <4>2, <4>3, Zenon DEF ParseSyllable
      <4>5. ParseSyllable(line) = {Syllable(syl.op, again)}
        BY <3>7, <4>1, <4>4
      <4> QED
        BY <4>5 DEF line
    <3>10. ASSUME PlainSyllable(syl), NEW name
           PROVE  SlotLine(name, Syllable(syl.op, again)) = SlotLine(name, syl)
      <4> DEFINE new == Syllable(syl.op, again)
      <4>1. new # None /\ new.op = syl.op /\ new.operands = again
        BY DEF Syllable, None
      <4> HIDE DEF new
      <4>2. SlotLine(name, new) = [key |-> "slot", name |-> name, opcode |-> syl.op,
                                   operands |-> [k \in DOMAIN again |-> Spelled(again[k])]]
        BY <4>1 DEF SlotLine
      <4>3. SlotLine(name, new) = SlotLine(name, syl)
        BY <2>2, <3>8, <3>10, <4>2
      <4> QED
        BY <4>3 DEF new
    <3> QED
      BY <3>2, <3>9, <3>10
  <2> QED
    BY <2>3, <2>4
<1> QED
  BY <1>1, <1>2

\* A syllable that is no bare nop and names no label spelled like something else.
Unambiguous(syl) ==
  syl # None => /\ syl # Syllable("nop", <<>>)
                /\ \A n \in DOMAIN syl.operands : WordLabel(syl.operands[n])

\* It is the syllable that was written, unless it is a bare nop or has a label
\* that looks like a register or a number.
LEMMA UnambiguousReread ==
  ASSUME NEW syl, WritableSyllable(syl), Unambiguous(syl)
  PROVE  RereadSyllable(syl) = syl
<1>1. CASE syl = None
  BY <1>1 DEF RereadSyllable
<1>2. CASE syl # None
  <2> DEFINE ops == syl.operands
  <2>1. IsSequence(ops) /\ syl = Syllable(syl.op, ops) /\ \A k \in DOMAIN ops : RereadOK(ops[k])
    BY <1>2, OperandReread DEF WritableSyllable, TypedSyllable, WritableOperand
  <2>2. \A k \in DOMAIN ops : Reread(ops[k]) = ops[k]
    BY <1>2, <2>1 DEF RereadOK, Unambiguous
  <2>3. RereadSyllable(syl) = Syllable(syl.op, [k \in DOMAIN ops |-> Reread(ops[k])])
    BY <1>2, <2>1 DEF RereadSyllable, Unambiguous
  <2> HIDE DEF ops
  <2>4. [k \in DOMAIN ops |-> Reread(ops[k])] = ops
    BY <2>1, <2>2 DEF IsSequence
  <2> QED
    BY <2>1, <2>3, <2>4
<1> QED
  BY <1>1, <1>2
-----------------------------------------------------------------------------
(***************************************************************************)
(* Numbers.                                                                *)
(***************************************************************************)

\* A non-empty set of natural numbers has a least element.
LEMMA LeastElement ==
  ASSUME NEW T \in SUBSET Nat, T # {}
  PROVE  \E x \in T : \A y \in T : x <= y
<1> DEFINE R == {ss \in Nat \X Nat : ss[1] < ss[2]}
<1>1. R = OpToRel(<, Nat)
  BY DEF OpToRel
<1>2. IsWellFoundedOn(R, Nat)
  BY <1>1, NatLessThanWellFounded
<1>3. PICK x \in T : \A y \in T : ~(<<y, x>> \in R)
  <2> HIDE DEF R
  <2> QED
    BY <1>2, WFMin
<1>4. ASSUME NEW y \in T PROVE x <= y
  <2>1. x \in Nat /\ y \in Nat
    OBVIOUS
  <2>2. y < x => <<y, x>> \in R
    BY <2>1
  <2> QED
    BY <2>1, <2>2, <1>3
<1> QED
  BY <1>4

\* Induction up to n, for a set of numbers.
LEMMA SetInduction ==
  ASSUME NEW n \in Nat, NEW T, 0 \in T, \A k \in 0 .. (n - 1) : k \in T => k + 1 \in T
  PROVE  \A k \in 0 .. n : k \in T
<1> SUFFICES ASSUME (0 .. n) \ T # {}
             PROVE  FALSE
  OBVIOUS
<1>1. (0 .. n) \ T \in SUBSET Nat
  OBVIOUS
<1>2. PICK x \in (0 .. n) \ T : \A y \in (0 .. n) \ T : x <= y
  BY <1>1, LeastElement
<1>3. x # 0 /\ x - 1 \in 0 .. (n - 1) /\ (x - 1) + 1 = x
  BY <1>2
<1>4. x - 1 \in T
  <2>1. x - 1 \in 0 .. n /\ ~(x <= x - 1)
    BY <1>2, <1>3
  <2> QED
    BY <1>2, <2>1
<1> QED
  BY <1>2, <1>3, <1>4
-----------------------------------------------------------------------------
(***************************************************************************)
(* Names of slots.                                                         *)
(***************************************************************************)

\* The name under which a slot is written leads back to it; a slot without a
\* name is found by its place.
LEMMA NameFindsSlot ==
  ASSUME NEW p, TypedAliases(p.slot_aliases), NamesTellSlots(p), proc.slot_aliases = p.slot_aliases
  PROVE  SlotIndex(SlotName(p, pos_idx)) = pos_idx
<1> DEFINE als == p.slot_aliases
           bySlot == FirstThat(als, LAMBDA a : a.slot = pos_idx)
           name == SlotName(p, pos_idx)
           byName == FirstThat(als, LAMBDA a : a.name = name)
<1>1. name = IF bySlot = {} THEN "??" ELSE (CHOOSE a \in bySlot : TRUE).name
  BY DEF SlotName
<1>2. SlotIndex(name) = IF byName = {} THEN pos_idx ELSE (CHOOSE a \in byName : TRUE).slot
  BY DEF SlotIndex
<1>3. \A a \in bySlot : \E k \in DOMAIN als : a = als[k] /\ als[k].slot = pos_idx
  BY DEF FirstThat
<1> HIDE DEF bySlot, name
<1>4. \A a \in byName : \E k \in DOMAIN als : a = als[k] /\ als[k].name = name
  BY DEF FirstThat
<1>5. ASSUME NEW k \in DOMAIN als, als[k].name = name
      PROVE  byName # {}
  <2> DEFINE T == {j \in DOMAIN als : als[j].name = name}
  <2>1. T \in SUBSET Nat /\ T # {} /\ Len(als) \in Nat /\ DOMAIN als = 1 .. Len(als)
    BY <1>5 DEF TypedAliases, IsSequence
  <2>2. PICK x \in T : \A y \in T : x <= y
    <3> HIDE DEF T
    <3> QED
      BY <2>1, LeastElement
  <2>3. \A h \in 1 .. (x - 1) : h \in DOMAIN als /\ ~(x <= h)
    BY <2>1
  <2>4. \A h \in 1 .. (x - 1) : ~(als[h].name = name)
    BY <2>2, <2>3
  <2>5. als[x] \in byName
    BY <2>4 DEF FirstThat
  <2> QED
    BY <2>5
<1> HIDE DEF byName
<1>6. byName # {} => (CHOOSE a \in byName : TRUE) \in byName
  OBVIOUS
<1>7. bySlot # {} => (CHOOSE a \in bySlot : TRUE) \in bySlot
  OBVIOUS
<1>8. CASE bySlot = {}
  <2>1. name = "??"
    BY <1>1, <1>8
  <2>2. byName = {}
    BY <1>4, <2>1 DEF NamesTellSlots
  <2> QED
    BY <1>2, <2>2 DEF name
<1>9. CASE bySlot # {}
  <2>1. PICK k \in DOMAIN als : name = als[k].name /\ als[k].slot = pos_idx
    BY <1>1, <1>3, <1>7, <1>9
  <2>2. byName # {}
    BY <1>5, <2>1
  <2>3. PICK n \in DOMAIN als : (CHOOSE a \in byName : TRUE) = als[n] /\ als[n].name = name
    BY <1>4, <1>6, <2>2
  <2>4. als[n].slot = pos_idx
    BY <2>1, <2>3 DEF NamesTellSlots
  <2>5. SlotIndex(name) = als[n].slot
    BY <1>2, <2>2, <2>3
  <2> QED
    BY <2>4, <2>5 DEF name
<1> QED
  BY <1>8, <1>9
-----------------------------------------------------------------------------
(***************************************************************************)
(* Pieces of a sequence.                                                   *)
(***************************************************************************)
ValuesOf(q) == {q[n] : n \in DOMAIN q}

LEMMA InSeqOfValues ==
  ASSUME NEW q, IsSequence(q), NEW S, ValuesOf(q) \subseteq S
  PROVE  q \in Seq(S)
<1>1. q \in [1 .. Len(q) -> S]
  BY DEF IsSequence, ValuesOf
<1> QED
  BY <1>1, SeqDef DEF IsSequence

LEMMA SeqIsSequence ==
  ASSUME NEW S, NEW q \in Seq(S)
  PROVE  IsSequence(q)
<1>1. Len(q) \in Nat /\ DOMAIN q = 1 .. Len(q) /\ q \in [1 .. Len(q) -> S]
  BY LenProperties
<1> QED
  BY <1>1 DEF IsSequence

\* A function on 1 .. n is a sequence of length n.
LEMMA FunctionIsSequence ==
  ASSUME NEW n \in Nat, NEW q, DOMAIN q = 1 .. n, q = [k \in 1 .. n |-> q[k]]
  PROVE  IsSequence(q) /\ Len(q) = n
<1> DEFINE S == ValuesOf(q)
<1>1. q \in [1 .. n -> S]
  BY DEF ValuesOf
<1>2. q \in Seq(S)
  BY <1>1, SeqDef
<1>3. Len(q) \in Nat /\ DOMAIN q = 1 .. Len(q)
  BY <1>2, LenProperties
<1>4. Len(q) = n
  BY <1>3
<1> QED
  BY <1>2, <1>4, SeqIsSequence

\* Sequence q begins sequence t.
Begins(q, t) ==
  /\ IsSequence(q) /\ IsSequence(t) /\ Len(q) <= Len(t)
  /\ \A k \in 1 .. Len(q) : t[k] = q[k]

\* The lines `part' are in t behind the first `off' lines.
Stands(t, off, part) ==
  /\ off \in Nat /\ IsSequence(part)
  /\ \A k \in 1 .. Len(part) : off + k \in 1 .. Len(t) /\ t[off + k] = part[k]

\* Where the two parts of a concatenation stand in it.
LEMMA ConcatPieces ==
  ASSUME NEW a, IsSequence(a), NEW b, IsSequence(b)
  PROVE  /\ Begins(a, a \o b)
         /\ Len(a \o b) = Len(a) + Len(b)
         /\ Stands(a \o b, Len(a), b)
<1> DEFINE S == ValuesOf(a) \cup ValuesOf(b)
           c == a \o b
<1>1. a \in Seq(S) /\ b \in Seq(S)
  BY InSeqOfValues
<1> HIDE DEF S
<1>2. /\ c \in Seq(S) /\ Len(c) = Len(a) + Len(b)
      /\ \A k \in 1 .. (Len(a) + Len(b)) : c[k] = IF k <= Len(a) THEN a[k] ELSE b[k - Len(a)]
  BY <1>1, ConcatProperties
<1>3. IsSequence(c)
  BY <1>2, SeqIsSequence
<1> HIDE DEF c
<1>4. Len(a) \in Nat /\ Len(b) \in Nat
  BY DEF IsSequence
<1>5. \A k \in 1 .. Len(a) : c[k] = a[k]
  BY <1>2, <1>4
<1>6. \A k \in 1 .. Len(b) : Len(a) + k \in 1 .. Len(c) /\ c[Len(a) + k] = b[k]
  <2> TAKE k \in 1 .. Len(b)
  <2>1. Len(a) + k \in 1 .. (Len(a) + Len(b)) /\ ~(Len(a) + k <= Len(a)) /\ (Len(a) + k) - Len(a) = k
    BY <1>4
  <2> QED
    BY <1>2, <2>1
<1>7. Begins(a, c) /\ Stands(c, Len(a), b)
  BY <1>2, <1>3, <1>4, <1>5, <1>6 DEF Begins, Stands
<1> QED
  BY <1>2, <1>7 DEF c

LEMMA BeginsTrans ==
  ASSUME NEW a, NEW b, NEW c, Begins(a, b), Begins(b, c)
  PROVE  Begins(a, c)
  BY DEF Begins, IsSequence

LEMMA BeginsStands ==
  ASSUME NEW a, NEW b, NEW off, NEW part, Begins(a, b), Stands(a, off, part)
  PROVE  Stands(b, off, part)
<1>1. Len(a) \in Nat /\ Len(b) \in Nat /\ Len(a) <= Len(b)
  BY DEF Begins, IsSequence
<1>2. \A k \in 1 .. Len(part) : off + k \in 1 .. Len(a) /\ b[off + k] = part[k]
  BY DEF Begins, Stands
<1>3. \A k \in 1 .. Len(a) : k \in 1 .. Len(b)
  BY <1>1
<1> QED
  BY <1>2, <1>3 DEF Stands

\* Part of a part.
LEMMA StandsInside ==
  ASSUME NEW t, NEW off, NEW mid, NEW in, NEW part, Stands(t, off, mid), Stands(mid, in, part)
  PROVE  Stands(t, off + in, part)
<1>1. off \in Nat /\ in \in Nat /\ off + in \in Nat
  BY DEF Stands
<1>2. ASSUME NEW k \in 1 .. Len(part)
      PROVE  (off + in) + k \in 1 .. Len(t) /\ t[(off + in) + k] = part[k]
  <2>1. in + k \in 1 .. Len(mid) /\ mid[in + k] = part[k]
    BY DEF Stands
  <2>2. off + (in + k) \in 1 .. Len(t) /\ t[off + (in + k)] = mid[in + k]
    BY <2>1 DEF Stands
  <2>3. k \in Nat /\ off + (in + k) = (off + in) + k
    BY <1>1 DEF Stands, IsSequence
  <2> QED
    BY <2>1, <2>2, <2>3
<1> QED
  BY <1>1, <1>2 DEF Stands

\* The sequences of a sequence, one behind the other: where each begins.
Offsets(f, seqs) ==
  /\ DOMAIN f = 0 .. Len(seqs) /\ f[0] = 0
  /\ \A k \in 0 .. Len(seqs) : f[k] \in Nat
  /\ \A k \in 1 .. Len(seqs) : f[k] = f[k - 1] + Len(seqs[k])

\* The lines of the items stand in the text one item after the other, each at
\* the sum of the lengths before it.
LEMMA Flattened ==
  ASSUME NEW seqs, IsSequence(seqs), \A k \in DOMAIN seqs : IsSequence(seqs[k])
  PROVE  /\ IsSequence(FlattenSeq(seqs))
         /\ \E f : /\ Offsets(f, seqs)
                   /\ Len(FlattenSeq(seqs)) = f[Len(seqs)]
                   /\ \A k \in 1 .. Len(seqs) : Stands(FlattenSeq(seqs), f[k - 1], seqs[k])
<1> DEFINE n == Len(seqs)
<1>1. n \in Nat /\ DOMAIN seqs = 1 .. n
  BY DEF IsSequence
<1>2. CASE n # 0
  <2> DEFINE Step(d, m) == IF m = 1 THEN seqs[m] ELSE d[m - 1] \o seqs[m]
             Eq(d) == d = [m \in 1 .. n |-> Step(d, m)]
             D == CHOOSE d : Eq(d)
  <2>1. FlattenSeq(seqs) = D[n]
    BY <1>2, Zenon DEF FlattenSeq
  <2> HIDE DEF n
  <2>2. \E d : Eq(d)
    <3> DEFINE T == {k \in 0 .. n : \E g : \A m \in 1 .. k : g[m] = Step(g, m)}
    <3>1. 0 \in T
      BY <1>1
    <3>2. ASSUME NEW k \in 0 .. (n - 1), k \in T
          PROVE  k + 1 \in T
      <4>1. PICK g : \A m \in 1 .. k : g[m] = Step(g, m)
        BY <3>2
      <4> DEFINE h == [m \in 1 .. (k + 1) |-> IF m <= k THEN g[m] ELSE Step(g, m)]
      <4>2. \A m \in 1 .. (k + 1) : h[m] = Step(g, m)
        BY <1>1, <4>1
      <4>3. \A m \in 1 .. (k + 1) : m = 1 \/ h[m - 1] = g[m - 1]
        BY <1>1, <4>1
      <4> HIDE DEF h
      <4>4. \A m \in 1 .. (k + 1) : h[m] = Step(h, m)
        BY <4>2, <4>3
      <4>5. k + 1 \in 0 .. n
        BY <1>1
      <4> QED
        BY <4>4, <4>5
    <3>3. n \in T
      <4> HIDE DEF T
      <4>1. \A k \in 0 .. n : k \in T
        BY <1>1, <3>1, <3>2, SetInduction
      <4> QED
        BY <1>1, <4>1
    <3>4. PICK g : \A m \in 1 .. n : g[m] = Step(g, m)
      BY <3>3
    <3> DEFINE d == [m \in 1 .. n |-> g[m]]
    <3>5. \A m \in 1 .. n : m = 1 \/ d[m - 1] = g[m - 1]
      BY <1>1
    <3>6. \A m \in 1 .. n : Step(d, m) = g[m]
      BY <3>4, <3>5
    <3>7. Eq(d)
      BY <3>6
    <3> QED
      BY <3>7
  <2>3. Eq(D)
    <3> HIDE DEF Eq
    <3> QED
      BY <2>2
  <2> HIDE DEF D
  <2>4. /\ D[1] = seqs[1]
        /\ \A m \in 1 .. n : m # 1 => D[m] = D[m - 1] \o seqs[m]
    <3>1. \A m \in 1 .. n : D[m] = Step(D, m)
      BY <2>3
    <3>2. 1 \in 1 .. n
      BY <1>1, <1>2
    <3> QED
      BY <3>1, <3>2
  <2> DEFINE f == [k \in 0 .. n |-> IF k = 0 THEN 0 ELSE Len(D[k])]
             T == {k \in 0 .. n : k # 0 => /\ IsSequence(D[k])
                                           /\ \A j \in 1 .. k : Stands(D[k], f[j - 1], seqs[j])}
  <2>5. ASSUME NEW k \in 0 .. (n - 1), k \in T
        PROVE  k + 1 \in T /\ f[k + 1] = f[k] + Len(seqs[k + 1])
    <3>1. k + 1 \in 1 .. n /\ k \in 0 .. n /\ k + 1 # 0 /\ (k + 1) - 1 = k /\ k + 1 \in 0 .. n
      BY <1>1
    <3>2. IsSequence(seqs[k + 1])
      BY <1>1, <3>1
    <3>3. CASE k = 0
      <4>1. D[k + 1] = seqs[k + 1] /\ f[k] = 0 /\ f[k + 1] = Len(seqs[k + 1])
        BY <2>4, <3>1, <3>3
      <4>2. Len(seqs[k + 1]) \in Nat
        BY <3>2 DEF IsSequence
      <4>3. Stands(seqs[k + 1], 0, seqs[k + 1])
        BY <3>2, <4>2 DEF Stands
      <4>4. \A j \in 1 .. (k + 1) : j = k + 1 /\ j - 1 = k
        BY <3>3
      <4>5. \A j \in 1 .. (k + 1) : Stands(D[k + 1], f[j - 1], seqs[j])
        BY <4>1, <4>3, <4>4
      <4>6. k + 1 \in T
        BY <3>1, <3>2, <4>1, <4>5
      <4> QED
        BY <4>1, <4>2, <4>6
    <3>4. CASE k # 0
      <4>1. IsSequence(D[k]) /\ \A j \in 1 .. k : Stands(D[k], f[j - 1], seqs[j])
        BY <2>5, <3>4
      <4>2. D[k + 1] = D[k] \o seqs[k + 1]
        <5>1. k + 1 # 1
          BY <1>1, <3>4
        <5>2. D[k + 1] = D[(k + 1) - 1] \o seqs[k + 1]
          BY <2>4, <3>1, <5>1, Zenon
        <5> QED
          BY <3>1, <5>2, Zenon
      <4>3. /\ Begins(D[k], D[k + 1]) /\ Stands(D[k + 1], Len(D[k]), seqs[k + 1])
            /\ Len(D[k + 1]) = Len(D[k]) + Len(seqs[k + 1])
        <5> DEFINE x == D[k]
                   y == seqs[k + 1]
        <5>1. IsSequence(x) /\ IsSequence(y)
          BY <3>2, <4>1
        <5> HIDE DEF x, y
        <5>2. /\ Begins(x, x \o y) /\ Stands(x \o y, Len(x), y)
              /\ Len(x \o y) = Len(x) + Len(y)
          BY <5>1, ConcatPieces
        <5> QED
          BY <4>2, <5>2 DEF x, y
      <4>4. f[k] = Len(D[k]) /\ f[k + 1] = Len(D[k + 1])
        BY <3>1, <3>4
      <4>5. \A j \in 1 .. (k + 1) : j \in 1 .. k \/ (j = k + 1 /\ j - 1 = k)
        BY <3>1
      <4> HIDE DEF f
      <4>6. \A j \in 1 .. k : Stands(D[k + 1], f[j - 1], seqs[j])
        BY <4>1, <4>3, BeginsStands
      <4>7. \A j \in 1 .. (k + 1) : Stands(D[k + 1], f[j - 1], seqs[j])
        BY <4>3, <4>4, <4>5, <4>6
      <4>8. IsSequence(D[k + 1])
        BY <4>3 DEF Begins
      <4>9. k + 1 \in T
        BY <3>1, <4>7, <4>8
      <4> QED
        BY <4>3, <4>4, <4>9
    <3> QED
      BY <3>3, <3>4
  <2>6. \A k \in 0 .. n : k \in T
    <3>1. 0 \in T
      BY <1>1
    <3> HIDE DEF T
    <3> QED
      BY <1>1, <2>5, <3>1, SetInduction
  <2>7. DOMAIN f = 0 .. n /\ f[0] = 0 /\ f[n] = Len(D[n])
    BY <1>1, <1>2
  <2>8. \A k \in 0 .. n : f[k] \in Nat
    BY <2>6 DEF IsSequence
  <2>9. IsSequence(D[n]) /\ \A j \in 1 .. n : Stands(D[n], f[j - 1], seqs[j])
    BY <1>1, <1>2, <2>6
  <2> HIDE DEF f, T
  <2>10. ASSUME NEW k \in 1 .. n
         PROVE  f[k] = f[k - 1] + Len(seqs[k])
    <3>1. k - 1 \in 0 .. (n - 1) /\ k - 1 \in 0 .. n /\ (k - 1) + 1 = k
      BY <1>1
    <3> QED
      BY <2>5, <2>6, <3>1
  <2>11. Offsets(f, seqs)
    BY <2>7, <2>8, <2>10 DEF Offsets, n
  <2> QED
    BY <2>1, <2>7, <2>9, <2>11 DEF n
<1>3. CASE n = 0
  <2> DEFINE f == [k \in 0 .. 0 |-> 0]
  <2>1. FlattenSeq(seqs) = seqs
    BY <1>3 DEF FlattenSeq
  <2>2. \A k \in 1 .. n : FALSE
    BY <1>3
  <2>3. Offsets(f, seqs)
    BY <1>3, <2>2 DEF Offsets
  <2>4. f[Len(seqs)] = Len(seqs)
    BY <1>3
  <2> HIDE DEF f
  <2> QED
    BY <2>1, <2>2, <2>3, <2>4
<1> QED
  BY <1>1, <1>2, <1>3
-----------------------------------------------------------------------------
(***************************************************************************)
(* Where the lines of an emitted text are.  pr is the processor.           *)
(***************************************************************************)
UnitLines(pr) == [k \in DOMAIN pr.units |-> UnitLine(pr.units[k].name, pr.units[k].kind)]
AliasLines(pr) ==
  [k \in DOMAIN pr.slot_aliases |-> AliasLine(pr.slot_aliases[k].name, pr.slot_aliases[k].slot)]
SlotUnitsLines(pr) == [k \in DOMAIN pr.slot_units |-> UnitsLine(k - 1, pr.slot_units[k])]
FirstLines(pr) ==
  <<Line(".processor {"), CountLine("width", pr.width), Blank, Line("hardware {")>>
MiddleLines == <<Line("}"), Blank, Line("layout slots {")>>
MemoryLines(pr) ==
  IF pr.memory_size = DEFAULT_MEMORY_SIZE THEN <<>>
  ELSE <<Blank, CountLine("memory", pr.memory_size)>>
CacheLines(pr) == <<Line("cache {"), CountLine("topology", pr.cpus), Line("}")>>

ItemLines(it, pr) ==
  IF "name" \in DOMAIN it THEN <<[key |-> "label", name |-> it.name]>> ELSE BundleText(it, pr)

AllItemLines(p) == [k \in DOMAIN p.items |-> ItemLines(p.items[k], p.processor)]

\* The number of lines in front of each part.
ToMiddle(pr) == 4 + Len(pr.units)
ToAliases(pr) == ToMiddle(pr) + 3
ToBlank(pr) == ToAliases(pr) + Len(pr.slot_aliases)
ToSlotUnits(pr) == ToBlank(pr) + 1
ToLayoutEnd(pr) == ToSlotUnits(pr) + Len(pr.slot_units)
ToMemory(pr) == ToLayoutEnd(pr) + 2
ToCache(pr) == ToMemory(pr) + Len(MemoryLines(pr))
ToHeaderEnd(pr) == ToCache(pr) + 3
ToItems(pr) == ToHeaderEnd(pr) + 1

\* A text t starts with the header of pr and a blank line.
HeaderStands(t, pr) ==
  /\ Stands(t, 0, FirstLines(pr))
  /\ Stands(t, 4, UnitLines(pr))
  /\ Stands(t, ToMiddle(pr), MiddleLines)
  /\ Stands(t, ToAliases(pr), AliasLines(pr))
  /\ Stands(t, ToBlank(pr), <<Blank>>)
  /\ Stands(t, ToSlotUnits(pr), SlotUnitsLines(pr))
  /\ Stands(t, ToLayoutEnd(pr), <<Line("}"), Blank>>)
  /\ Stands(t, ToMemory(pr), MemoryLines(pr))
  /\ Stands(t, ToCache(pr), CacheLines(pr))
  /\ Stands(t, ToHeaderEnd(pr), <<Blank>>)

Part(a, n) == IsSequence(a) /\ Len(a) = n

\* One more part behind a text of known length.
LEMMA NextPart ==
  ASSUME NEW a, NEW n, Part(a, n), NEW b, NEW m, Part(b, m)
  PROVE  Part(a \o b, n + m) /\ Begins(a, a \o b) /\ Stands(a \o b, n, b)
<1>1. IsSequence(a) /\ IsSequence(b) /\ Len(a) = n /\ Len(b) = m
  BY DEF Part
<1>2. Begins(a, a \o b) /\ Len(a \o b) = Len(a) + Len(b) /\ Stands(a \o b, Len(a), b)
  BY <1>1, ConcatPieces
<1>3. IsSequence(a \o b)
  BY <1>2 DEF Begins
<1> QED
  BY <1>1, <1>2, <1>3 DEF Part

\* The parts are sequences, of these lengths.
LEMMA PartLengths ==
  ASSUME NEW pr, WritableProcessor(pr)
  PROVE  /\ IsSequence(FirstLines(pr)) /\ Len(FirstLines(pr)) = 4
         /\ IsSequence(UnitLines(pr)) /\ Len(UnitLines(pr)) = Len(pr.units)
         /\ IsSequence(MiddleLines) /\ Len(MiddleLines) = 3
         /\ IsSequence(AliasLines(pr)) /\ Len(AliasLines(pr)) = Len(pr.slot_aliases)
         /\ IsSequence(<<Blank>>) /\ Len(<<Blank>>) = 1
         /\ IsSequence(SlotUnitsLines(pr)) /\ Len(SlotUnitsLines(pr)) = Len(pr.slot_units)
         /\ IsSequence(<<Line("}"), Blank>>) /\ Len(<<Line("}"), Blank>>) = 2
         /\ IsSequence(MemoryLines(pr)) /\ Len(MemoryLines(pr)) \in {0, 2}
         /\ IsSequence(CacheLines(pr)) /\ Len(CacheLines(pr)) = 3
<1>1. IsSequence(FirstLines(pr)) /\ Len(FirstLines(pr)) = 4
  <2> DEFINE w == CountLine("width", pr.width)
             q == <<Line(".processor {"), w, Blank, Line("hardware {")>>
  <2>1. q \in Seq({Line(".processor {"), w, Blank, Line("hardware {")}) /\ Len(q) = 4
    OBVIOUS
  <2> QED
    BY <2>1, SeqIsSequence DEF FirstLines
<1>2. IsSequence(UnitLines(pr)) /\ Len(UnitLines(pr)) = Len(pr.units)
  <2> DEFINE q == UnitLines(pr)
             n == Len(pr.units)
  <2>1. n \in Nat /\ DOMAIN q = 1 .. n /\ q = [k \in 1 .. n |-> q[k]]
    BY DEF WritableProcessor, TypedProcessor, IsSequence, UnitLines
  <2> HIDE DEF q, n
  <2> QED
    BY <2>1, FunctionIsSequence DEF q, n
<1>3. IsSequence(MiddleLines) /\ Len(MiddleLines) = 3
  <2>1. MiddleLines \in Seq({Line("}"), Blank, Line("layout slots {")}) /\ Len(MiddleLines) = 3
    BY DEF MiddleLines
  <2> QED
    BY <2>1, SeqIsSequence
<1>4. IsSequence(AliasLines(pr)) /\ Len(AliasLines(pr)) = Len(pr.slot_aliases)
  <2> DEFINE q == AliasLines(pr)
             n == Len(pr.slot_aliases)
  <2>1. n \in Nat /\ DOMAIN q = 1 .. n /\ q = [k \in 1 .. n |-> q[k]]
    BY DEF WritableProcessor, TypedProcessor, TypedAliases, IsSequence, AliasLines
  <2> HIDE DEF q, n
  <2> QED
    BY <2>1, FunctionIsSequence DEF q, n
<1>5. IsSequence(<<Blank>>) /\ Len(<<Blank>>) = 1
  <2>1. <<Blank>> \in Seq({Blank}) /\ Len(<<Blank>>) = 1
    OBVIOUS
  <2> QED
    BY <2>1, SeqIsSequence
<1>6. IsSequence(SlotUnitsLines(pr)) /\ Len(SlotUnitsLines(pr)) = Len(pr.slot_units)
  <2> DEFINE q == SlotUnitsLines(pr)
             n == Len(pr.slot_units)
  <2>1. n \in Nat /\ DOMAIN q = 1 .. n /\ q = [k \in 1 .. n |-> q[k]]
    BY DEF WritableProcessor, TypedProcessor, IsSequence, SlotUnitsLines
  <2> HIDE DEF q, n
  <2> QED
    BY <2>1, FunctionIsSequence DEF q, n
<1>7. IsSequence(<<Line("}"), Blank>>) /\ Len(<<Line("}"), Blank>>) = 2
  <2>1. <<Line("}"), Blank>> \in Seq({Line("}"), Blank}) /\ Len(<<Line("}"), Blank>>) = 2
    OBVIOUS
  <2> QED
    BY <2>1, SeqIsSequence
<1>8. IsSequence(MemoryLines(pr)) /\ Len(MemoryLines(pr)) \in {0, 2}
  <2> DEFINE m == CountLine("memory", pr.memory_size)
  <2>1. <<>> \in Seq({Blank}) /\ Len(<<>>) = 0
    OBVIOUS
  <2>2. <<Blank, m>> \in Seq({Blank, m}) /\ Len(<<Blank, m>>) = 2
    OBVIOUS
  <2>3. IsSequence(<<>>) /\ IsSequence(<<Blank, m>>)
    BY <2>1, <2>2, SeqIsSequence
  <2>4. MemoryLines(pr) = <<>> \/ MemoryLines(pr) = <<Blank, m>>
    BY DEF MemoryLines
  <2> HIDE DEF m
  <2> QED
    BY <2>1, <2>2, <2>3, <2>4
<1>9. IsSequence(CacheLines(pr)) /\ Len(CacheLines(pr)) = 3
  <2> DEFINE c == CountLine("topology", pr.cpus)
             q == <<Line("cache {"), c, Line("}")>>
  <2>1. q \in Seq({Line("cache {"), c, Line("}")}) /\ Len(q) = 3
    OBVIOUS
  <2> QED
    BY <2>1, SeqIsSequence DEF CacheLines
<1> QED
  BY <1>1, <1>2, <1>3, <1>4, <1>5, <1>6, <1>7, <1>8, <1>9

\* emit: the header, a blank line, and the items behind it.
LEMMA TextLayout ==
  ASSUME NEW p, WritableProcessor(p.processor), IsSequence(FlattenSeq(AllItemLines(p)))
  PROVE  LET t == EmitText(p)
             flat == FlattenSeq(AllItemLines(p))
         IN  /\ IsSequence(t)
             /\ HeaderStands(t, p.processor)
             /\ Stands(t, ToItems(p.processor), flat)
             /\ Len(t) = ToItems(p.processor) + Len(flat)
<1> DEFINE pr == p.processor
           flat == FlattenSeq(AllItemLines(p))
           b1 == FirstLines(pr)
           b2 == UnitLines(pr)
           b3 == MiddleLines
           b4 == AliasLines(pr)
           b5 == <<Blank>>
           b6 == SlotUnitsLines(pr)
           b7 == <<Line("}"), Blank>>
           b8 == MemoryLines(pr)
           b9 == CacheLines(pr)
           c2 == b1 \o b2
           c3 == c2 \o b3
           c4 == c3 \o b4
           c5 == c4 \o b5
           c6 == c5 \o b6
           c7 == c6 \o b7
           c8 == c7 \o b8
           c9 == c8 \o b9
           c10 == c9 \o b5
           t == c10 \o flat
<1>1. EmitText(p) = t
  <2>1. HeaderText(pr) = c9
    BY Zenon DEF HeaderText, FirstLines, UnitLines, MiddleLines, AliasLines, SlotUnitsLines,
                 MemoryLines, CacheLines
  <2>2. EmitText(p) = HeaderText(pr) \o <<Blank>> \o flat
    BY Zenon DEF EmitText, AllItemLines, ItemLines
  <2> QED
    BY <2>1, <2>2, Zenon
<1>2. /\ Part(b1, 4)
      /\ Part(b2, Len(pr.units))
      /\ Part(b3, 3)
      /\ Part(b4, Len(pr.slot_aliases))
      /\ Part(b5, 1)
      /\ Part(b6, Len(pr.slot_units))
      /\ Part(b7, 2)
      /\ Part(b8, Len(b8))
      /\ Part(b9, 3)
  BY PartLengths, Zenon DEF Part
<1>3. Part(flat, Len(flat))
  BY DEF Part
<1> HIDE DEF b1, b2, b3, b4, b5, b6, b7, b8, b9, flat
<1>4. Part(c2, ToMiddle(pr)) /\ Begins(b1, c2) /\ Stands(c2, 4, b2)
  BY <1>2, NextPart, Zenon DEF ToMiddle
<1> HIDE DEF c2
<1>5. Part(c3, ToAliases(pr)) /\ Begins(c2, c3) /\ Stands(c3, ToMiddle(pr), b3)
  BY <1>2, <1>4, NextPart, Zenon DEF ToAliases
<1> HIDE DEF c3
<1>6. Part(c4, ToBlank(pr)) /\ Begins(c3, c4) /\ Stands(c4, ToAliases(pr), b4)
  BY <1>2, <1>5, NextPart, Zenon DEF ToBlank
<1> HIDE DEF c4
<1>7. Part(c5, ToSlotUnits(pr)) /\ Begins(c4, c5) /\ Stands(c5, ToBlank(pr), b5)
  BY <1>2, <1>6, NextPart, Zenon DEF ToSlotUnits
<1> HIDE DEF c5
<1>8. Part(c6, ToLayoutEnd(pr)) /\ Begins(c5, c6) /\ Stands(c6, ToSlotUnits(pr), b6)
  BY <1>2, <1>7, NextPart, Zenon DEF ToLayoutEnd
<1> HIDE DEF c6
<1>9. Part(c7, ToMemory(pr)) /\ Begins(c6, c7) /\ Stands(c7, ToLayoutEnd(pr), b7)
  BY <1>2, <1>8, NextPart, Zenon DEF ToMemory
<1> HIDE DEF c7
<1>10. Part(c8, ToCache(pr)) /\ Begins(c7, c8) /\ Stands(c8, ToMemory(pr), b8)
  BY <1>2, <1>9, NextPart, Zenon DEF ToCache, b8
<1> HIDE DEF c8
<1>11. Part(c9, ToHeaderEnd(pr)) /\ Begins(c8, c9) /\ Stands(c9, ToCache(pr), b9)
  BY <1>2, <1>10, NextPart, Zenon DEF ToHeaderEnd
<1> HIDE DEF c9
<1>12. Part(c10, ToItems(pr)) /\ Begins(c9, c10) /\ Stands(c10, ToHeaderEnd(pr), b5)
  BY <1>2, <1>11, NextPart, Zenon DEF ToItems
<1> HIDE DEF c10
<1>13. Part(t, ToItems(pr) + Len(flat)) /\ Begins(c10, t) /\ Stands(t, ToItems(pr), flat)
  BY <1>3, <1>12, NextPart, Zenon
<1> HIDE DEF t
<1>14. Begins(c9, t) /\ Begins(c8, t)
  BY <1>11, <1>12, <1>13, BeginsTrans
<1>15. Begins(c7, t) /\ Begins(c6, t)
  BY <1>9, <1>10, <1>14, BeginsTrans
<1>16. Begins(c5, t) /\ Begins(c4, t)
  BY <1>7, <1>8, <1>15, BeginsTrans
<1>17. Begins(c3, t) /\ Begins(c2, t)
  BY <1>5, <1>6, <1>16, BeginsTrans
<1>18. Begins(b1, t)
  BY <1>4, <1>17, BeginsTrans
<1>19. Stands(b1, 0, b1)
  BY <1>2 DEF Stands, Part
<1>20. HeaderStands(t, pr)
  <2>1. Stands(t, 0, b1) /\ Stands(t, 4, b2) /\ Stands(t, ToMiddle(pr), b3)
    BY <1>4, <1>5, <1>17, <1>18, <1>19, BeginsStands
  <2>2. Stands(t, ToAliases(pr), b4) /\ Stands(t, ToBlank(pr), b5) /\ Stands(t, ToSlotUnits(pr), b6)
    BY <1>6, <1>7, <1>8, <1>15, <1>16, BeginsStands
  <2>3. Stands(t, ToLayoutEnd(pr), b7) /\ Stands(t, ToMemory(pr), b8)
    BY <1>9, <1>10, <1>14, <1>15, BeginsStands
  <2>4. Stands(t, ToCache(pr), b9) /\ Stands(t, ToHeaderEnd(pr), b5)
    BY <1>11, <1>12, <1>13, <1>14, BeginsStands
  <2> QED
    BY <2>1, <2>2, <2>3, <2>4, Zenon DEF HeaderStands, b1, b2, b3, b4, b5, b6, b7, b8, b9
<1> QED
  BY <1>1, <1>13, <1>20, Zenon DEF flat, Part
-----------------------------------------------------------------------------
(***************************************************************************)
(* The action that reads a line is determined by the parser function that  *)
(* runs and the line.                                                      *)
(***************************************************************************)
LineIs(s, key) == pos < Len(text) /\ state = s /\ Current.key = key

\* What each action says of the state and the line.
LEMMA ActionLines ==
  /\ SkipBlank => /\ state \in {"program", "processor", "hardware", "layout", "items"}
                  /\ Current.key = ""
  /\ OpenProcessor => state = "program" /\ Current.key = ".processor {"
  /\ ReadCount => state = "processor" /\ Current.key \in {"width", "topology", "memory"}
  /\ ReadCache => state = "processor" /\ Current.key = "cache {"
  /\ OpenHardware => state = "processor" /\ Current.key = "hardware {"
  /\ ReadUnit => state = "hardware" /\ Current.key = "unit"
  /\ CloseHardware => state = "hardware" /\ Current.key = "}"
  /\ OpenLayout => state = "processor" /\ Current.key = "layout slots {"
  /\ ReadAlias => state = "layout" /\ Current.key = "alias"
  /\ ReadSlotUnits => state = "layout" /\ Current.key = "slot units"
  /\ CloseLayout => state = "layout" /\ Current.key = "}"
  /\ CloseProcessor => state = "processor" /\ Current.key = "}"
  /\ ReadLabel => state = "items" /\ Current.key = "label"
  /\ OpenBundle => state = "items" /\ Current.key = "{"
  /\ ReadSlot => state = "bundle" /\ Current.key = "slot"
  /\ CloseBundle => state = "bundle" /\ Current.key = "}"
  /\ EndOfText => state = "items" /\ pos = Len(text)
  BY DEF SkipBlank, OpenProcessor, ReadCount, ReadCache, OpenHardware, ReadUnit, CloseHardware,
         OpenLayout, ReadAlias, ReadSlotUnits, CloseLayout, CloseProcessor, ReadLabel, OpenBundle,
         ReadSlot, CloseBundle, EndOfText, At, Current

\* A line that is expected and whose values parse is not rejected.
LEMMA NotRejected ==
  ASSUME pos \in Nat, Len(text) \in Nat, pos < Len(text), Current.key \in Expected, ~BadValue
  PROVE  ~Reject /\ ~EndOfText
<1>1. pos # Len(text)
  OBVIOUS
<1> QED
  BY <1>1 DEF Reject, EndOfText

\* The lines whose values cannot be wrong.
LEMMA NoBadValue ==
  (Current.key \notin {"width", "topology", "memory", "alias", "slot units", "slot"}) => ~BadValue
  BY DEF BadValue

\* The lines of each parser function, and the action that reads each.
LEMMA WhichAction ==
  ASSUME pos \in Nat, Len(text) \in Nat, ReadLine
  PROVE  /\ \A s \in {"program", "processor", "hardware", "layout", "items"} :
              LineIs(s, "") => SkipBlank
         /\ LineIs("program", ".processor {") => OpenProcessor
         /\ LineIs("processor", "cache {") => ReadCache
         /\ LineIs("processor", "hardware {") => OpenHardware
         /\ LineIs("processor", "layout slots {") => OpenLayout
         /\ LineIs("processor", "}") => CloseProcessor
         /\ \A key \in {"width", "topology", "memory"} :
              LineIs("processor", key) /\ ~BadValue => ReadCount
         /\ LineIs("hardware", "unit") => ReadUnit
         /\ LineIs("hardware", "}") => CloseHardware
         /\ LineIs("layout", "alias") /\ ~BadValue => ReadAlias
         /\ LineIs("layout", "slot units") /\ ~BadValue => ReadSlotUnits
         /\ LineIs("layout", "}") => CloseLayout
         /\ LineIs("items", "label") => ReadLabel
         /\ LineIs("items", "{") => OpenBundle
         /\ LineIs("bundle", "slot") /\ ~BadValue => ReadSlot
         /\ LineIs("bundle", "}") => CloseBundle
<1>1. \/ SkipBlank \/ OpenProcessor \/ ReadCount \/ ReadCache
      \/ OpenHardware \/ ReadUnit \/ CloseHardware
      \/ OpenLayout \/ ReadAlias \/ ReadSlotUnits \/ CloseLayout \/ CloseProcessor
      \/ ReadLabel \/ OpenBundle \/ ReadSlot \/ CloseBundle
      \/ EndOfText \/ Reject
  BY DEF ReadLine
<1>2. \A s \in {"program", "processor", "hardware", "layout", "items"} : LineIs(s, "") => SkipBlank
  <2> SUFFICES ASSUME NEW s \in {"program", "processor", "hardware", "layout", "items"}, LineIs(s, "")
               PROVE  SkipBlank
    OBVIOUS
  <2>1. "" \in Expected /\ Current.key = "" /\ pos < Len(text)
    BY DEF LineIs, Expected
  <2>2. ~Reject /\ ~EndOfText
    BY <2>1, NotRejected, NoBadValue
  <2> QED
    BY <1>1, <2>1, <2>2, ActionLines
<1>3. LineIs("program", ".processor {") => OpenProcessor
  <2> SUFFICES ASSUME LineIs("program", ".processor {")
               PROVE  OpenProcessor
    OBVIOUS
  <2>1. Current.key \in Expected /\ Current.key = ".processor {" /\ pos < Len(text) /\ state = "program"
    BY DEF LineIs, Expected
  <2>2. ~Reject /\ ~EndOfText
    BY <2>1, NotRejected, NoBadValue
  <2> QED
    BY <1>1, <2>1, <2>2, ActionLines
<1>4. /\ LineIs("processor", "cache {") => ReadCache
      /\ LineIs("processor", "hardware {") => OpenHardware
      /\ LineIs("processor", "layout slots {") => OpenLayout
      /\ LineIs("processor", "}") => CloseProcessor
  <2> SUFFICES ASSUME NEW key \in {"cache {", "hardware {", "layout slots {", "}"}, LineIs("processor", key)
               PROVE  /\ key = "cache {" => ReadCache
                      /\ key = "hardware {" => OpenHardware
                      /\ key = "layout slots {" => OpenLayout
                      /\ key = "}" => CloseProcessor
    OBVIOUS
  <2>1. Current.key \in Expected /\ Current.key = key /\ pos < Len(text) /\ state = "processor"
    BY DEF LineIs, Expected
  <2>2. ~Reject /\ ~EndOfText
    BY <2>1, NotRejected, NoBadValue
  <2> QED
    BY <1>1, <2>1, <2>2, ActionLines
<1>5. \A key \in {"width", "topology", "memory"} :
              LineIs("processor", key) /\ ~BadValue => ReadCount
  <2> SUFFICES ASSUME NEW key \in {"width", "topology", "memory"}, LineIs("processor", key), ~BadValue
               PROVE  ReadCount
    OBVIOUS
  <2>1. Current.key \in Expected /\ Current.key = key /\ pos < Len(text) /\ state = "processor"
    BY DEF LineIs, Expected
  <2>2. ~Reject /\ ~EndOfText
    BY <2>1, NotRejected
  <2> QED
    BY <1>1, <2>1, <2>2, ActionLines
<1>6. /\ LineIs("hardware", "unit") => ReadUnit
      /\ LineIs("hardware", "}") => CloseHardware
  <2> SUFFICES ASSUME NEW key \in {"unit", "}"}, LineIs("hardware", key)
               PROVE  (key = "unit" => ReadUnit) /\ (key = "}" => CloseHardware)
    OBVIOUS
  <2>1. Current.key \in Expected /\ Current.key = key /\ pos < Len(text) /\ state = "hardware"
    BY DEF LineIs, Expected
  <2>2. ~Reject /\ ~EndOfText
    BY <2>1, NotRejected, NoBadValue
  <2> QED
    BY <1>1, <2>1, <2>2, ActionLines
<1>7. /\ LineIs("layout", "alias") /\ ~BadValue => ReadAlias
      /\ LineIs("layout", "slot units") /\ ~BadValue => ReadSlotUnits
      /\ LineIs("layout", "}") => CloseLayout
  <2> SUFFICES ASSUME NEW key \in {"alias", "slot units", "}"}, LineIs("layout", key), key = "}" \/ ~BadValue
               PROVE  /\ key = "alias" => ReadAlias
                      /\ key = "slot units" => ReadSlotUnits
                      /\ key = "}" => CloseLayout
    OBVIOUS
  <2>1. Current.key \in Expected /\ Current.key = key /\ pos < Len(text) /\ state = "layout"
    BY DEF LineIs, Expected
  <2>2. ~Reject /\ ~EndOfText
    BY <2>1, NotRejected, NoBadValue
  <2> QED
    BY <1>1, <2>1, <2>2, ActionLines
<1>8. /\ LineIs("items", "label") => ReadLabel
      /\ LineIs("items", "{") => OpenBundle
  <2> SUFFICES ASSUME NEW key \in {"label", "{"}, LineIs("items", key)
               PROVE  (key = "label" => ReadLabel) /\ (key = "{" => OpenBundle)
    OBVIOUS
  <2>1. Current.key \in Expected /\ Current.key = key /\ pos < Len(text) /\ state = "items"
    BY DEF LineIs, Expected
  <2>2. ~Reject /\ ~EndOfText
    BY <2>1, NotRejected, NoBadValue
  <2> QED
    BY <1>1, <2>1, <2>2, ActionLines
<1>9. /\ LineIs("bundle", "slot") /\ ~BadValue => ReadSlot
      /\ LineIs("bundle", "}") => CloseBundle
  <2> SUFFICES ASSUME NEW key \in {"slot", "}"}, LineIs("bundle", key), key = "}" \/ ~BadValue
               PROVE  (key = "slot" => ReadSlot) /\ (key = "}" => CloseBundle)
    OBVIOUS
  <2>1. Current.key \in Expected /\ Current.key = key /\ pos < Len(text) /\ state = "bundle"
    BY DEF LineIs, Expected
  <2>2. ~Reject /\ ~EndOfText
    BY <2>1, NotRejected, NoBadValue
  <2> QED
    BY <1>1, <2>1, <2>2, ActionLines
<1> QED
  BY <1>2, <1>3, <1>4, <1>5, <1>6, <1>7, <1>8, <1>9
-----------------------------------------------------------------------------
(***************************************************************************)
(* Where the lines of the items are.                                       *)
(***************************************************************************)

\* The line the parser is at.
LEMMA LineAt ==
  ASSUME NEW off, NEW part, Stands(text, off, part), NEW k \in 1 .. Len(part), pos + 1 = off + k,
         pos \in Nat, Len(text) \in Nat
  PROVE  pos < Len(text) /\ Current = part[k]
<1>1. off + k \in 1 .. Len(text) /\ text[off + k] = part[k]
  BY DEF Stands
<1>2. off \in Nat /\ k \in Nat /\ Len(part) \in Nat
  BY DEF Stands, IsSequence
<1> QED
  BY <1>1, <1>2 DEF Current

\* The lines of a bundle: a brace, a line for each slot, a brace.
BundleLines(t, off, b, pr) ==
  /\ Stands(t, off, <<Line("{")>>)
  /\ Stands(t, off + 1, [k \in 1 .. pr.width |-> SlotLine(SlotName(pr, k - 1), SlotOf(b, k))])
  /\ Stands(t, (off + 1) + pr.width, <<Line("}")>>)

LEMMA OneLine ==
  ASSUME NEW x
  PROVE  Part(<<x>>, 1)
<1>1. <<x>> \in Seq({x}) /\ Len(<<x>>) = 1
  OBVIOUS
<1> QED
  BY <1>1, SeqIsSequence DEF Part

\* A bundle is an opening line, one line per slot and a closing line.
LEMMA BundleTextLines ==
  ASSUME NEW b, NEW pr, pr.width \in Nat
  PROVE  Part(BundleText(b, pr), pr.width + 2) /\ BundleLines(BundleText(b, pr), 0, b, pr)
<1> DEFINE w == pr.width
           mid == [k \in 1 .. w |-> SlotLine(SlotName(pr, k - 1), SlotOf(b, k))]
           first == <<Line("{")>>
           last == <<Line("}")>>
           c == first \o mid
           t == c \o last
<1>1. Part(first, 1) /\ Part(last, 1)
  BY OneLine
<1>2. Part(mid, w)
  BY FunctionIsSequence DEF Part
<1>3. BundleText(b, pr) = t
  BY DEF BundleText
<1> HIDE DEF mid, first, last, w
<1>4. Part(c, 1 + w) /\ Begins(first, c) /\ Stands(c, 1, mid)
  BY <1>1, <1>2, NextPart
<1> HIDE DEF c
<1>5. Part(t, (1 + w) + 1) /\ Begins(c, t) /\ Stands(t, 1 + w, last)
  BY <1>1, <1>4, NextPart
<1> HIDE DEF t
<1>6. Stands(first, 0, first)
  BY <1>1 DEF Stands, Part
<1>7. Stands(t, 0, first) /\ Stands(t, 1, mid)
  BY <1>4, <1>5, <1>6, BeginsStands, BeginsTrans
<1>8. w \in Nat /\ (1 + w) + 1 = w + 2 /\ 1 + w = (0 + 1) + w /\ 0 + 1 = 1
  BY DEF w
<1>9. Part(t, w + 2) /\ Stands(t, 0 + 1, mid) /\ Stands(t, (0 + 1) + w, last)
  BY <1>5, <1>7, <1>8
<1> QED
  BY <1>3, <1>7, <1>9, Zenon DEF BundleLines, mid, first, last, w

LEMMA ItemLinesAre ==
  ASSUME NEW it, NEW pr, pr.width \in Nat
  PROVE  Part(ItemLines(it, pr), IF "name" \in DOMAIN it THEN 1 ELSE pr.width + 2)
  BY OneLine, BundleTextLines DEF ItemLines

\* Where the lines of program p are in its text; f says where those of the items are.
LayoutOf(p, f) ==
  /\ IsSequence(EmitText(p))
  /\ HeaderStands(EmitText(p), p.processor)
  /\ DOMAIN f = 0 .. Len(p.items) /\ f[0] = 0
  /\ \A k \in 0 .. Len(p.items) : f[k] \in Nat
  /\ \A k \in 1 .. Len(p.items) :
       /\ Stands(EmitText(p), ToItems(p.processor) + f[k - 1], ItemLines(p.items[k], p.processor))
       /\ f[k] = f[k - 1] + Len(ItemLines(p.items[k], p.processor))
  /\ Len(EmitText(p)) = ToItems(p.processor) + f[Len(p.items)]

\* The text emit writes has a layout: the places of its header and items.
LEMMA LayoutExists ==
  ASSUME NEW p, WritableProcessor(p.processor), IsSequence(p.items)
  PROVE  \E f : LayoutOf(p, f)
<1> DEFINE seqs == AllItemLines(p)
           n == Len(p.items)
           flat == FlattenSeq(seqs)
           t == EmitText(p)
           off == ToItems(p.processor)
<1>1. n \in Nat /\ DOMAIN p.items = 1 .. n
  BY DEF IsSequence
<1>2. IsSequence(seqs) /\ Len(seqs) = n
  <2>1. DOMAIN seqs = 1 .. n /\ seqs = [k \in 1 .. n |-> seqs[k]]
    BY <1>1 DEF AllItemLines
  <2> HIDE DEF seqs, n
  <2> QED
    BY <1>1, <2>1, FunctionIsSequence
<1>3. \A k \in 1 .. n : seqs[k] = ItemLines(p.items[k], p.processor)
  BY <1>1 DEF AllItemLines
<1>4. \A k \in DOMAIN seqs : IsSequence(seqs[k])
  <2>1. \A it : IsSequence(ItemLines(it, p.processor))
    <3>1. p.processor.width \in Nat
      BY DEF WritableProcessor, TypedProcessor
    <3> QED
      BY <3>1, ItemLinesAre DEF Part
  <2>2. DOMAIN seqs = 1 .. n
    BY <1>1 DEF AllItemLines
  <2> HIDE DEF seqs, n
  <2> QED
    BY <1>3, <2>1, <2>2
<1> HIDE DEF seqs
<1>5. IsSequence(flat)
  BY <1>2, <1>4, Flattened
<1>6. PICK f : /\ Offsets(f, seqs)
               /\ Len(flat) = f[Len(seqs)]
               /\ \A k \in 1 .. Len(seqs) : Stands(flat, f[k - 1], seqs[k])
  BY <1>2, <1>4, Flattened
<1>7. /\ IsSequence(t) /\ HeaderStands(t, p.processor)
      /\ Stands(t, off, flat)
      /\ Len(t) = off + Len(flat)
  BY <1>5, TextLayout DEF seqs
<1>8. /\ DOMAIN f = 0 .. n /\ f[0] = 0
      /\ \A k \in 0 .. n : f[k] \in Nat
      /\ \A k \in 1 .. n : f[k] = f[k - 1] + Len(seqs[k])
  BY <1>2, <1>6 DEF Offsets
<1>9. \A k \in 1 .. n : Stands(flat, f[k - 1], seqs[k])
  BY <1>2, <1>6
<1>10. \A k \in 1 .. n : Stands(t, off + f[k - 1], seqs[k])
  <2> HIDE DEF t, off, flat, n
  <2> QED
    BY <1>7, <1>9, StandsInside
<1>11. Len(t) = off + f[n]
  BY <1>2, <1>6, <1>7
<1>12. LayoutOf(p, f)
  <2> HIDE DEF flat
  <2>1. \A k \in 1 .. n : /\ Stands(t, off + f[k - 1], ItemLines(p.items[k], p.processor))
                          /\ f[k] = f[k - 1] + Len(ItemLines(p.items[k], p.processor))
    BY <1>3, <1>8, <1>10, Zenon
  <2> QED
    BY <1>7, <1>8, <1>11, <2>1, Zenon DEF LayoutOf
<1> QED
  BY <1>12
-----------------------------------------------------------------------------
(***************************************************************************)
(* The lines of the header, by their number.                               *)
(***************************************************************************)

\* When the parser has consumed n lines it is at this line.
Shows(n, line) == pos = n => pos < Len(text) /\ Current = line

\* A text that is a program's, being parsed.
Parsing(p, f) ==
  /\ LayoutOf(p, f) /\ WritableProcessor(p.processor)
  /\ text = EmitText(p) /\ pos \in Nat

LEMMA ParsingFacts ==
  ASSUME NEW p, NEW f, Parsing(p, f)
  PROVE  /\ pos \in Nat /\ Len(text) \in Nat /\ HeaderStands(text, p.processor)
         /\ WritableProcessor(p.processor)
         /\ Len(p.processor.units) \in Nat /\ Len(p.processor.slot_aliases) \in Nat
         /\ Len(p.processor.slot_units) \in Nat
         /\ Len(MemoryLines(p.processor)) \in {0, 2}
<1>1. /\ Len(p.processor.units) \in Nat /\ Len(p.processor.slot_aliases) \in Nat
      /\ Len(p.processor.slot_units) \in Nat
  BY DEF Parsing, WritableProcessor, TypedProcessor, TypedAliases, IsSequence
<1>2. Len(MemoryLines(p.processor)) \in {0, 2}
  BY PartLengths DEF Parsing
<1> QED
  BY <1>1, <1>2 DEF Parsing, LayoutOf, IsSequence

\* The number of lines in front of each part of the header.
LEMMA Places ==
  ASSUME NEW p, NEW f, Parsing(p, f)
  PROVE  LET pr == p.processor
         IN  /\ ToMiddle(pr) \in Nat
             /\ ToAliases(pr) \in Nat /\ ToAliases(pr) = ToMiddle(pr) + 3
             /\ ToBlank(pr) \in Nat
             /\ ToSlotUnits(pr) \in Nat /\ ToSlotUnits(pr) = ToBlank(pr) + 1
             /\ ToLayoutEnd(pr) \in Nat
             /\ ToMemory(pr) \in Nat /\ ToMemory(pr) = ToLayoutEnd(pr) + 2
             /\ ToCache(pr) \in Nat
             /\ ToCache(pr) = IF pr.memory_size = DEFAULT_MEMORY_SIZE THEN ToMemory(pr) ELSE ToMemory(pr) + 2
             /\ ToHeaderEnd(pr) \in Nat /\ ToHeaderEnd(pr) = ToCache(pr) + 3
             /\ ToItems(pr) \in Nat /\ ToItems(pr) = ToHeaderEnd(pr) + 1
<1> DEFINE pr == p.processor
           nu == Len(pr.units)
           na == Len(pr.slot_aliases)
           ns == Len(pr.slot_units)
           nm == Len(MemoryLines(pr))
           small == pr.memory_size = DEFAULT_MEMORY_SIZE
<1>1. nu \in Nat /\ na \in Nat /\ ns \in Nat /\ nm \in Nat
  BY ParsingFacts
<1>2. nm = IF small THEN 0 ELSE 2
  BY DEF MemoryLines
<1> HIDE DEF nu, na, ns, nm, small
<1>3. ToMiddle(pr) = 4 + nu /\ ToAliases(pr) = ToMiddle(pr) + 3 /\ ToBlank(pr) = ToAliases(pr) + na
  BY DEF ToMiddle, ToAliases, ToBlank, nu, na
<1>4. ToSlotUnits(pr) = ToBlank(pr) + 1 /\ ToLayoutEnd(pr) = ToSlotUnits(pr) + ns
  BY DEF ToSlotUnits, ToLayoutEnd, ns
<1>5. /\ ToMemory(pr) = ToLayoutEnd(pr) + 2 /\ ToCache(pr) = ToMemory(pr) + nm
      /\ ToHeaderEnd(pr) = ToCache(pr) + 3 /\ ToItems(pr) = ToHeaderEnd(pr) + 1
  BY DEF ToMemory, ToCache, ToHeaderEnd, ToItems, nm
<1>6. ToMiddle(pr) \in Nat /\ ToAliases(pr) \in Nat /\ ToBlank(pr) \in Nat
  BY <1>1, <1>3
<1>7. ToSlotUnits(pr) \in Nat /\ ToLayoutEnd(pr) \in Nat /\ ToMemory(pr) \in Nat
  BY <1>1, <1>4, <1>5, <1>6
<1>8. /\ ToCache(pr) \in Nat /\ ToHeaderEnd(pr) \in Nat /\ ToItems(pr) \in Nat
      /\ ToCache(pr) = IF small THEN ToMemory(pr) ELSE ToMemory(pr) + 2
  BY <1>1, <1>2, <1>5, <1>7
<1> QED
  BY <1>3, <1>4, <1>5, <1>6, <1>7, <1>8 DEF small

\* The line at place k of a part.
LEMMA PartShows ==
  ASSUME NEW off, NEW part, Stands(text, off, part), NEW k \in 1 .. Len(part),
         pos \in Nat, Len(text) \in Nat
  PROVE  Shows(off + (k - 1), part[k])
<1> SUFFICES ASSUME pos = off + (k - 1)
             PROVE  pos < Len(text) /\ Current = part[k]
  BY DEF Shows
<1>1. off \in Nat /\ k \in Int
  BY DEF Stands, IsSequence
<1>2. pos + 1 = off + k
  BY <1>1
<1> QED
  BY <1>2, LineAt

\* The line that stands at each place of the emitted header.
LEMMA HeaderShows ==
  ASSUME NEW p, NEW f, Parsing(p, f)
  PROVE  LET pr == p.processor
         IN  /\ Shows(0, Line(".processor {"))
             /\ Shows(1, CountLine("width", pr.width))
             /\ Shows(2, Blank)
             /\ Shows(3, Line("hardware {"))
             /\ \A k \in 1 .. Len(pr.units) :
                  Shows(4 + (k - 1), UnitLine(pr.units[k].name, pr.units[k].kind))
             /\ Shows(ToMiddle(pr), Line("}"))
             /\ Shows(ToMiddle(pr) + 1, Blank)
             /\ Shows(ToMiddle(pr) + 2, Line("layout slots {"))
             /\ \A k \in 1 .. Len(pr.slot_aliases) :
                  Shows(ToAliases(pr) + (k - 1), AliasLine(pr.slot_aliases[k].name, pr.slot_aliases[k].slot))
             /\ Shows(ToBlank(pr), Blank)
             /\ \A k \in 1 .. Len(pr.slot_units) :
                  Shows(ToSlotUnits(pr) + (k - 1), UnitsLine(k - 1, pr.slot_units[k]))
             /\ Shows(ToLayoutEnd(pr), Line("}"))
             /\ Shows(ToLayoutEnd(pr) + 1, Blank)
             /\ pr.memory_size # DEFAULT_MEMORY_SIZE =>
                  /\ Shows(ToMemory(pr), Blank)
                  /\ Shows(ToMemory(pr) + 1, CountLine("memory", pr.memory_size))
             /\ Shows(ToCache(pr), Line("cache {"))
             /\ Shows(ToCache(pr) + 1, CountLine("topology", pr.cpus))
             /\ Shows(ToCache(pr) + 2, Line("}"))
             /\ Shows(ToHeaderEnd(pr), Blank)
<1> DEFINE pr == p.processor
<1>1. /\ pos \in Nat /\ Len(text) \in Nat /\ HeaderStands(text, pr) /\ WritableProcessor(pr)
      /\ Len(pr.units) \in Nat /\ Len(pr.slot_aliases) \in Nat /\ Len(pr.slot_units) \in Nat
      /\ Len(MemoryLines(pr)) \in {0, 2}
  BY ParsingFacts
<1> HIDE DEF pr
<1>2. /\ ToMiddle(pr) \in Nat /\ ToAliases(pr) \in Nat /\ ToBlank(pr) \in Nat
      /\ ToSlotUnits(pr) \in Nat /\ ToLayoutEnd(pr) \in Nat /\ ToMemory(pr) \in Nat
      /\ ToCache(pr) \in Nat /\ ToHeaderEnd(pr) \in Nat
  BY Places DEF pr
<1>3. \A off, part : \A k \in 1 .. Len(part) :
        Stands(text, off, part) => Shows(off + (k - 1), part[k])
  BY <1>1, PartShows
<1>4. /\ Shows(0, Line(".processor {"))
      /\ Shows(1, CountLine("width", pr.width))
      /\ Shows(2, Blank)
      /\ Shows(3, Line("hardware {"))
  <2> DEFINE q == FirstLines(pr)
  <2>1. Stands(text, 0, q)
    BY <1>1 DEF HeaderStands
  <2>2. Len(q) = 4
    BY <1>1, PartLengths
  <2>3. q[1] = Line(".processor {") /\ q[2] = CountLine("width", pr.width) /\ q[3] = Blank
        /\ q[4] = Line("hardware {")
    BY DEF FirstLines
  <2> HIDE DEF q
  <2>4. Shows(0 + (1 - 1), q[1]) /\ Shows(0 + (2 - 1), q[2]) /\ Shows(0 + (3 - 1), q[3]) /\ Shows(0 + (4 - 1), q[4])
    <3>1. 1 \in 1 .. Len(q) /\ 2 \in 1 .. Len(q) /\ 3 \in 1 .. Len(q) /\ 4 \in 1 .. Len(q)
      BY <2>2
    <3> QED
      BY <1>3, <2>1, <3>1, Zenon
  <2>5. 0 + (1 - 1) = 0 /\ 0 + (2 - 1) = 1 /\ 0 + (3 - 1) = 2 /\ 0 + (4 - 1) = 3
    OBVIOUS
  <2> QED
    BY <2>3, <2>4, <2>5
<1>5. \A k \in 1 .. Len(pr.units) : Shows(4 + (k - 1), UnitLine(pr.units[k].name, pr.units[k].kind))
  <2> DEFINE q == UnitLines(pr)
  <2>1. Stands(text, 4, q) /\ Len(q) = Len(pr.units)
    BY <1>1, PartLengths DEF HeaderStands
  <2>2. \A k \in 1 .. Len(pr.units) : q[k] = UnitLine(pr.units[k].name, pr.units[k].kind)
    BY <1>1 DEF UnitLines, WritableProcessor, TypedProcessor, IsSequence
  <2> HIDE DEF q
  <2> QED
    BY <1>3, <2>1, <2>2, Zenon
<1>6. /\ Shows(ToMiddle(pr), Line("}"))
      /\ Shows(ToMiddle(pr) + 1, Blank)
      /\ Shows(ToMiddle(pr) + 2, Line("layout slots {"))
  <2> DEFINE q == MiddleLines
  <2>1. Stands(text, ToMiddle(pr), q) /\ Len(q) = 3
    BY <1>1, PartLengths DEF HeaderStands
  <2>2. q[1] = Line("}") /\ q[2] = Blank /\ q[3] = Line("layout slots {")
    BY DEF MiddleLines
  <2> HIDE DEF q
  <2>3. /\ Shows(ToMiddle(pr) + (1 - 1), q[1]) /\ Shows(ToMiddle(pr) + (2 - 1), q[2])
        /\ Shows(ToMiddle(pr) + (3 - 1), q[3])
    <3>1. 1 \in 1 .. Len(q) /\ 2 \in 1 .. Len(q) /\ 3 \in 1 .. Len(q)
      BY <2>1
    <3> QED
      BY <1>3, <2>1, <3>1, Zenon
  <2>4. ToMiddle(pr) + (1 - 1) = ToMiddle(pr) /\ 2 - 1 = 1 /\ 3 - 1 = 2
    BY <1>2
  <2> QED
    BY <2>2, <2>3, <2>4
<1>7. \A k \in 1 .. Len(pr.slot_aliases) :
        Shows(ToAliases(pr) + (k - 1), AliasLine(pr.slot_aliases[k].name, pr.slot_aliases[k].slot))
  <2> DEFINE q == AliasLines(pr)
  <2>1. Stands(text, ToAliases(pr), q) /\ Len(q) = Len(pr.slot_aliases)
    BY <1>1, PartLengths DEF HeaderStands
  <2>2. \A k \in 1 .. Len(pr.slot_aliases) :
          q[k] = AliasLine(pr.slot_aliases[k].name, pr.slot_aliases[k].slot)
    BY <1>1 DEF AliasLines, WritableProcessor, TypedProcessor, TypedAliases, IsSequence
  <2> HIDE DEF q
  <2> QED
    BY <1>3, <2>1, <2>2, Zenon
<1>8. Shows(ToBlank(pr), Blank) /\ Shows(ToHeaderEnd(pr), Blank)
  <2> DEFINE q == <<Blank>>
  <2>1. Stands(text, ToBlank(pr), q) /\ Stands(text, ToHeaderEnd(pr), q) /\ Len(q) = 1 /\ q[1] = Blank
    BY <1>1 DEF HeaderStands
  <2> HIDE DEF q
  <2>2. Shows(ToBlank(pr) + (1 - 1), q[1]) /\ Shows(ToHeaderEnd(pr) + (1 - 1), q[1])
    <3>1. 1 \in 1 .. Len(q)
      BY <2>1
    <3> QED
      BY <1>3, <2>1, <3>1, Zenon
  <2>3. ToBlank(pr) + (1 - 1) = ToBlank(pr) /\ ToHeaderEnd(pr) + (1 - 1) = ToHeaderEnd(pr)
    BY <1>2
  <2> QED
    BY <2>1, <2>2, <2>3
<1>9. \A k \in 1 .. Len(pr.slot_units) : Shows(ToSlotUnits(pr) + (k - 1), UnitsLine(k - 1, pr.slot_units[k]))
  <2> DEFINE q == SlotUnitsLines(pr)
  <2>1. Stands(text, ToSlotUnits(pr), q) /\ Len(q) = Len(pr.slot_units)
    BY <1>1, PartLengths DEF HeaderStands
  <2>2. \A k \in 1 .. Len(pr.slot_units) : q[k] = UnitsLine(k - 1, pr.slot_units[k])
    BY <1>1 DEF SlotUnitsLines, WritableProcessor, TypedProcessor, IsSequence
  <2> HIDE DEF q
  <2> QED
    BY <1>3, <2>1, <2>2, Zenon
<1>10. Shows(ToLayoutEnd(pr), Line("}")) /\ Shows(ToLayoutEnd(pr) + 1, Blank)
  <2> DEFINE q == <<Line("}"), Blank>>
  <2>1. Stands(text, ToLayoutEnd(pr), q) /\ q[1] = Line("}") /\ q[2] = Blank
    BY <1>1 DEF HeaderStands
  <2>5. Len(q) = 2
    BY <1>1, PartLengths
  <2> HIDE DEF q
  <2>2. Shows(ToLayoutEnd(pr) + (1 - 1), q[1]) /\ Shows(ToLayoutEnd(pr) + (2 - 1), q[2])
    <3>1. 1 \in 1 .. Len(q) /\ 2 \in 1 .. Len(q)
      BY <2>5
    <3> QED
      BY <1>3, <2>1, <3>1, Zenon
  <2>3. ToLayoutEnd(pr) + (1 - 1) = ToLayoutEnd(pr) /\ 2 - 1 = 1
    BY <1>2
  <2> QED
    BY <2>1, <2>2, <2>3
<1>11. pr.memory_size # DEFAULT_MEMORY_SIZE =>
         /\ Shows(ToMemory(pr), Blank)
         /\ Shows(ToMemory(pr) + 1, CountLine("memory", pr.memory_size))
  <2> SUFFICES ASSUME pr.memory_size # DEFAULT_MEMORY_SIZE
               PROVE  /\ Shows(ToMemory(pr), Blank)
                      /\ Shows(ToMemory(pr) + 1, CountLine("memory", pr.memory_size))
    OBVIOUS
  <2> DEFINE q == <<Blank, CountLine("memory", pr.memory_size)>>
  <2>1. Stands(text, ToMemory(pr), q)
    BY <1>1 DEF HeaderStands, MemoryLines
  <2>2. Len(q) = 2 /\ q[1] = Blank /\ q[2] = CountLine("memory", pr.memory_size)
    OBVIOUS
  <2> HIDE DEF q
  <2>3. Shows(ToMemory(pr) + (1 - 1), q[1]) /\ Shows(ToMemory(pr) + (2 - 1), q[2])
    <3>1. 1 \in 1 .. Len(q) /\ 2 \in 1 .. Len(q)
      BY <2>2
    <3> QED
      BY <1>3, <2>1, <3>1, Zenon
  <2>4. ToMemory(pr) + (1 - 1) = ToMemory(pr) /\ 2 - 1 = 1
    BY <1>2
  <2> QED
    BY <2>2, <2>3, <2>4
<1>12. /\ Shows(ToCache(pr), Line("cache {"))
       /\ Shows(ToCache(pr) + 1, CountLine("topology", pr.cpus))
       /\ Shows(ToCache(pr) + 2, Line("}"))
  <2> DEFINE q == CacheLines(pr)
  <2>1. Stands(text, ToCache(pr), q) /\ Len(q) = 3
    BY <1>1, PartLengths DEF HeaderStands
  <2>2. q[1] = Line("cache {") /\ q[2] = CountLine("topology", pr.cpus) /\ q[3] = Line("}")
    BY DEF CacheLines
  <2> HIDE DEF q
  <2>3. /\ Shows(ToCache(pr) + (1 - 1), q[1]) /\ Shows(ToCache(pr) + (2 - 1), q[2])
        /\ Shows(ToCache(pr) + (3 - 1), q[3])
    <3>1. 1 \in 1 .. Len(q) /\ 2 \in 1 .. Len(q) /\ 3 \in 1 .. Len(q)
      BY <2>1
    <3> QED
      BY <1>3, <2>1, <3>1, Zenon
  <2>4. ToCache(pr) + (1 - 1) = ToCache(pr) /\ 2 - 1 = 1 /\ 3 - 1 = 2
    BY <1>2
  <2> QED
    BY <2>2, <2>3, <2>4
<1> QED
  BY <1>4, <1>5, <1>6, <1>7, <1>8, <1>9, <1>10, <1>11, <1>12 DEF pr
-----------------------------------------------------------------------------
(***************************************************************************)
(* What each action does, and where it leaves the parser.                  *)
(***************************************************************************)
Goes(s) == state' = s /\ pos' = pos + 1 /\ text' = text

KeepsResult ==
  proc' = proc /\ indexed' = indexed /\ items' = items /\ slots' = slots /\ pos_idx' = pos_idx

LEMMA ResultKept ==
  UNCHANGED result => KeepsResult
  BY DEF result, KeepsResult

\* What each kind of header line does to the state of the parser.
LEMMA Effects ==
  /\ SkipBlank => Goes(state) /\ KeepsResult
  /\ OpenProcessor => Goes("processor") /\ KeepsResult
  /\ ReadCache => Goes("processor") /\ KeepsResult
  /\ OpenHardware => Goes("hardware") /\ proc' = [proc EXCEPT !.units = <<>>] /\ items' = items
  /\ ReadUnit => /\ Goes("hardware") /\ items' = items
                 /\ proc' = [proc EXCEPT !.units = Append(@, [name |-> Current.name, kind |-> Current.kind])]
  /\ CloseHardware => Goes("processor") /\ KeepsResult
  /\ OpenLayout => /\ Goes("layout") /\ proc' = [proc EXCEPT !.slot_aliases = <<>>]
                   /\ indexed' = <<>> /\ items' = items
  /\ ReadAlias => /\ Goes("layout") /\ items' = items /\ indexed' = indexed
                  /\ proc' = [proc EXCEPT !.slot_aliases = Append(@, [name |-> Current.name, slot |-> Current.slot])]
  /\ ReadSlotUnits => /\ Goes("layout") /\ items' = items /\ proc' = proc
                      /\ indexed' = Append(indexed, [slot |-> Current.slot, units |-> Current.units])
  /\ CloseLayout => Goes("processor") /\ proc' = [proc EXCEPT !.slot_units = SlotUnits] /\ items' = items
  /\ CloseProcessor => Goes("items") /\ KeepsResult
  /\ ReadLabel => Goes("items") /\ items' = Append(items, LabelItem(Current.name)) /\ proc' = proc
  /\ OpenBundle => /\ Goes("bundle") /\ proc' = proc /\ items' = items
                   /\ slots' = [k \in 1 .. proc.width |-> None] /\ pos_idx' = 0
  /\ CloseBundle => Goes("items") /\ items' = Append(items, Bundle(slots)) /\ proc' = proc
<1>1. SkipBlank => Goes(state) /\ KeepsResult
  BY ResultKept, Zenon DEF SkipBlank, Goes, Consume
<1>2. OpenProcessor => Goes("processor") /\ KeepsResult
  BY ResultKept, Zenon DEF OpenProcessor, Goes, Consume
<1>3. ReadCache => Goes("processor") /\ KeepsResult
  BY ResultKept, Zenon DEF ReadCache, Goes, Consume
<1>4. OpenHardware => Goes("hardware") /\ proc' = [proc EXCEPT !.units = <<>>] /\ items' = items
  BY Zenon DEF OpenHardware, Goes, Consume
<1>5. ReadUnit => /\ Goes("hardware") /\ items' = items
                  /\ proc' = [proc EXCEPT !.units = Append(@, [name |-> Current.name, kind |-> Current.kind])]
  BY Zenon DEF ReadUnit, Goes, Consume
<1>6. CloseHardware => Goes("processor") /\ KeepsResult
  BY ResultKept, Zenon DEF CloseHardware, Goes, Consume
<1>7. OpenLayout => /\ Goes("layout") /\ proc' = [proc EXCEPT !.slot_aliases = <<>>]
                    /\ indexed' = <<>> /\ items' = items
  BY Zenon DEF OpenLayout, Goes, Consume
<1>8. ReadAlias => /\ Goes("layout") /\ items' = items /\ indexed' = indexed
                   /\ proc' = [proc EXCEPT !.slot_aliases = Append(@, [name |-> Current.name, slot |-> Current.slot])]
  BY Zenon DEF ReadAlias, Goes, Consume
<1>9. ReadSlotUnits => /\ Goes("layout") /\ items' = items /\ proc' = proc
                       /\ indexed' = Append(indexed, [slot |-> Current.slot, units |-> Current.units])
  BY Zenon DEF ReadSlotUnits, Goes, Consume
<1>10. CloseLayout => Goes("processor") /\ proc' = [proc EXCEPT !.slot_units = SlotUnits] /\ items' = items
  BY Zenon DEF CloseLayout, Goes, Consume
<1>11. CloseProcessor => Goes("items") /\ KeepsResult
  BY ResultKept, Zenon DEF CloseProcessor, Goes, Consume
<1>12. ReadLabel => Goes("items") /\ items' = Append(items, LabelItem(Current.name)) /\ proc' = proc
  BY Zenon DEF ReadLabel, Goes, Consume
<1>13. OpenBundle => /\ Goes("bundle") /\ proc' = proc /\ items' = items
                     /\ slots' = [k \in 1 .. proc.width |-> None] /\ pos_idx' = 0
  BY Zenon DEF OpenBundle, Goes, Consume
<1>14. CloseBundle => Goes("items") /\ items' = Append(items, Bundle(slots)) /\ proc' = proc
  BY Zenon DEF CloseBundle, Goes, Consume
<1> QED
  BY <1>1, <1>2, <1>3, <1>4, <1>5, <1>6, <1>7, <1>8, <1>9, <1>10, <1>11, <1>12, <1>13, <1>14, Zenon

\* A line with a number sets the field it names.
\* A size that is an i64 is not changed by the cast to u64.
LEMMA SmallModulo ==
  ASSUME NEW n \in 0 .. I64Max, I64Max \in Nat
  PROVE  n % U64Size = n
  BY DEF U64Size

LEMMA CountEffects ==
  ASSUME ReadCount
  PROVE  /\ Goes("processor") /\ items' = items
         /\ Current.key = "width" => proc' = [proc EXCEPT !.width = Current.n]
         /\ Current.key = "topology" => proc' = [proc EXCEPT !.cpus = Current.n]
         /\ Current.key = "memory" => proc' = [proc EXCEPT !.memory_size = Current.n % U64Size]
<1>1. Goes("processor") /\ items' = items
  BY DEF ReadCount, Goes, Consume
<1>2. pos < Len(text)
  BY DEF ReadCount, At
<1>3. proc' = CASE Current.key = "width" -> [proc EXCEPT !.width = Current.n]
                [] Current.key = "topology" -> [proc EXCEPT !.cpus = Current.n]
                [] Current.key = "memory" -> [proc EXCEPT !.memory_size = Current.n % U64Size]
  <2>1. \A key : At(key) <=> Current.key = key
    BY <1>2 DEF At, Current
  <2>2. /\ At("width") <=> Current.key = "width"
        /\ At("topology") <=> Current.key = "topology"
        /\ At("memory") <=> Current.key = "memory"
    BY <2>1
  <2> QED
    BY <2>2 DEF ReadCount
<1> QED
  BY <1>1, <1>3

\* A slot line fills the slot that its name stands for.
LEMMA SlotEffects ==
  ASSUME ReadSlot
  PROVE  /\ Goes("bundle") /\ proc' = proc /\ items' = items /\ pos_idx' = pos_idx + 1
         /\ \E syl \in ParseSyllable(Current) :
              slots' = [k \in DOMAIN slots |-> IF k = SlotIndex(Current.name) + 1 THEN syl ELSE slots[k]]
  BY Zenon DEF ReadSlot, Goes, Consume
-----------------------------------------------------------------------------
(***************************************************************************)
(* The beginning of a sequence.                                            *)
(***************************************************************************)
Taken(q, k) == [j \in 1 .. k |-> q[j]]

\* Reading the entries of a list one by one gives the list.
LEMMA TakenIs ==
  ASSUME NEW q, IsSequence(q)
  PROVE  /\ Taken(q, 0) = <<>>
         /\ Taken(q, Len(q)) = q
         /\ \A k \in 1 .. Len(q) : Append(Taken(q, k - 1), q[k]) = Taken(q, k)
<1>1. Len(q) \in Nat /\ q = [n \in 1 .. Len(q) |-> q[n]]
  BY DEF IsSequence
<1>2. Taken(q, 0) = <<>>
  <2>1. DOMAIN Taken(q, 0) = {} /\ Taken(q, 0) = [j \in 1 .. 0 |-> q[j]]
    BY DEF Taken
  <2> QED
    BY <2>1
<1>3. Taken(q, Len(q)) = q
  BY <1>1 DEF Taken
<1>4. ASSUME NEW k \in 1 .. Len(q)
      PROVE  Append(Taken(q, k - 1), q[k]) = Taken(q, k)
  <2> DEFINE a == Taken(q, k - 1)
             b == Taken(q, k)
             S == ValuesOf(q)
  <2>1. k \in Nat /\ k - 1 \in Nat /\ (k - 1) + 1 = k /\ k # 0
    BY <1>1
  <2>2. q \in [1 .. Len(q) -> S]
    BY <1>1 DEF ValuesOf, IsSequence
  <2>3. \A j \in 1 .. k : q[j] \in S
    BY <1>1, <2>1, <2>2
  <2>4. a \in [1 .. (k - 1) -> S] /\ b \in [1 .. k -> S]
    BY <2>1, <2>3 DEF Taken
  <2>5. a \in Seq(S) /\ Len(a) = k - 1
    BY <2>1, <2>4, SeqDef, LenProperties
  <2>6. b = [j \in 1 .. k |-> q[j]] /\ \A j \in 1 .. (k - 1) : a[j] = q[j]
    BY DEF Taken
  <2> HIDE DEF a, b
  <2>7. Append(a, q[k]) = [j \in 1 .. (Len(a) + 1) |-> IF j = Len(a) + 1 THEN q[k] ELSE a[j]]
    BY <2>3, <2>5
  <2>8. \A j \in 1 .. k : (IF j = k THEN q[k] ELSE a[j]) = q[j]
    BY <2>1, <2>6
  <2>9. Append(a, q[k]) = [j \in 1 .. k |-> IF j = k THEN q[k] ELSE a[j]]
    BY <2>1, <2>5, <2>7
  <2> QED
    BY <2>6, <2>8, <2>9 DEF a, b
<1> QED
  BY <1>2, <1>3, <1>4
-----------------------------------------------------------------------------
(***************************************************************************)
(* The parser in the header of an emitted text: what it has read of the    *)
(* processor.                                                              *)
(***************************************************************************)
HeaderAt(s, n, pc) == state = s /\ pos = n /\ proc = pc /\ items = <<>>

ReadNothing == HeaderAt("program", 0, BlankProcessor) \/ HeaderAt("processor", 1, BlankProcessor)

ReadWidth(pr) ==
  \E n \in {2, 3} :
    HeaderAt("processor", n, ProcessorOf(pr.width, <<>>, <<>>, <<>>, 1, DEFAULT_MEMORY_SIZE))

ReadUnits(pr, k) ==
  HeaderAt("hardware", 4 + k,
           ProcessorOf(pr.width, Taken(pr.units, k), <<>>, <<>>, 1, DEFAULT_MEMORY_SIZE))

ReadHardware(pr) ==
  \E n \in {ToMiddle(pr) + 1, ToMiddle(pr) + 2} :
    HeaderAt("processor", n, ProcessorOf(pr.width, pr.units, <<>>, <<>>, 1, DEFAULT_MEMORY_SIZE))

ReadAliases(pr, k) ==
  /\ indexed = <<>>
  /\ HeaderAt("layout", ToAliases(pr) + k,
              ProcessorOf(pr.width, pr.units, Taken(pr.slot_aliases, k), <<>>, 1, DEFAULT_MEMORY_SIZE))

\* The declarations of slots that emit writes.
Declared(pr) == [j \in 1 .. Len(pr.slot_units) |-> [slot |-> j - 1, units |-> pr.slot_units[j]]]

ReadSlots(pr, k) ==
  /\ indexed = Taken(Declared(pr), k)
  /\ HeaderAt("layout", ToSlotUnits(pr) + k,
              ProcessorOf(pr.width, pr.units, pr.slot_aliases, <<>>, 1, DEFAULT_MEMORY_SIZE))

ReadLayout(pr) ==
  \E n \in {ToLayoutEnd(pr) + 1, ToMemory(pr), ToMemory(pr) + 1} :
    /\ n = ToLayoutEnd(pr) + 1 \/ pr.memory_size # DEFAULT_MEMORY_SIZE
    /\ HeaderAt("processor", n,
                ProcessorOf(pr.width, pr.units, pr.slot_aliases, pr.slot_units, 1, DEFAULT_MEMORY_SIZE))

ReadMemory(pr) ==
  \E n \in {ToCache(pr), ToCache(pr) + 1} :
    HeaderAt("processor", n,
             ProcessorOf(pr.width, pr.units, pr.slot_aliases, pr.slot_units, 1, pr.memory_size))

ReadAll(pr) ==
  \/ HeaderAt("processor", ToCache(pr) + 2, pr)
  \/ HeaderAt("items", ToHeaderEnd(pr), pr)

LEMMA ShownKey ==
  ASSUME NEW s, NEW n, NEW key, NEW pc, HeaderAt(s, n, pc), Shows(n, Line(key))
  PROVE  LineIs(s, key)
<1>1. pos < Len(text) /\ Current = Line(key) /\ state = s
  BY DEF HeaderAt, Shows
<1>2. Line(key).key = key
  BY DEF Line
<1> QED
  BY <1>1, <1>2 DEF LineIs

LEMMA ShownBlank ==
  ASSUME NEW s, NEW n, NEW pc, HeaderAt(s, n, pc), Shows(n, Blank)
  PROVE  LineIs(s, "")
  BY ShownKey DEF Blank

\* The following lemmas take the parser from one place of the header to the next:
\* a line moves it on, having read one entry more.
LEMMA StartStep ==
  ASSUME NEW p, NEW f, Parsing(p, f), ReadLine, ReadNothing
  PROVE  ReadNothing' \/ ReadWidth(p.processor)'
<1> DEFINE pr == p.processor
<1>1. pos \in Nat /\ Len(text) \in Nat
  BY ParsingFacts
<1>2. CASE HeaderAt("program", 0, BlankProcessor)
  <2>1. LineIs("program", ".processor {")
    BY <1>2, HeaderShows, ShownKey, Zenon
  <2>2. OpenProcessor
    BY <1>1, <2>1, WhichAction, Zenon
  <2>3. Goes("processor") /\ KeepsResult
    BY <2>2, Effects, Zenon
  <2>4. HeaderAt("processor", 1, BlankProcessor)'
    BY <1>2, <2>3 DEF HeaderAt, Goes, KeepsResult, BlankProcessor, ProcessorOf
  <2> QED
    BY <2>4 DEF ReadNothing
<1>3. CASE HeaderAt("processor", 1, BlankProcessor)
  <2>1. pos < Len(text) /\ Current = CountLine("width", pr.width) /\ state = "processor"
    BY <1>3, HeaderShows, Zenon DEF HeaderAt, Shows
  <2>2. Current.key = "width" /\ Current.n = pr.width
    BY <2>1 DEF CountLine
  <2>3. ~BadValue
    <3>1. Current.n \in Nat
      BY <2>2 DEF Parsing, WritableProcessor, TypedProcessor
    <3> QED
      BY <2>2, <3>1 DEF BadValue
  <2>4. ReadCount
    <3>1. LineIs("processor", "width")
      BY <2>1, <2>2 DEF LineIs
    <3> QED
      BY <1>1, <2>3, <3>1, WhichAction, Zenon
  <2>5. Goes("processor") /\ items' = items /\ proc' = [proc EXCEPT !.width = pr.width]
    BY <2>2, <2>4, CountEffects
  <2>6. HeaderAt("processor", 2, ProcessorOf(pr.width, <<>>, <<>>, <<>>, 1, DEFAULT_MEMORY_SIZE))'
    BY <1>3, <2>5 DEF HeaderAt, Goes, BlankProcessor, ProcessorOf
  <2> QED
    BY <2>6 DEF ReadWidth
<1> QED
  BY <1>2, <1>3 DEF ReadNothing

LEMMA WidthStep ==
  ASSUME NEW p, NEW f, Parsing(p, f), ReadLine, ReadWidth(p.processor)
  PROVE  ReadWidth(p.processor)' \/ ReadUnits(p.processor, 0)'
<1> DEFINE pr == p.processor
           pc == ProcessorOf(pr.width, <<>>, <<>>, <<>>, 1, DEFAULT_MEMORY_SIZE)
<1>1. pos \in Nat /\ Len(text) \in Nat
  BY ParsingFacts
<1>2. CASE HeaderAt("processor", 2, pc)
  <2>1. LineIs("processor", "")
    BY <1>2, HeaderShows, ShownBlank, Zenon
  <2>2. SkipBlank
    BY <1>1, <2>1, WhichAction, Zenon
  <2>3. Goes(state) /\ KeepsResult
    BY <2>2, Effects, Zenon
  <2>4. HeaderAt("processor", 3, pc)'
    <3> HIDE DEF pc
    <3>1. state' = "processor" /\ pos' = 3 /\ proc' = pc /\ items' = <<>>
      BY <1>2, <2>3 DEF HeaderAt, Goes, KeepsResult
    <3>2. pc' = pc
      BY DEF pc, ProcessorOf
    <3> QED
      BY <3>1, <3>2 DEF HeaderAt
  <2> QED
    BY <2>4 DEF ReadWidth
<1>3. CASE HeaderAt("processor", 3, pc)
  <2>1. LineIs("processor", "hardware {")
    BY <1>3, HeaderShows, ShownKey, Zenon
  <2>2. OpenHardware
    BY <1>1, <2>1, WhichAction, Zenon
  <2>3. Goes("hardware") /\ proc' = [proc EXCEPT !.units = <<>>] /\ items' = items
    BY <2>2, Effects, Zenon
  <2>4. Taken(pr.units, 0) = <<>>
    BY TakenIs DEF Parsing, WritableProcessor, TypedProcessor
  <2>5. ReadUnits(pr, 0)'
    BY <1>3, <2>3, <2>4 DEF HeaderAt, Goes, ReadUnits, ProcessorOf
  <2> QED
    BY <2>5
<1> QED
  BY <1>2, <1>3 DEF ReadWidth

\* A blank line moves the parser on and nothing else.
LEMMA BlankStep ==
  ASSUME NEW s \in {"program", "processor", "hardware", "layout", "items"}, NEW n, NEW pc,
         HeaderAt(s, n, pc), Shows(n, Blank), pos \in Nat, Len(text) \in Nat, ReadLine
  PROVE  HeaderAt(s, n + 1, pc)' /\ indexed' = indexed
<1>1. LineIs(s, "")
  BY ShownBlank
<1>2. SkipBlank
  BY <1>1, WhichAction, Zenon
<1>3. Goes(state) /\ KeepsResult
  BY <1>2, Effects, Zenon
<1> QED
  BY <1>3 DEF HeaderAt, Goes, KeepsResult

LEMMA UnitsStep ==
  ASSUME NEW p, NEW f, Parsing(p, f), ReadLine,
         NEW k \in 0 .. Len(p.processor.units), ReadUnits(p.processor, k)
  PROVE  \/ k < Len(p.processor.units) /\ ReadUnits(p.processor, k + 1)'
         \/ ReadHardware(p.processor)'
<1> DEFINE pr == p.processor
           us == pr.units
           pc == ProcessorOf(pr.width, Taken(us, k), <<>>, <<>>, 1, DEFAULT_MEMORY_SIZE)
<1>1. pos \in Nat /\ Len(text) \in Nat /\ Len(us) \in Nat
  BY ParsingFacts
<1>2. HeaderAt("hardware", 4 + k, pc)
  BY DEF ReadUnits
<1>3. IsSequence(us) /\ \A j \in 1 .. Len(us) : us[j] = [name |-> us[j].name, kind |-> us[j].kind]
  BY DEF Parsing, WritableProcessor, TypedProcessor, IsSequence
<1>4. CASE k < Len(us)
  <2>1. k + 1 \in 1 .. Len(us) /\ (k + 1) - 1 = k
    BY <1>1, <1>4
  <2>2. Shows(4 + k, UnitLine(us[k + 1].name, us[k + 1].kind))
    <3>1. Shows(4 + ((k + 1) - 1), UnitLine(us[k + 1].name, us[k + 1].kind))
      BY <2>1, HeaderShows, Zenon
    <3> QED
      BY <2>1, <3>1
  <2>3. pos < Len(text) /\ state = "hardware" /\ Current = UnitLine(us[k + 1].name, us[k + 1].kind)
    BY <1>2, <2>2 DEF Shows, HeaderAt
  <2>4. Current.key = "unit" /\ Current.name = us[k + 1].name /\ Current.kind = us[k + 1].kind
    BY <2>3 DEF UnitLine
  <2>5. LineIs("hardware", "unit")
    BY <2>3, <2>4 DEF LineIs
  <2>6. ReadUnit
    BY <1>1, <2>5, WhichAction, Zenon
  <2>7. /\ Goes("hardware") /\ items' = items
        /\ proc' = [proc EXCEPT !.units = Append(@, [name |-> Current.name, kind |-> Current.kind])]
    BY <2>6, Effects, Zenon
  <2>8. [name |-> Current.name, kind |-> Current.kind] = us[k + 1]
    BY <1>3, <2>1, <2>4
  <2>9. Append(Taken(us, k), us[k + 1]) = Taken(us, k + 1)
    <3>1. Append(Taken(us, (k + 1) - 1), us[k + 1]) = Taken(us, k + 1)
      BY <1>3, <2>1, TakenIs, Zenon
    <3> QED
      BY <2>1, <3>1
  <2>10. proc' = ProcessorOf(pr.width, Taken(us, k + 1), <<>>, <<>>, 1, DEFAULT_MEMORY_SIZE)
    <3> DEFINE a == Taken(us, k)
               b == Taken(us, k + 1)
    <3>1. proc = ProcessorOf(pr.width, a, <<>>, <<>>, 1, DEFAULT_MEMORY_SIZE)
      BY <1>2 DEF HeaderAt
    <3>2. proc' = [proc EXCEPT !.units = Append(@, us[k + 1])]
      BY <2>7, <2>8
    <3> HIDE DEF a, b, us, pr
    <3>3. proc.units = a
      BY <3>1 DEF ProcessorOf
    <3>4. proc' = [proc EXCEPT !.units = b]
      BY <2>9, <3>2, <3>3 DEF a, b
    <3>5. proc' = ProcessorOf(pr.width, b, <<>>, <<>>, 1, DEFAULT_MEMORY_SIZE)
      BY <3>1, <3>4 DEF ProcessorOf
    <3> QED
      BY <3>5 DEF b
  <2>11. state' = "hardware" /\ pos' = 4 + (k + 1) /\ items' = <<>>
    BY <1>1, <1>2, <2>7 DEF HeaderAt, Goes
  <2>12. ReadUnits(pr, k + 1)'
    BY <2>10, <2>11, Zenon DEF ReadUnits, HeaderAt
  <2> QED
    BY <1>4, <2>12
<1>5. CASE k = Len(us)
  <2>1. 4 + k = ToMiddle(pr)
    BY <1>5 DEF ToMiddle
  <2>2. LineIs("hardware", "}")
    <3>1. HeaderAt("hardware", ToMiddle(pr), pc)
      BY <1>2, <2>1
    <3> QED
      BY <3>1, HeaderShows, ShownKey, Zenon
  <2>3. CloseHardware
    BY <1>1, <2>2, WhichAction, Zenon
  <2>4. Goes("processor") /\ KeepsResult
    BY <2>3, Effects, Zenon
  <2>5. Taken(us, k) = us
    BY <1>3, <1>5, TakenIs
  <2>6. proc' = ProcessorOf(pr.width, us, <<>>, <<>>, 1, DEFAULT_MEMORY_SIZE)
    BY <1>2, <2>4, <2>5 DEF HeaderAt, KeepsResult
  <2>7. state' = "processor" /\ pos' = ToMiddle(pr) + 1 /\ items' = <<>>
    BY <1>1, <1>2, <2>1, <2>4 DEF HeaderAt, Goes, KeepsResult
  <2>8. HeaderAt("processor", ToMiddle(pr) + 1, ProcessorOf(pr.width, us, <<>>, <<>>, 1, DEFAULT_MEMORY_SIZE))'
    BY <2>6, <2>7, Zenon DEF HeaderAt
  <2> QED
    BY <2>8, Zenon DEF ReadHardware
<1> QED
  BY <1>1, <1>4, <1>5

LEMMA HardwareStep ==
  ASSUME NEW p, NEW f, Parsing(p, f), ReadLine, ReadHardware(p.processor)
  PROVE  ReadHardware(p.processor)' \/ ReadAliases(p.processor, 0)'
<1> DEFINE pr == p.processor
           n == ToMiddle(pr)
           pc == ProcessorOf(pr.width, pr.units, <<>>, <<>>, 1, DEFAULT_MEMORY_SIZE)
<1>1. pos \in Nat /\ Len(text) \in Nat /\ n \in Nat
  <2>1. pos \in Nat /\ Len(text) \in Nat /\ Len(pr.units) \in Nat
    BY ParsingFacts
  <2> QED
    BY <2>1 DEF ToMiddle
<1>2. CASE HeaderAt("processor", n + 1, pc)
  <2>1. Shows(n + 1, Blank)
    BY HeaderShows, Zenon
  <2> HIDE DEF n, pc
  <2>2. HeaderAt("processor", (n + 1) + 1, pc)'
    BY <1>1, <1>2, <2>1, BlankStep
  <2>3. (n + 1) + 1 = n + 2
    BY <1>1
  <2>4. HeaderAt("processor", n + 2, pc)'
    BY <2>2, <2>3 DEF HeaderAt, n
  <2> QED
    BY <2>4, Zenon DEF ReadHardware, n, pc
<1>3. CASE HeaderAt("processor", n + 2, pc)
  <2>1. LineIs("processor", "layout slots {")
    BY <1>3, HeaderShows, ShownKey, Zenon
  <2>2. OpenLayout
    BY <1>1, <2>1, WhichAction, Zenon
  <2>3. /\ Goes("layout") /\ proc' = [proc EXCEPT !.slot_aliases = <<>>]
        /\ indexed' = <<>> /\ items' = items
    BY <2>2, Effects, Zenon
  <2>4. Taken(pr.slot_aliases, 0) = <<>>
    BY TakenIs DEF Parsing, WritableProcessor, TypedProcessor, TypedAliases
  <2>5. proc' = pc
    BY <1>3, <2>3 DEF HeaderAt, ProcessorOf
  <2>6. ToAliases(pr) + 0 = (n + 2) + 1
    BY <1>1 DEF ToAliases
  <2>7. pos' = ToAliases(pr) + 0 /\ state' = "layout" /\ indexed' = <<>> /\ items' = <<>>
    BY <1>3, <2>3, <2>6 DEF HeaderAt, Goes
  <2>8. proc' = ProcessorOf(pr.width, pr.units, Taken(pr.slot_aliases, 0), <<>>, 1, DEFAULT_MEMORY_SIZE)
    BY <2>4, <2>5
  <2>9. ReadAliases(pr, 0)'
    BY <2>7, <2>8, Zenon DEF ReadAliases, HeaderAt
  <2> QED
    BY <2>9
<1> QED
  BY <1>2, <1>3 DEF ReadHardware

LEMMA AliasesStep ==
  ASSUME NEW p, NEW f, Parsing(p, f), ReadLine,
         NEW k \in 0 .. Len(p.processor.slot_aliases), ReadAliases(p.processor, k)
  PROVE  \/ k < Len(p.processor.slot_aliases) /\ ReadAliases(p.processor, k + 1)'
         \/ ReadSlots(p.processor, 0)'
<1> DEFINE pr == p.processor
           als == pr.slot_aliases
           pc == ProcessorOf(pr.width, pr.units, Taken(als, k), <<>>, 1, DEFAULT_MEMORY_SIZE)
<1>1. pos \in Nat /\ Len(text) \in Nat /\ Len(als) \in Nat /\ ToAliases(pr) \in Nat
  <2>1. pos \in Nat /\ Len(text) \in Nat /\ Len(als) \in Nat /\ Len(pr.units) \in Nat
    BY ParsingFacts
  <2> QED
    BY <2>1 DEF ToAliases, ToMiddle
<1>2. HeaderAt("layout", ToAliases(pr) + k, pc) /\ indexed = <<>>
  BY DEF ReadAliases
<1>3. /\ IsSequence(als)
      /\ \A j \in 1 .. Len(als) : als[j] = [name |-> als[j].name, slot |-> als[j].slot] /\ als[j].slot \in Nat
  BY DEF Parsing, WritableProcessor, TypedProcessor, TypedAliases, IsSequence
<1>4. CASE k < Len(als)
  <2>1. k + 1 \in 1 .. Len(als) /\ (k + 1) - 1 = k
    BY <1>1, <1>4
  <2>2. Shows(ToAliases(pr) + k, AliasLine(als[k + 1].name, als[k + 1].slot))
    <3>1. Shows(ToAliases(pr) + ((k + 1) - 1), AliasLine(als[k + 1].name, als[k + 1].slot))
      BY <2>1, HeaderShows, Zenon
    <3> QED
      BY <2>1, <3>1
  <2>3. pos < Len(text) /\ state = "layout" /\ Current = AliasLine(als[k + 1].name, als[k + 1].slot)
    BY <1>2, <2>2 DEF Shows, HeaderAt
  <2>4. Current.key = "alias" /\ Current.name = als[k + 1].name /\ Current.slot = als[k + 1].slot
    BY <2>3 DEF AliasLine
  <2>5. LineIs("layout", "alias")
    BY <2>3, <2>4 DEF LineIs
  <2>6. ReadAlias
    <3>3. als[k + 1].slot \in Nat
      BY <1>3, <2>1
    <3>1. ~(Current.slot < 0)
      BY <2>4, <3>3
    <3>2. ~BadValue
      BY <2>4, <3>1, Zenon DEF BadValue
    <3> QED
      BY <1>1, <2>5, <3>2, WhichAction, Zenon
  <2>7. /\ Goes("layout") /\ items' = items /\ indexed' = indexed
        /\ proc' = [proc EXCEPT !.slot_aliases = Append(@, [name |-> Current.name, slot |-> Current.slot])]
    BY <2>6, Effects, Zenon
  <2>8. [name |-> Current.name, slot |-> Current.slot] = als[k + 1]
    BY <1>3, <2>1, <2>4
  <2>9. Append(Taken(als, k), als[k + 1]) = Taken(als, k + 1)
    <3>1. Append(Taken(als, (k + 1) - 1), als[k + 1]) = Taken(als, k + 1)
      BY <1>3, <2>1, TakenIs, Zenon
    <3> QED
      BY <2>1, <3>1
  <2>10. proc' = ProcessorOf(pr.width, pr.units, Taken(als, k + 1), <<>>, 1, DEFAULT_MEMORY_SIZE)
    <3> DEFINE a == Taken(als, k)
               b == Taken(als, k + 1)
    <3>1. proc = ProcessorOf(pr.width, pr.units, a, <<>>, 1, DEFAULT_MEMORY_SIZE)
      BY <1>2 DEF HeaderAt
    <3>2. proc' = [proc EXCEPT !.slot_aliases = Append(@, als[k + 1])]
      BY <2>7, <2>8
    <3> HIDE DEF a, b, als, pr
    <3>3. proc.slot_aliases = a
      BY <3>1 DEF ProcessorOf
    <3>4. proc' = [proc EXCEPT !.slot_aliases = b]
      BY <2>9, <3>2, <3>3 DEF a, b
    <3>5. proc' = ProcessorOf(pr.width, pr.units, b, <<>>, 1, DEFAULT_MEMORY_SIZE)
      BY <3>1, <3>4 DEF ProcessorOf
    <3> QED
      BY <3>5 DEF b
  <2>11. state' = "layout" /\ pos' = ToAliases(pr) + (k + 1) /\ items' = <<>> /\ indexed' = <<>>
    BY <1>1, <1>2, <2>7 DEF HeaderAt, Goes
  <2>12. ReadAliases(pr, k + 1)'
    BY <2>10, <2>11, Zenon DEF ReadAliases, HeaderAt
  <2> QED
    BY <1>4, <2>12
<1>5. CASE k = Len(als)
  <2>1. ToAliases(pr) + k = ToBlank(pr) /\ ToBlank(pr) + 1 = ToSlotUnits(pr) + 0
    BY <1>1, <1>5 DEF ToBlank, ToSlotUnits
  <2>2. HeaderAt("layout", ToBlank(pr), ProcessorOf(pr.width, pr.units, als, <<>>, 1, DEFAULT_MEMORY_SIZE))
    <3>1. Taken(als, k) = als
      BY <1>3, <1>5, TakenIs
    <3> QED
      BY <1>2, <2>1, <3>1
  <2>3. Shows(ToBlank(pr), Blank)
    BY HeaderShows, Zenon
  <2>4. /\ HeaderAt("layout", ToBlank(pr) + 1, ProcessorOf(pr.width, pr.units, als, <<>>, 1, DEFAULT_MEMORY_SIZE))'
        /\ indexed' = <<>>
    <3> DEFINE n == ToBlank(pr)
               q == ProcessorOf(pr.width, pr.units, als, <<>>, 1, DEFAULT_MEMORY_SIZE)
    <3>1. HeaderAt("layout", n, q) /\ Shows(n, Blank)
      BY <2>2, <2>3
    <3> HIDE DEF n, q
    <3>2. HeaderAt("layout", n + 1, q)' /\ indexed' = <<>>
      BY <1>1, <1>2, <3>1, BlankStep
    <3> QED
      BY <3>2 DEF n, q
  <2>5. Taken(Declared(pr), 0) = <<>>
    <3>1. Taken(Declared(pr), 0) = [j \in 1 .. 0 |-> Declared(pr)[j]] /\ DOMAIN Taken(Declared(pr), 0) = {}
      BY DEF Taken
    <3> QED
      BY <3>1
  <2>6. indexed' = Taken(Declared(pr), 0)
    BY <2>4, <2>5
  <2>7. ReadSlots(pr, 0)'
    BY <2>1, <2>4, <2>6 DEF ReadSlots, HeaderAt
  <2> QED
    BY <2>7
<1> QED
  BY <1>1, <1>4, <1>5

\* parse_layout puts the declarations emit wrote back in their order.
LEMMA DeclaredUnits ==
  ASSUME NEW pr, IsSequence(pr.slot_units), indexed = Declared(pr)
  PROVE  SlotUnits = pr.slot_units
<1> DEFINE su == pr.slot_units
           n == Len(su)
           listed == {indexed[k].slot : k \in DOMAIN indexed}
<1>1. n \in Nat /\ DOMAIN su = 1 .. n /\ su = [k \in 1 .. n |-> su[k]]
  BY DEF IsSequence
<1>2. DOMAIN indexed = 1 .. n /\ \A k \in 1 .. n : indexed[k] = [slot |-> k - 1, units |-> su[k]]
  BY DEF Declared
<1>3. CASE n = 0
  <2>1. indexed = <<>>
    <3>1. indexed = [j \in 1 .. 0 |-> [slot |-> j - 1, units |-> su[j]]] /\ DOMAIN indexed = {}
      BY <1>2, <1>3 DEF Declared
    <3> QED
      BY <3>1
  <2>2. su = <<>>
    <3>1. su = [k \in 1 .. 0 |-> su[k]] /\ DOMAIN su = {}
      BY <1>1, <1>3
    <3> QED
      BY <3>1
  <2> QED
    BY <2>1, <2>2 DEF SlotUnits
<1>4. CASE n # 0
  <2>1. indexed # <<>>
    <3>1. 1 \in DOMAIN indexed
      BY <1>1, <1>2, <1>4
    <3> QED
      BY <3>1
  <2>2. \A k \in 1 .. n : indexed[k].slot = k - 1 /\ indexed[k].units = su[k]
    <3> TAKE k \in 1 .. n
    <3> DEFINE d == indexed[k]
    <3>1. d = [slot |-> k - 1, units |-> su[k]]
      BY <1>2
    <3> HIDE DEF d, su
    <3>2. d.slot = k - 1 /\ d.units = su[k]
      BY <3>1
    <3> QED
      BY <3>2 DEF d
  <2>3. listed = 0 .. (n - 1)
    <3>1. \A x \in listed : x \in 0 .. (n - 1)
      BY <1>1, <1>2, <2>2
    <3>2. ASSUME NEW x \in 0 .. (n - 1)
          PROVE  x \in listed
      <4>1. x + 1 \in 1 .. n /\ (x + 1) - 1 = x
        BY <1>1
      <4>2. indexed[x + 1].slot = x /\ x + 1 \in DOMAIN indexed
        BY <1>2, <2>2, <4>1
      <4> QED
        BY <4>2
    <3> QED
      BY <3>1, <3>2
  <2>4. Max(listed) = n - 1
    <3>1. n - 1 \in listed /\ \A y \in listed : n - 1 >= y
      <4> HIDE DEF n, listed
      <4>1. n - 1 \in 0 .. (n - 1) /\ \A y \in 0 .. (n - 1) : n - 1 >= y
        BY <1>1, <1>4
      <4> QED
        BY <2>3, <4>1
    <3>2. ASSUME NEW x \in listed, \A y \in listed : x >= y
          PROVE  x = n - 1
      <4>1. x \in 0 .. (n - 1)
        BY <2>3
      <4>2. x >= n - 1
        BY <3>1, <3>2
      <4> HIDE DEF n, listed
      <4> QED
        BY <1>1, <4>1, <4>2
    <3> HIDE DEF listed
    <3> QED
      BY <3>1, <3>2 DEF Max
  <2>5. \A k \in 1 .. n : Max({j \in DOMAIN indexed : indexed[j].slot = k - 1}) = k
    <3> TAKE k \in 1 .. n
    <3> DEFINE S == {j \in DOMAIN indexed : indexed[j].slot = k - 1}
    <3>1. S = {k}
      <4>1. k \in S
        BY <1>2, <2>2
      <4>2. ASSUME NEW j \in S
            PROVE  j = k
        <5>1. j \in 1 .. n /\ j - 1 = k - 1
          BY <1>2, <2>2
        <5> QED
          BY <1>1, <5>1
      <4> QED
        BY <4>1, <4>2
    <3>2. \A x \in {k} : \A y \in {k} : x >= y
      BY <1>1
    <3> HIDE DEF S
    <3>3. Max(S) = k
      BY <3>1, <3>2 DEF Max
    <3> QED
      BY <3>3 DEF S
  <2>6. SlotUnits = [k \in 1 .. (Max(listed) + 1) |->
                       IF k - 1 \in listed
                       THEN indexed[Max({j \in DOMAIN indexed : indexed[j].slot = k - 1})].units ELSE <<>>]
    BY <2>1, Zenon DEF SlotUnits
  <2>7. \A k \in 1 .. n : k - 1 \in listed
    <3>1. \A k \in 1 .. n : k - 1 \in 0 .. (n - 1)
      <4> HIDE DEF n
      <4> QED
        BY <1>1
    <3> QED
      BY <2>3, <3>1, Zenon
  <2>8. Max(listed) + 1 = n
    BY <1>1, <2>4
  <2> HIDE DEF listed
  <2>9. \A k \in 1 .. n : (IF k - 1 \in listed
                           THEN indexed[Max({j \in DOMAIN indexed : indexed[j].slot = k - 1})].units ELSE <<>>)
                          = su[k]
    BY <2>2, <2>5, <2>7
  <2>10. SlotUnits = [k \in 1 .. n |-> su[k]]
    <3> DEFINE value(k) == IF k - 1 \in listed
                           THEN indexed[Max({j \in DOMAIN indexed : indexed[j].slot = k - 1})].units ELSE <<>>
    <3>1. SlotUnits = [k \in 1 .. n |-> value(k)] /\ \A k \in 1 .. n : value(k) = su[k]
      BY <2>6, <2>8, <2>9, Zenon
    <3> HIDE DEF value
    <3> QED
      BY <3>1
  <2> QED
    BY <1>1, <2>10
<1> QED
  BY <1>3, <1>4

LEMMA SlotsStep ==
  ASSUME NEW p, NEW f, Parsing(p, f), ReadLine,
         NEW k \in 0 .. Len(p.processor.slot_units), ReadSlots(p.processor, k)
  PROVE  \/ k < Len(p.processor.slot_units) /\ ReadSlots(p.processor, k + 1)'
         \/ ReadLayout(p.processor)'
<1> DEFINE pr == p.processor
           su == pr.slot_units
           decl == Declared(pr)
           pc == ProcessorOf(pr.width, pr.units, pr.slot_aliases, <<>>, 1, DEFAULT_MEMORY_SIZE)
<1>1. pos \in Nat /\ Len(text) \in Nat /\ Len(su) \in Nat /\ ToSlotUnits(pr) \in Nat
  BY ParsingFacts, Places
<1>2. HeaderAt("layout", ToSlotUnits(pr) + k, pc) /\ indexed = Taken(decl, k)
  BY DEF ReadSlots
<1>3. /\ IsSequence(decl) /\ Len(decl) = Len(su)
      /\ \A j \in 1 .. Len(su) : decl[j] = [slot |-> j - 1, units |-> su[j]]
  <2>1. DOMAIN decl = 1 .. Len(su) /\ decl = [j \in 1 .. Len(su) |-> decl[j]]
    BY DEF Declared
  <2>2. \A j \in 1 .. Len(su) : decl[j] = [slot |-> j - 1, units |-> su[j]]
    BY DEF Declared
  <2> HIDE DEF decl, su
  <2>3. IsSequence(decl) /\ Len(decl) = Len(su)
    BY <1>1, <2>1, FunctionIsSequence
  <2> QED
    BY <2>2, <2>3
<1>4. CASE k < Len(su)
  <2>1. k + 1 \in 1 .. Len(su) /\ (k + 1) - 1 = k /\ k \in Nat
    BY <1>1, <1>4
  <2>2. Shows(ToSlotUnits(pr) + k, UnitsLine(k, su[k + 1]))
    <3>1. Shows(ToSlotUnits(pr) + ((k + 1) - 1), UnitsLine((k + 1) - 1, su[k + 1]))
      BY <2>1, HeaderShows, Zenon
    <3> QED
      BY <2>1, <3>1
  <2>3. pos < Len(text) /\ state = "layout" /\ Current = UnitsLine(k, su[k + 1])
    BY <1>2, <2>2 DEF Shows, HeaderAt
  <2>4. Current.key = "slot units" /\ Current.slot = k /\ Current.units = su[k + 1]
    BY <2>3 DEF UnitsLine
  <2>5. LineIs("layout", "slot units")
    BY <2>3, <2>4 DEF LineIs
  <2>6. ReadSlotUnits
    <3>2. k \in Nat => ~(k < 0)
      OBVIOUS
    <3>3. ~(Current.slot < 0) /\ Current.key = "slot units"
      BY <2>1, <2>4, <3>2, Zenon
    <3>1. ~BadValue
      BY <3>3, Zenon DEF BadValue
    <3> QED
      BY <1>1, <2>5, <3>1, WhichAction, Zenon
  <2>7. /\ Goes("layout") /\ items' = items /\ proc' = proc
        /\ indexed' = Append(indexed, [slot |-> Current.slot, units |-> Current.units])
    BY <2>6, Effects, Zenon
  <2>8. [slot |-> Current.slot, units |-> Current.units] = decl[k + 1]
    <3>1. decl[k + 1] = [slot |-> (k + 1) - 1, units |-> su[k + 1]]
      BY <1>3, <2>1
    <3> QED
      BY <2>1, <2>4, <3>1
  <2> HIDE DEF decl
  <2>9. Append(Taken(decl, k), decl[k + 1]) = Taken(decl, k + 1)
    <3>1. Append(Taken(decl, (k + 1) - 1), decl[k + 1]) = Taken(decl, k + 1)
      BY <1>3, <2>1, TakenIs
    <3> QED
      BY <2>1, <3>1
  <2>10. indexed' = Taken(decl, k + 1)
    BY <1>2, <2>7, <2>8, <2>9
  <2>11. state' = "layout" /\ pos' = ToSlotUnits(pr) + (k + 1) /\ items' = <<>> /\ proc' = pc
    BY <1>1, <1>2, <2>7 DEF HeaderAt, Goes
  <2>12. ReadSlots(pr, k + 1)'
    BY <2>10, <2>11, Zenon DEF ReadSlots, HeaderAt, decl
  <2> QED
    BY <1>4, <2>12
<1>5. CASE k = Len(su)
  <2>1. ToSlotUnits(pr) + k = ToLayoutEnd(pr)
    BY <1>5 DEF ToLayoutEnd
  <2>2. HeaderAt("layout", ToLayoutEnd(pr), pc)
    BY <1>2, <2>1
  <2>3. LineIs("layout", "}")
    BY <2>2, HeaderShows, ShownKey, Zenon
  <2>4. CloseLayout
    BY <1>1, <2>3, WhichAction, Zenon
  <2>5. Goes("processor") /\ proc' = [proc EXCEPT !.slot_units = SlotUnits] /\ items' = items
    BY <2>4, Effects, Zenon
  <2>6. SlotUnits = su
    <3>1. indexed = decl
      <4> HIDE DEF decl
      <4> QED
        BY <1>2, <1>3, <1>5, TakenIs
    <3>2. IsSequence(su)
      BY DEF Parsing, WritableProcessor, TypedProcessor
    <3> QED
      BY <3>1, <3>2, DeclaredUnits
  <2>7. proc' = [proc EXCEPT !.slot_units = su]
    BY <2>5, <2>6
  <2>8. proc' = ProcessorOf(pr.width, pr.units, pr.slot_aliases, su, 1, DEFAULT_MEMORY_SIZE)
    <3> HIDE DEF su, pr
    <3> QED
      BY <1>2, <2>7 DEF HeaderAt, ProcessorOf
  <2>9. state' = "processor" /\ pos' = ToLayoutEnd(pr) + 1 /\ items' = <<>>
    BY <2>2, <2>5 DEF HeaderAt, Goes
  <2>10. HeaderAt("processor", ToLayoutEnd(pr) + 1,
                  ProcessorOf(pr.width, pr.units, pr.slot_aliases, su, 1, DEFAULT_MEMORY_SIZE))'
    BY <2>8, <2>9, Zenon DEF HeaderAt
  <2>11. ReadLayout(pr)'
    BY <2>10, Zenon DEF ReadLayout
  <2> QED
    BY <2>11
<1> QED
  BY <1>1, <1>4, <1>5

LEMMA LayoutStep ==
  ASSUME NEW p, NEW f, Parsing(p, f), ReadLine, ReadLayout(p.processor)
  PROVE  ReadLayout(p.processor)' \/ ReadMemory(p.processor)'
<1> DEFINE pr == p.processor
           n == ToLayoutEnd(pr)
           pc == ProcessorOf(pr.width, pr.units, pr.slot_aliases, pr.slot_units, 1, DEFAULT_MEMORY_SIZE)
           big == pr.memory_size # DEFAULT_MEMORY_SIZE
<1>1. /\ pos \in Nat /\ Len(text) \in Nat /\ n \in Nat
      /\ ToMemory(pr) = n + 2
      /\ ToCache(pr) = IF big THEN n + 4 ELSE n + 2
  <2>1. pos \in Nat /\ Len(text) \in Nat
    BY ParsingFacts
  <2>2. n \in Nat /\ ToMemory(pr) = n + 2 /\ ToCache(pr) = IF big THEN ToMemory(pr) + 2 ELSE ToMemory(pr)
    BY Places
  <2> HIDE DEF n, big
  <2> QED
    BY <2>1, <2>2
<1> HIDE DEF n
<1>2. CASE HeaderAt("processor", n + 1, pc)
  <2>1. Shows(n + 1, Blank)
    BY HeaderShows, Zenon DEF n
  <2> HIDE DEF pc
  <2>2. HeaderAt("processor", (n + 1) + 1, pc)'
    BY <1>1, <1>2, <2>1, BlankStep
  <2>3. (n + 1) + 1 = ToMemory(pr)
    BY <1>1
  <2>4. HeaderAt("processor", ToMemory(pr), pc)'
    BY <2>2, <2>3 DEF HeaderAt, n
  <2>5. CASE big
    BY <2>4, <2>5, Zenon DEF ReadLayout, pc, n
  <2>6. CASE ~big
    <3>1. ToMemory(pr) = ToCache(pr) /\ DEFAULT_MEMORY_SIZE = pr.memory_size
      BY <1>1, <2>6
    <3>2. HeaderAt("processor", ToCache(pr),
                   ProcessorOf(pr.width, pr.units, pr.slot_aliases, pr.slot_units, 1, pr.memory_size))'
      BY <2>4, <3>1 DEF pc
    <3> QED
      BY <3>2, Zenon DEF ReadMemory
  <2> QED
    BY <2>5, <2>6
<1>3. CASE big /\ HeaderAt("processor", ToMemory(pr), pc)
  <2> DEFINE m == ToMemory(pr)
  <2>1. Shows(m, Blank)
    BY <1>3, HeaderShows, Zenon
  <2> HIDE DEF m, pc
  <2>2. HeaderAt("processor", m + 1, pc)'
    BY <1>1, <1>3, <2>1, BlankStep DEF m
  <2> QED
    BY <1>3, <2>2, Zenon DEF ReadLayout, pc, m
<1>4. CASE big /\ HeaderAt("processor", ToMemory(pr) + 1, pc)
  <2>1. pos < Len(text) /\ Current = CountLine("memory", pr.memory_size) /\ state = "processor"
    BY <1>4, HeaderShows, Zenon DEF HeaderAt, Shows
  <2>2. Current.key = "memory" /\ Current.n = pr.memory_size
    BY <2>1 DEF CountLine
  <2>0. pr.memory_size \in 0 .. I64Max /\ pr.memory_size % U64Size = pr.memory_size
    <3> DEFINE size == pr.memory_size
    <3>1. size \in 0 .. I64Max /\ I64Max \in Nat
      BY BoundsAssumption DEF Parsing, WritableProcessor, TypedProcessor
    <3> HIDE DEF size
    <3>2. size % U64Size = size
      BY <3>1, SmallModulo
    <3> QED
      BY <3>1, <3>2 DEF size
  <2>3. ~BadValue
    <3>1. ParseHexOrDec(Current.n) # {}
      <4>1. Current.n \in I64
        BY <2>0, <2>2, BoundsAssumption DEF I64
      <4> QED
        BY <4>1 DEF ParseHexOrDec
    <3> QED
      BY <2>2, <3>1 DEF BadValue
  <2>4. ReadCount
    <3>1. LineIs("processor", "memory")
      BY <2>1, <2>2 DEF LineIs
    <3> QED
      BY <1>1, <2>3, <3>1, WhichAction, Zenon
  <2>5. Goes("processor") /\ items' = items /\ proc' = [proc EXCEPT !.memory_size = pr.memory_size]
    BY <2>0, <2>2, <2>4, CountEffects
  <2>6. proc' = ProcessorOf(pr.width, pr.units, pr.slot_aliases, pr.slot_units, 1, pr.memory_size)
    BY <1>4, <2>5 DEF HeaderAt, ProcessorOf
  <2>7. pos' = ToCache(pr)
    BY <1>1, <1>4, <2>5 DEF HeaderAt, Goes
  <2>8. HeaderAt("processor", ToCache(pr),
                 ProcessorOf(pr.width, pr.units, pr.slot_aliases, pr.slot_units, 1, pr.memory_size))'
    BY <1>4, <2>5, <2>6, <2>7, Zenon DEF HeaderAt, Goes
  <2> QED
    BY <2>8, Zenon DEF ReadMemory
<1> QED
  BY <1>2, <1>3, <1>4 DEF ReadLayout, n

LEMMA MemoryStep ==
  ASSUME NEW p, NEW f, Parsing(p, f), ReadLine, ReadMemory(p.processor)
  PROVE  ReadMemory(p.processor)' \/ ReadAll(p.processor)'
<1> DEFINE pr == p.processor
           n == ToCache(pr)
           pc == ProcessorOf(pr.width, pr.units, pr.slot_aliases, pr.slot_units, 1, pr.memory_size)
<1>1. pos \in Nat /\ Len(text) \in Nat
  BY ParsingFacts
<1>2. CASE HeaderAt("processor", n, pc)
  <2>1. LineIs("processor", "cache {")
    BY <1>2, HeaderShows, ShownKey, Zenon
  <2>2. ReadCache
    BY <1>1, <2>1, WhichAction, Zenon
  <2>3. Goes("processor") /\ KeepsResult
    BY <2>2, Effects, Zenon
  <2>4. HeaderAt("processor", n + 1, pc)'
    <3> HIDE DEF n, pc
    <3>1. state' = "processor" /\ pos' = n + 1 /\ proc' = pc /\ items' = <<>>
      BY <1>2, <2>3 DEF HeaderAt, Goes, KeepsResult
    <3> QED
      BY <3>1, Zenon DEF HeaderAt, n, pc
  <2> QED
    BY <2>4, Zenon DEF ReadMemory
<1>3. CASE HeaderAt("processor", n + 1, pc)
  <2>1. pos < Len(text) /\ Current = CountLine("topology", pr.cpus) /\ state = "processor"
    BY <1>3, HeaderShows, Zenon DEF HeaderAt, Shows
  <2>2. Current.key = "topology" /\ Current.n = pr.cpus
    BY <2>1 DEF CountLine
  <2>3. ~BadValue
    <3>1. Current.n \in Nat
      BY <2>2 DEF Parsing, WritableProcessor, TypedProcessor
    <3> QED
      BY <2>2, <3>1 DEF BadValue
  <2>4. ReadCount
    <3>1. LineIs("processor", "topology")
      BY <2>1, <2>2 DEF LineIs
    <3> QED
      BY <1>1, <2>3, <3>1, WhichAction, Zenon
  <2>5. Goes("processor") /\ items' = items /\ proc' = [proc EXCEPT !.cpus = pr.cpus]
    BY <2>2, <2>4, CountEffects
  <2>6. proc' = ProcessorOf(pr.width, pr.units, pr.slot_aliases, pr.slot_units, pr.cpus, pr.memory_size)
    BY <1>3, <2>5 DEF HeaderAt, ProcessorOf
  <2>7. proc' = pr
    BY <2>6 DEF Parsing, WritableProcessor, TypedProcessor
  <2>8. pos' = n + 2
    <3>1. n \in Int
      BY Places
    <3> HIDE DEF n
    <3> QED
      BY <1>3, <2>5, <3>1 DEF HeaderAt, Goes
  <2>9. HeaderAt("processor", ToCache(pr) + 2, pr)'
    BY <1>3, <2>5, <2>7, <2>8, Zenon DEF HeaderAt, Goes
  <2> QED
    BY <2>9, Zenon DEF ReadAll
<1> QED
  BY <1>2, <1>3 DEF ReadMemory
-----------------------------------------------------------------------------
(***************************************************************************)
(* The parser in the items of an emitted text: it has read the first k,    *)
(* and of a bundle the first m slots.  It has them as they were if the     *)
(* names of the processor tell its slots.                                  *)
(***************************************************************************)
RereadItem(it, pr) ==
  IF "name" \in DOMAIN it THEN it
  ELSE Bundle([j \in 1 .. pr.width |-> RereadSyllable(SlotOf(it, j))])

RereadItems(p) == [k \in 1 .. Len(p.items) |-> RereadItem(p.items[k], p.processor)]

BetweenItems(p, f, k) ==
  /\ state = "items" /\ proc = p.processor
  /\ pos = ToItems(p.processor) + f[k]
  /\ NamesTellSlots(p.processor) => items = Taken(RereadItems(p), k)

SlotsRead(it, pr, m) ==
  [j \in 1 .. pr.width |-> IF j <= m THEN RereadSyllable(SlotOf(it, j)) ELSE None]

InBundle(p, f, k, m) ==
  /\ state = "bundle" /\ proc = p.processor
  /\ "name" \notin DOMAIN p.items[k]
  /\ pos = (ToItems(p.processor) + f[k - 1]) + 1 + m
  /\ pos_idx = m
  /\ NamesTellSlots(p.processor) =>
       /\ items = Taken(RereadItems(p), k - 1)
       /\ slots = SlotsRead(p.items[k], p.processor, m)

ReadEverything(p) ==
  /\ state = "done" /\ proc = p.processor
  /\ NamesTellSlots(p.processor) => items = RereadItems(p)

LEMMA AllStep ==
  ASSUME NEW p, NEW f, Parsing(p, f), ReadLine, ReadAll(p.processor)
  PROVE  ReadAll(p.processor)' \/ BetweenItems(p, f, 0)'
<1> DEFINE pr == p.processor
           n == ToHeaderEnd(pr)
<1>1. pos \in Nat /\ Len(text) \in Nat
  BY ParsingFacts
<1>2. CASE HeaderAt("processor", ToCache(pr) + 2, pr)
  <2>1. LineIs("processor", "}")
    BY <1>2, HeaderShows, ShownKey, Zenon
  <2>2. CloseProcessor
    BY <1>1, <2>1, WhichAction, Zenon
  <2>3. Goes("items") /\ KeepsResult
    BY <2>2, Effects, Zenon
  <2>4. pos' = n
    <3>1. ToCache(pr) \in Nat /\ ToHeaderEnd(pr) = ToCache(pr) + 3
      BY Places
    <3> QED
      BY <1>2, <2>3, <3>1 DEF HeaderAt, Goes
  <2>5. HeaderAt("items", n, pr)'
    BY <1>2, <2>3, <2>4, Zenon DEF HeaderAt, Goes, KeepsResult
  <2> QED
    BY <2>5, Zenon DEF ReadAll
<1>3. CASE HeaderAt("items", n, pr)
  <2>1. Shows(n, Blank)
    BY HeaderShows, Zenon
  <2>2. n \in Nat /\ ToItems(pr) = n + 1 /\ ToItems(pr) \in Nat
    BY Places
  <2> HIDE DEF n, pr
  <2>3. HeaderAt("items", n + 1, pr)'
    BY <1>1, <1>3, <2>1, BlankStep
  <2>4. f[0] = 0
    BY DEF Parsing, LayoutOf
  <2>5. Taken(RereadItems(p), 0) = <<>>
    <3>1. Taken(RereadItems(p), 0) = [j \in 1 .. 0 |-> RereadItems(p)[j]] /\ DOMAIN Taken(RereadItems(p), 0) = {}
      BY DEF Taken
    <3> QED
      BY <3>1
  <2>6. pos' = ToItems(pr) + f[0]
    BY <2>2, <2>3, <2>4 DEF HeaderAt
  <2>7. state' = "items" /\ proc' = pr /\ items' = Taken(RereadItems(p), 0)
    BY <2>3, <2>5 DEF HeaderAt
  <2>8. BetweenItems(p, f, 0)'
    BY <2>6, <2>7, Zenon DEF BetweenItems, pr
  <2> QED
    BY <2>8
<1> QED
  BY <1>2, <1>3 DEF ReadAll

\* At the end of the text, between two items, the parser returns.
LEMMA LastStep ==
  ASSUME pos \in Nat, Len(text) \in Nat, pos = Len(text), state = "items", ReadLine
  PROVE  state' = "done" /\ proc' = proc /\ items' = items
<1>1. ~(pos < Len(text))
  OBVIOUS
<1>2. ~(\E key : At(key))
  BY <1>1, Zenon DEF At
<1>3. ~Reject
  BY <1>1, Zenon DEF Reject
<1>4. EndOfText
  BY <1>2, <1>3, Zenon DEF ReadLine, SkipBlank, OpenProcessor, ReadCount, ReadCache, OpenHardware, ReadUnit,
     CloseHardware, OpenLayout, ReadAlias, ReadSlotUnits, CloseLayout, CloseProcessor, ReadLabel,
     OpenBundle, ReadSlot, CloseBundle
<1> QED
  BY <1>4, ResultKept DEF EndOfText, KeepsResult

LEMMA ItemsAgain ==
  ASSUME NEW p, IsSequence(p.items)
  PROVE  /\ IsSequence(RereadItems(p)) /\ Len(RereadItems(p)) = Len(p.items)
         /\ \A k \in 1 .. Len(p.items) : RereadItems(p)[k] = RereadItem(p.items[k], p.processor)
<1> DEFINE q == RereadItems(p)
           n == Len(p.items)
<1>1. n \in Nat
  BY DEF IsSequence
<1>2. DOMAIN q = 1 .. n /\ q = [k \in 1 .. n |-> q[k]] /\ \A k \in 1 .. n : q[k] = RereadItem(p.items[k], p.processor)
  BY DEF RereadItems
<1> HIDE DEF q, n
<1>3. IsSequence(q) /\ Len(q) = n
  BY <1>1, <1>2, FunctionIsSequence
<1> QED
  BY <1>2, <1>3 DEF q, n

\* Between two items the next line is a label, the start of a bundle, or there
\* is none and the program is complete.
LEMMA ItemStep ==
  ASSUME NEW p, NEW f, Parsing(p, f), Writable(p), ReadLine,
         NEW k \in 0 .. Len(p.items), BetweenItems(p, f, k)
  PROVE  \/ ReadEverything(p)'
         \/ k < Len(p.items) /\ BetweenItems(p, f, k + 1)'
         \/ k < Len(p.items) /\ InBundle(p, f, k + 1, 0)'
<1> DEFINE pr == p.processor
           n == Len(p.items)
           again == RereadItems(p)
<1>1. pos \in Nat /\ Len(text) \in Nat /\ ToItems(pr) \in Nat
  BY ParsingFacts, Places
<1>2. IsSequence(p.items) /\ n \in Nat /\ DOMAIN p.items = 1 .. n
  BY DEF Writable, WellTyped, IsSequence
<1>3. f[k] \in Nat
  BY DEF Parsing, LayoutOf
<1>4. /\ IsSequence(again) /\ Len(again) = n
      /\ \A j \in 1 .. n : again[j] = RereadItem(p.items[j], pr)
  BY <1>2, ItemsAgain
<1>5. /\ state = "items" /\ proc = pr /\ pos = ToItems(pr) + f[k]
      /\ NamesTellSlots(pr) => items = Taken(again, k)
  BY DEF BetweenItems
<1>6. CASE k = n
  <2>1. pos = Len(text)
    BY <1>5, <1>6 DEF Parsing, LayoutOf
  <2>2. state' = "done" /\ proc' = proc /\ items' = items
    BY <1>1, <1>5, <2>1, LastStep
  <2> HIDE DEF again
  <2>3. NamesTellSlots(pr) => items' = again
    BY <1>4, <1>5, <1>6, <2>2, TakenIs
  <2> QED
    BY <1>5, <2>2, <2>3, Zenon DEF ReadEverything, again
<1>7. CASE k < n
  <2> DEFINE it == p.items[k + 1]
             lines == ItemLines(it, pr)
             off == ToItems(pr) + f[k]
  <2>1. k + 1 \in 1 .. n /\ (k + 1) - 1 = k
    BY <1>2, <1>7
  <2>2. Stands(text, off, lines) /\ f[k + 1] = f[k] + Len(lines)
    <3>1. /\ Stands(text, ToItems(pr) + f[(k + 1) - 1], ItemLines(p.items[k + 1], pr))
          /\ f[k + 1] = f[(k + 1) - 1] + Len(ItemLines(p.items[k + 1], pr))
      BY <2>1, Zenon DEF Parsing, LayoutOf
    <3> QED
      BY <2>1, <3>1
  <2>3. WritableItem(it)
    BY <1>2, <2>1, WritableParts
  <2>4. Append(Taken(again, k), again[k + 1]) = Taken(again, k + 1)
    <3> HIDE DEF again
    <3>1. Append(Taken(again, (k + 1) - 1), again[k + 1]) = Taken(again, k + 1)
      BY <1>4, <2>1, TakenIs
    <3> QED
      BY <2>1, <3>1
  <2>5. again[k + 1] = RereadItem(it, pr)
    BY <1>4, <2>1
  <2>6. CASE "name" \in DOMAIN it
    <3>1. lines = <<[key |-> "label", name |-> it.name]>>
      BY <2>6 DEF ItemLines
    <3>2. Len(lines) = 1 /\ lines[1] = [key |-> "label", name |-> it.name]
      BY <3>1
    <3>3. pos < Len(text) /\ Current = lines[1]
      <4> HIDE DEF lines
      <4>1. 1 \in 1 .. Len(lines) /\ pos + 1 = off + 1
        BY <1>5, <3>2
      <4> HIDE DEF off
      <4> QED
        BY <1>1, <2>2, <4>1, LineAt
    <3>4. Current.key = "label" /\ Current.name = it.name
      BY <3>2, <3>3
    <3>5. LineIs("items", "label")
      BY <1>5, <3>3, <3>4 DEF LineIs
    <3>6. ReadLabel
      BY <1>1, <3>5, WhichAction, Zenon
    <3>7. Goes("items") /\ items' = Append(items, LabelItem(Current.name)) /\ proc' = proc
      BY <3>6, Effects, Zenon
    <3>8. LabelItem(it.name) = it
      BY <2>3, <2>6 DEF WritableItem, TypedItem, Bundle
    <3>9. LabelItem(Current.name) = again[k + 1]
      BY <2>5, <2>6, <3>4, <3>8 DEF RereadItem
    <3>10. NamesTellSlots(pr) => items' = Taken(again, k + 1)
      BY <1>5, <2>4, <3>7, <3>9, Zenon
    <3>11. pos' = ToItems(pr) + f[k + 1]
      <4>1. f[k + 1] = f[k] + 1
        BY <2>2, <3>2
      <4> QED
        BY <1>1, <1>3, <1>5, <3>7, <4>1 DEF Goes
    <3>12. BetweenItems(p, f, k + 1)'
      BY <1>5, <3>7, <3>10, <3>11, Zenon DEF BetweenItems, Goes
    <3> QED
      BY <1>7, <3>12
  <2>7. CASE "name" \notin DOMAIN it
    <3>1. lines = BundleText(it, pr)
      BY <2>7 DEF ItemLines
    <3>2. pr.width \in Nat
      BY DEF Writable, WellTyped, TypedProcessor
    <3>3. Stands(lines, 0, <<Line("{")>>)
      BY <3>1, <3>2, BundleTextLines, Zenon DEF BundleLines
    <3>4. Stands(text, off + 0, <<Line("{")>>)
      BY <2>2, <3>3, StandsInside, Zenon
    <3>5. pos < Len(text) /\ Current = Line("{")
      <4> DEFINE one == <<Line("{")>>
      <4>1. Part(one, 1) /\ one[1] = Line("{")
        BY OneLine
      <4> HIDE DEF one
      <4>2. 1 \in 1 .. Len(one) /\ pos + 1 = (off + 0) + 1
        <5>1. Len(one) = 1
          BY <4>1, Zenon DEF Part
        <5> QED
          BY <1>1, <1>3, <1>5, <5>1
      <4>3. Stands(text, off + 0, one)
        BY <3>4 DEF one
      <4> HIDE DEF off
      <4>4. pos < Len(text) /\ Current = one[1]
        BY <1>1, <4>2, <4>3, LineAt
      <4> QED
        BY <4>1, <4>4
    <3>6. LineIs("items", "{")
      <4>1. \A key : Line(key).key = key
        BY DEF Line
      <4> QED
        BY <1>5, <3>5, <4>1, Zenon DEF LineIs
    <3>7. OpenBundle
      BY <1>1, <3>6, WhichAction, Zenon
    <3>8. /\ Goes("bundle") /\ proc' = proc /\ items' = items
          /\ slots' = [j \in 1 .. proc.width |-> None] /\ pos_idx' = 0
      BY <3>7, Effects, Zenon
    <3>9. slots' = SlotsRead(it, pr, 0)
      <4>1. \A j \in 1 .. pr.width : ~(j <= 0)
        BY <3>2
      <4>2. slots' = [j \in 1 .. pr.width |-> None]
        BY <1>5, <3>8
      <4> QED
        BY <4>1, <4>2 DEF SlotsRead
    <3>10. pos' = (ToItems(pr) + f[(k + 1) - 1]) + 1 + 0
      BY <1>1, <1>3, <1>5, <2>1, <3>8 DEF Goes
    <3>11. NamesTellSlots(pr) => items' = Taken(again, (k + 1) - 1)
      BY <1>5, <2>1, <3>8
    <3>12. InBundle(p, f, k + 1, 0)'
      BY <1>5, <2>7, <3>8, <3>9, <3>10, <3>11, Zenon DEF InBundle, Goes
    <3> QED
      BY <1>7, <3>12
  <2> QED
    BY <2>6, <2>7
<1> QED
  BY <1>2, <1>6, <1>7

\* Each slot of a writable bundle, given or missing, can be written.
LEMMA SlotWritable ==
  ASSUME NEW it, WritableItem(it), "name" \notin DOMAIN it, NEW j
  PROVE  WritableSyllable(SlotOf(it, j))
<1>1. \A n \in DOMAIN it.slots : WritableSyllable(it.slots[n])
  BY Zenon DEF WritableItem, TypedItem
<1>2. WritableSyllable(None)
  BY DEF WritableSyllable, TypedSyllable
<1> QED
  BY <1>1, <1>2 DEF SlotOf

\* Inside a bundle the next line is its next slot or its end.
LEMMA BundleStep ==
  ASSUME NEW p, NEW f, Parsing(p, f), Writable(p), ReadLine,
         NEW k \in 1 .. Len(p.items), NEW m \in 0 .. p.processor.width, InBundle(p, f, k, m)
  PROVE  \/ m < p.processor.width /\ InBundle(p, f, k, m + 1)'
         \/ BetweenItems(p, f, k)'
<1> DEFINE pr == p.processor
           w == pr.width
           n == Len(p.items)
           it == p.items[k]
           again == RereadItems(p)
           off == ToItems(pr) + f[k - 1]
           mid == [j \in 1 .. w |-> SlotLine(SlotName(pr, j - 1), SlotOf(it, j))]
<1>1. pos \in Nat /\ Len(text) \in Nat /\ ToItems(pr) \in Nat
  BY ParsingFacts, Places
<1>2. IsSequence(p.items) /\ n \in Nat /\ DOMAIN p.items = 1 .. n /\ w \in Nat
  BY DEF Writable, WellTyped, TypedProcessor, IsSequence
<1>3. f[k - 1] \in Nat /\ off \in Nat
  <2>1. k - 1 \in 0 .. n
    BY <1>2
  <2>2. f[k - 1] \in Nat
    BY <2>1, Zenon DEF Parsing, LayoutOf
  <2> QED
    BY <1>1, <2>2
<1>4. /\ IsSequence(again) /\ Len(again) = n
      /\ \A j \in 1 .. n : again[j] = RereadItem(p.items[j], pr)
  BY <1>2, ItemsAgain
<1>5. /\ state = "bundle" /\ proc = pr /\ "name" \notin DOMAIN it
      /\ pos = off + 1 + m /\ pos_idx = m
      /\ NamesTellSlots(pr) => items = Taken(again, k - 1) /\ slots = SlotsRead(it, pr, m)
  BY DEF InBundle
<1>6. WritableItem(it)
  BY <1>2, WritableParts
<1>7. /\ Stands(text, off + 1, mid)
      /\ Stands(text, off + (1 + w), <<Line("}")>>)
      /\ f[k] = f[k - 1] + (w + 2)
  <2> DEFINE lines == BundleText(it, pr)
  <2>1. lines = ItemLines(it, pr)
    BY <1>5 DEF ItemLines
  <2>2. Stands(text, off, lines) /\ f[k] = f[k - 1] + Len(lines)
    BY <2>1, Zenon DEF Parsing, LayoutOf
  <2>3. Part(lines, w + 2) /\ BundleLines(lines, 0, it, pr)
    BY <1>2, BundleTextLines
  <2>4. Stands(lines, 0 + 1, mid) /\ Stands(lines, (0 + 1) + w, <<Line("}")>>)
    BY <2>3, Zenon DEF BundleLines
  <2> HIDE DEF lines, mid, off
  <2>5. Stands(text, off + (0 + 1), mid) /\ Stands(text, off + ((0 + 1) + w), <<Line("}")>>)
    BY <2>2, <2>4, StandsInside, Zenon
  <2>6. 0 + 1 = 1
    OBVIOUS
  <2>7. Stands(text, off + 1, mid) /\ Stands(text, off + (1 + w), <<Line("}")>>)
    BY <2>5, <2>6, Zenon
  <2> QED
    BY <2>2, <2>3, <2>7, Zenon DEF Part
<1> HIDE DEF off
<1>8. CASE m < w
  <2> DEFINE syl == SlotOf(it, m + 1)
             name == SlotName(pr, m)
  <2>1. m + 1 \in 1 .. w /\ (m + 1) - 1 = m
    BY <1>2, <1>8
  <2>2. Len(mid) = w
    <3>1. DOMAIN mid = 1 .. w /\ mid = [j \in 1 .. w |-> mid[j]]
      OBVIOUS
    <3> HIDE DEF mid, w
    <3> QED
      BY <1>2, <3>1, FunctionIsSequence
  <2>3. mid[m + 1] = SlotLine(name, syl)
    <3>1. mid[m + 1] = SlotLine(SlotName(pr, (m + 1) - 1), SlotOf(it, m + 1))
      BY <2>1
    <3> QED
      BY <2>1, <3>1
  <2>4. pos < Len(text) /\ Current = SlotLine(name, syl)
    <3> HIDE DEF mid
    <3>1. m + 1 \in 1 .. Len(mid) /\ pos + 1 = (off + 1) + (m + 1)
      BY <1>2, <1>3, <1>5, <2>1, <2>2
    <3>2. pos < Len(text) /\ Current = mid[m + 1]
      BY <1>1, <1>7, <3>1, LineAt
    <3> QED
      BY <2>3, <3>2
  <2>5. WritableSyllable(syl)
    BY <1>5, <1>6, SlotWritable
  <2>6. ParseSyllable(Current) = {RereadSyllable(syl)}
    BY <2>4, <2>5, SyllableReread
  <2>7. Current.key = "slot" /\ Current.name = name
    BY <2>4 DEF SlotLine
  <2>8. ReadSlot
    <3>1. ~BadValue
      <4>1. ParseSyllable(Current) # {}
        BY <2>6
      <4> QED
        BY <2>7, <4>1, Zenon DEF BadValue
    <3>2. LineIs("bundle", "slot")
      BY <1>5, <2>4, <2>7, Zenon DEF LineIs
    <3> QED
      BY <1>1, <3>1, <3>2, WhichAction, Zenon
  <2>9. NamesTellSlots(pr) => SlotIndex(name) = m
    <3>1. TypedAliases(pr.slot_aliases) /\ proc.slot_aliases = pr.slot_aliases
      BY <1>5 DEF Writable, WellTyped, TypedProcessor
    <3>2. NamesTellSlots(pr) => SlotIndex(SlotName(pr, pos_idx)) = pos_idx
      BY <3>1, NameFindsSlot
    <3> QED
      BY <1>5, <3>2
  <2>10. /\ Goes("bundle") /\ proc' = proc /\ items' = items /\ pos_idx' = pos_idx + 1
         /\ NamesTellSlots(pr) =>
              slots' = [j \in DOMAIN slots |-> IF j = m + 1 THEN RereadSyllable(syl) ELSE slots[j]]
    <3>1. /\ Goes("bundle") /\ proc' = proc /\ items' = items /\ pos_idx' = pos_idx + 1
          /\ \E x \in ParseSyllable(Current) :
               slots' = [j \in DOMAIN slots |-> IF j = SlotIndex(Current.name) + 1 THEN x ELSE slots[j]]
      BY <2>8, SlotEffects, Zenon
    <3>2. NamesTellSlots(pr) => SlotIndex(Current.name) = m
      BY <2>7, <2>9
    <3>3. NamesTellSlots(pr) => \E x \in {RereadSyllable(syl)} :
            slots' = [j \in DOMAIN slots |-> IF j = m + 1 THEN x ELSE slots[j]]
      BY <2>6, <3>1, <3>2
    <3> QED
      BY <3>1, <3>3
  <2>11. ASSUME NamesTellSlots(pr)
         PROVE  slots' = SlotsRead(it, pr, m + 1)
    <3> DEFINE value(j) == RereadSyllable(SlotOf(it, j))
    <3>1. slots = [j \in 1 .. w |-> IF j <= m THEN value(j) ELSE None]
      BY <1>5, <2>11 DEF SlotsRead
    <3>2. slots' = [j \in DOMAIN slots |-> IF j = m + 1 THEN value(m + 1) ELSE slots[j]]
      BY <2>10, <2>11
    <3>3. SlotsRead(it, pr, m + 1) = [j \in 1 .. w |-> IF j <= m + 1 THEN value(j) ELSE None]
      BY DEF SlotsRead
    <3> HIDE DEF value, w
    <3>4. DOMAIN slots = 1 .. w
      BY <3>1
    <3>5. \A j \in 1 .. w : (IF j = m + 1 THEN value(m + 1) ELSE slots[j]) = IF j <= m + 1 THEN value(j) ELSE None
      <4> TAKE j \in 1 .. w
      <4>1. slots[j] = IF j <= m THEN value(j) ELSE None
        BY <3>1
      <4>2. j <= m + 1 <=> (j = m + 1 \/ j <= m)
        BY <1>2, <2>1
      <4> QED
        BY <4>1, <4>2
    <3> QED
      BY <3>2, <3>3, <3>4, <3>5
  <2>12. pos' = off + 1 + (m + 1)
    BY <1>2, <1>3, <1>5, <2>10 DEF Goes
  <2>13. pos_idx' = m + 1
    BY <1>5, <2>10
  <2>14. InBundle(p, f, k, m + 1)'
    BY <1>5, <2>10, <2>11, <2>12, <2>13, Zenon DEF InBundle, Goes, off
  <2> QED
    BY <1>8, <2>14
<1>9. CASE m = w
  <2>1. pos < Len(text) /\ Current = Line("}")
    <3> DEFINE one == <<Line("}")>>
    <3>1. Part(one, 1) /\ one[1] = Line("}")
      BY OneLine
    <3> HIDE DEF one, w, mid
    <3>2. 1 \in 1 .. Len(one) /\ pos + 1 = (off + (1 + w)) + 1
      <4>1. Len(one) = 1
        BY <3>1, Zenon DEF Part
      <4> QED
        BY <1>2, <1>3, <1>5, <1>9, <4>1
    <3>3. Stands(text, off + (1 + w), one)
      BY <1>7 DEF one
    <3>4. pos < Len(text) /\ Current = one[1]
      BY <1>1, <3>2, <3>3, LineAt
    <3> QED
      BY <3>1, <3>4
  <2>2. LineIs("bundle", "}")
    <3>1. \A key : Line(key).key = key
      BY DEF Line
    <3> QED
      BY <1>5, <2>1, <3>1, Zenon DEF LineIs
  <2>3. CloseBundle
    BY <1>1, <2>2, WhichAction, Zenon
  <2>4. Goes("items") /\ items' = Append(items, Bundle(slots)) /\ proc' = proc
    BY <2>3, Effects, Zenon
  <2>5. ASSUME NamesTellSlots(pr)
        PROVE  Bundle(slots) = again[k]
    <3> DEFINE value(j) == RereadSyllable(SlotOf(it, j))
    <3>1. slots = [j \in 1 .. w |-> IF j <= w THEN value(j) ELSE None]
      BY <1>5, <1>9, <2>5 DEF SlotsRead
    <3>2. again[k] = Bundle([j \in 1 .. w |-> value(j)])
      <4>1. again[k] = RereadItem(it, pr)
        BY <1>4, Zenon
      <4> QED
        BY <1>5, <4>1, Zenon DEF RereadItem
    <3> HIDE DEF value, w
    <3>3. \A j \in 1 .. w : j <= w
      BY <1>2
    <3> QED
      BY <3>1, <3>2, <3>3
  <2>6. NamesTellSlots(pr) => items' = Taken(again, k)
    <3>1. Append(Taken(again, k - 1), again[k]) = Taken(again, k)
      <4> HIDE DEF again
      <4> QED
        BY <1>4, TakenIs
    <3> QED
      BY <1>5, <2>4, <2>5, <3>1, Zenon
  <2>7. pos' = ToItems(pr) + f[k]
    <3> HIDE DEF w
    <3>1. off = ToItems(pr) + f[k - 1]
      BY DEF off
    <3>2. f[k] = f[k - 1] + (w + 2)
      BY <1>7, Zenon
    <3>3. pos' = pos + 1
      BY <2>4 DEF Goes
    <3>4. pos = off + 1 + w
      BY <1>5, <1>9
    <3> DEFINE a == f[k - 1]
               b == f[k]
               c == ToItems(pr)
    <3>5. a \in Nat /\ c \in Nat /\ w \in Nat /\ off = c + a /\ b = a + (w + 2)
      BY <1>1, <1>2, <1>3, <3>1, <3>2
    <3> HIDE DEF a, b, c
    <3>6. pos' = c + b
      BY <3>3, <3>4, <3>5
    <3> QED
      BY <3>6 DEF b, c
  <2>8. BetweenItems(p, f, k)'
    BY <1>5, <2>4, <2>6, <2>7, Zenon DEF BetweenItems, Goes
  <2> QED
    BY <2>8
<1> QED
  BY <1>2, <1>8, <1>9
-----------------------------------------------------------------------------
(***************************************************************************)
(* Reading an emitted text from its beginning to its end.                  *)
(***************************************************************************)
Reading(p, f) ==
  \/ ReadNothing
  \/ ReadWidth(p.processor)
  \/ \E k \in 0 .. Len(p.processor.units) : ReadUnits(p.processor, k)
  \/ ReadHardware(p.processor)
  \/ \E k \in 0 .. Len(p.processor.slot_aliases) : ReadAliases(p.processor, k)
  \/ \E k \in 0 .. Len(p.processor.slot_units) : ReadSlots(p.processor, k)
  \/ ReadLayout(p.processor)
  \/ ReadMemory(p.processor)
  \/ ReadAll(p.processor)
  \/ \E k \in 0 .. Len(p.items) : BetweenItems(p, f, k)
  \/ \E k \in 1 .. Len(p.items) : \E m \in 0 .. p.processor.width : InBundle(p, f, k, m)
  \/ ReadEverything(p)

LEMMA NoMoreLines ==
  ASSUME state = "done"
  PROVE  ~ReadLine
<1>1. Expected = {}
  BY DEF Expected
<1>2. ~Reject
  BY <1>1, Zenon DEF Reject
<1> QED
  BY <1>2, ActionLines, Zenon DEF ReadLine

LEMMA ReadLineMoves ==
  ASSUME pos \in Nat, ReadLine
  PROVE  pos' \in Nat /\ text' = text
<1>1. CASE EndOfText \/ Reject
  BY <1>1 DEF EndOfText, Reject
<1>2. CASE ~(EndOfText \/ Reject)
  <2>1. Consume
    BY <1>2, Zenon DEF ReadLine, SkipBlank, OpenProcessor, ReadCount, ReadCache, OpenHardware, ReadUnit,
       CloseHardware, OpenLayout, ReadAlias, ReadSlotUnits, CloseLayout, CloseProcessor, ReadLabel,
       OpenBundle, ReadSlot, CloseBundle
  <2> QED
    BY <2>1 DEF Consume
<1> QED
  BY <1>1, <1>2

\* Every line of an emitted text is accepted and leaves the parser at the next
\* place, with what stands before it read.
LEMMA ReadingStep ==
  ASSUME NEW p, NEW f, Parsing(p, f), Writable(p), ReadLine, Reading(p, f)
  PROVE  Reading(p, f)'
<1> DEFINE pr == p.processor
<1>1. /\ Len(pr.units) \in Nat /\ Len(pr.slot_aliases) \in Nat /\ Len(pr.slot_units) \in Nat
      /\ Len(p.items) \in Nat /\ pr.width \in Nat
  BY ParsingFacts DEF Writable, WellTyped, TypedProcessor, IsSequence
<1>2. \A n \in Nat : 0 \in 0 .. n /\ \A k \in 0 .. n : k < n => k + 1 \in 0 .. n /\ k + 1 \in 1 .. n
  OBVIOUS
<1>3. CASE ReadNothing
  BY <1>3, StartStep, Zenon DEF Reading
<1>4. CASE ReadWidth(pr)
  BY <1>1, <1>2, <1>4, WidthStep, Zenon DEF Reading
<1>5. ASSUME NEW k \in 0 .. Len(pr.units), ReadUnits(pr, k) PROVE Reading(p, f)'
  BY <1>1, <1>2, <1>5, UnitsStep, Zenon DEF Reading
<1>6. CASE ReadHardware(pr)
  BY <1>1, <1>2, <1>6, HardwareStep, Zenon DEF Reading
<1>7. ASSUME NEW k \in 0 .. Len(pr.slot_aliases), ReadAliases(pr, k) PROVE Reading(p, f)'
  BY <1>1, <1>2, <1>7, AliasesStep, Zenon DEF Reading
<1>8. ASSUME NEW k \in 0 .. Len(pr.slot_units), ReadSlots(pr, k) PROVE Reading(p, f)'
  BY <1>1, <1>2, <1>8, SlotsStep, Zenon DEF Reading
<1>9. CASE ReadLayout(pr)
  BY <1>9, LayoutStep, Zenon DEF Reading
<1>10. CASE ReadMemory(pr)
  BY <1>10, MemoryStep, Zenon DEF Reading
<1>11. CASE ReadAll(pr)
  BY <1>1, <1>2, <1>11, AllStep, Zenon DEF Reading
<1>12. ASSUME NEW k \in 0 .. Len(p.items), BetweenItems(p, f, k) PROVE Reading(p, f)'
  BY <1>1, <1>2, <1>12, ItemStep, Zenon DEF Reading
<1>13. ASSUME NEW k \in 1 .. Len(p.items), NEW m \in 0 .. pr.width, InBundle(p, f, k, m)
       PROVE  Reading(p, f)'
  <2>1. k \in 0 .. Len(p.items)
    BY <1>1
  <2> QED
    BY <1>1, <1>2, <1>13, <2>1, BundleStep, Zenon DEF Reading
<1>14. CASE ReadEverything(p)
  BY <1>14, NoMoreLines DEF ReadEverything
<1> QED
  BY <1>3, <1>4, <1>5, <1>6, <1>7, <1>8, <1>9, <1>10, <1>11, <1>12, <1>13, <1>14, Zenon DEF Reading

\* The reader of the output, at any line of it.
ReadBackInv ==
  step = "read_back" =>
    \E p, f : /\ source = p /\ text = EmitText(p) /\ pos \in Nat
              /\ Writable(p) => LayoutOf(p, f) /\ Reading(p, f)

LEMMA ReadBackInitInv == DriverInit => ReadBackInv
  BY DEF DriverInit, ReadBackInv

\* Only ReadBack and the parser touch what is read back.
LEMMA ReadBackNextInv == ReadBackInv /\ [DriverNext]_allVars => ReadBackInv'
<1> SUFFICES ASSUME ReadBackInv, [DriverNext]_allVars, step' = "read_back"
             PROVE  \E p, f : /\ source' = p /\ text' = EmitText(p) /\ pos' \in Nat
                              /\ Writable(p) => LayoutOf(p, f) /\ Reading(p, f)'
  BY Zenon DEF ReadBackInv
<1>1. CASE ReadBack
  <2>1. PICK p : p = source
    OBVIOUS
  <2>2. /\ text' = EmitText(p) /\ pos' = 0 /\ source' = p
        /\ state' = "program" /\ proc' = BlankProcessor /\ items' = <<>>
    BY <1>1, <2>1, Zenon DEF ReadBack, Parse
  <2>3. HeaderAt("program", 0, BlankProcessor)'
    BY <2>2, Zenon DEF HeaderAt, BlankProcessor, ProcessorOf
  <2>4. \A f : Reading(p, f)'
    BY <2>3, Zenon DEF Reading, ReadNothing
  <2>5. Writable(p) => \E f : LayoutOf(p, f)
    BY LayoutExists, WritableParts DEF Writable, WellTyped
  <2>6. pos' \in Nat
    BY <2>2
  <2> QED
    BY <2>2, <2>4, <2>5, <2>6, Zenon
<1>2. CASE Parser /\ step = "read_back"
  <2>1. PICK p, f : /\ source = p /\ text = EmitText(p) /\ pos \in Nat
                    /\ Writable(p) => LayoutOf(p, f) /\ Reading(p, f)
    BY <1>2, Zenon DEF ReadBackInv
  <2>2. ReadLine /\ source' = p
    BY <1>2, <2>1 DEF Parser, driverVars
  <2>3. text' = EmitText(p) /\ pos' \in Nat
    BY <2>1, <2>2, ReadLineMoves
  <2>4. Writable(p) => LayoutOf(p, f) /\ Reading(p, f)'
    <3> SUFFICES ASSUME Writable(p)
                 PROVE  LayoutOf(p, f) /\ Reading(p, f)'
      OBVIOUS
    <3>1. Parsing(p, f)
      BY <2>1, WritableParts, Zenon DEF Parsing
    <3> QED
      BY <2>1, <2>2, <3>1, ReadingStep, Zenon
  <2> QED
    BY <2>2, <2>3, <2>4, Zenon
<1>3. CASE UNCHANGED allVars
  <2>1. step = "read_back" /\ source' = source /\ UNCHANGED <<text, pos, state, proc, indexed, items, slots, pos_idx>>
    BY <1>3 DEF allVars, driverVars, vars, result
  <2>2. PICK p, f : /\ source = p /\ text = EmitText(p) /\ pos \in Nat
                    /\ Writable(p) => LayoutOf(p, f) /\ Reading(p, f)
    BY <2>1, Zenon DEF ReadBackInv
  <2>3. Reading(p, f) => Reading(p, f)'
    BY <2>1, Zenon DEF Reading, ReadNothing, ReadWidth, ReadUnits, ReadHardware, ReadAliases, ReadSlots,
       ReadLayout, ReadMemory, ReadAll, HeaderAt, BetweenItems, InBundle, ReadEverything
  <2> QED
    BY <2>1, <2>2, <2>3, Zenon
<1>4. ReadBack \/ (Parser /\ step = "read_back") \/ UNCHANGED allVars
  <2>1. CASE UNCHANGED allVars
    BY <2>1
  <2>2. CASE DriverNext
    <3>1. CASE Parser
      BY <3>1 DEF Parser, driverVars
    <3>2. CASE EmitDemo \/ SelectInput \/ LoadDefault \/ ReadConfig \/ Loaded \/ RunStage \/ FailStage
      BY <3>2 DEF EmitDemo, SelectInput, LoadDefault, ReadConfig, Loaded, RunStage, FailStage, HasStage, Fail,
                  driverVars
    <3>3. CASE EmitBundles \/ EmitMir \/ WriteStdout \/ OpenFile \/ WriteFile
      BY <3>3 DEF EmitBundles, EmitMir, WriteStdout, OpenFile, WriteFile, HasStage, Fail
    <3>4. CASE Terminated
      BY <3>4 DEF Terminated
    <3> QED
      BY <2>2, <3>1, <3>2, <3>3, <3>4 DEF DriverNext
  <2> QED
    BY <2>1, <2>2
<1> QED
  BY <1>1, <1>2, <1>3, <1>4

LEMMA ReadBackSpecInv == DriverSpec => []ReadBackInv
  BY ReadBackInitInv, ReadBackNextInv, PTL DEF DriverSpec

\* What the reader of an output has when it returns.
LEMMA ReadBackDone ==
  ASSUME ReadBackInv, Writable(source), step = "read_back"
  PROVE  /\ state # "error"
         /\ state = "done" => /\ text = EmitText(source) /\ proc = source.processor
                              /\ NamesTellSlots(source.processor) => items = RereadItems(source)
<1>1. PICK p, f : source = p /\ text = EmitText(p) /\ Reading(p, f)
  BY Zenon DEF ReadBackInv
<1>2. \/ state \in {"program", "processor", "hardware", "layout", "items", "bundle"}
      \/ ReadEverything(p)
  BY <1>1, Zenon DEF Reading, ReadNothing, ReadWidth, ReadUnits, ReadHardware, ReadAliases, ReadSlots,
     ReadLayout, ReadMemory, ReadAll, HeaderAt, BetweenItems, InBundle
<1> QED
  BY <1>1, <1>2 DEF ReadEverything

(***************************************************************************)
(* parse returns no error for a text that emit wrote ("emitted VLIW should *)
(* parse", the tests of lib.rs), whatever the processor, its names and the *)
(* program: any number of units, slots, names, items and operands, for     *)
(* every value the types allow except the ones EmitAccepted lists: the     *)
(* offset i64::MIN, a memory size of 2^63 or more, a label that begins     *)
(* like a number and is none.                                              *)
(***************************************************************************)
THEOREM EmittedTextIsAccepted == DriverSpec => [](WellTyped(source) => EmitAccepted)
<1>1. ReadBackInv => (WellTyped(source) => EmitAccepted)
  <2>1. WellTyped(source) /\ Readable(source) => Writable(source)
    BY DEF Writable
  <2> QED
    BY <2>1, ReadBackDone, Zenon DEF EmitAccepted
<1> QED
  BY <1>1, ReadBackSpecInv, PTL
-----------------------------------------------------------------------------
(***************************************************************************)
(* What was read, written again.                                           *)
(***************************************************************************)
LEMMA ItemWrittenAgain ==
  ASSUME NEW it, WritableItem(it), NEW pr, pr.width \in Nat,
         "slots" \in DOMAIN it => \A n \in DOMAIN it.slots : PlainSyllable(it.slots[n])
  PROVE  ItemLines(RereadItem(it, pr), pr) = ItemLines(it, pr)
<1>1. CASE "name" \in DOMAIN it
  BY <1>1, Zenon DEF RereadItem
<1>2. CASE "name" \notin DOMAIN it
  <2> DEFINE w == pr.width
             again == [j \in 1 .. w |-> RereadSyllable(SlotOf(it, j))]
             b == Bundle(again)
  <2>1. RereadItem(it, pr) = b
    BY <1>2, Zenon DEF RereadItem
  <2>2. "name" \notin DOMAIN b /\ b.slots = again
    <3> HIDE DEF again
    <3> QED
      BY DEF Bundle
  <2>3. \A j \in 1 .. w : SlotOf(b, j) = RereadSyllable(SlotOf(it, j))
    <3>1. DOMAIN again = 1 .. w /\ \A j \in 1 .. w : again[j] = RereadSyllable(SlotOf(it, j))
      OBVIOUS
    <3> HIDE DEF again, b
    <3> QED
      BY <2>2, <3>1 DEF SlotOf
  <2>4. \A j \in 1 .. w : SlotLine(SlotName(pr, j - 1), SlotOf(b, j)) = SlotLine(SlotName(pr, j - 1), SlotOf(it, j))
    <3> HIDE DEF b, again
    <3> TAKE j \in 1 .. w
    <3>1. WritableSyllable(SlotOf(it, j)) /\ PlainSyllable(SlotOf(it, j))
      <4>1. "slots" \in DOMAIN it
        BY <1>2 DEF WritableItem, TypedItem
      <4>2. PlainSyllable(None)
        BY DEF PlainSyllable
      <4> QED
        BY <1>2, <4>1, <4>2, SlotWritable DEF SlotOf
    <3>2. SlotLine(SlotName(pr, j - 1), RereadSyllable(SlotOf(it, j))) = SlotLine(SlotName(pr, j - 1), SlotOf(it, j))
      BY <3>1, SyllableReread, Zenon
    <3> QED
      BY <2>3, <3>2, Zenon
  <2>5. [j \in 1 .. w |-> SlotLine(SlotName(pr, j - 1), SlotOf(b, j))]
        = [j \in 1 .. w |-> SlotLine(SlotName(pr, j - 1), SlotOf(it, j))]
    <3> DEFINE g(j) == SlotLine(SlotName(pr, j - 1), SlotOf(b, j))
               h(j) == SlotLine(SlotName(pr, j - 1), SlotOf(it, j))
    <3>1. \A j \in 1 .. w : g(j) = h(j)
      BY <2>4
    <3> HIDE DEF g, h
    <3>2. [j \in 1 .. w |-> g(j)] = [j \in 1 .. w |-> h(j)]
      BY <3>1
    <3> QED
      BY <3>2 DEF g, h
  <2>6. BundleText(b, pr) = BundleText(it, pr)
    <3> HIDE DEF b
    <3> QED
      BY <2>5, Zenon DEF BundleText
  <2> HIDE DEF b
  <2> QED
    BY <1>2, <2>1, <2>2, <2>6, Zenon DEF ItemLines
<1> QED
  BY <1>1, <1>2

LEMMA EmitsSections ==
  ASSUME NEW p
  PROVE  EmitText(p) = (HeaderText(p.processor) \o <<Blank>>) \o FlattenSeq(AllItemLines(p))
  BY Zenon DEF EmitText, AllItemLines, ItemLines

\* What was read of an emitted text is emitted as that text.
LEMMA WrittenAgain ==
  ASSUME NEW p, Writable(p), EveryOperand(p, PlainLabel), NEW q, q = [processor |-> p.processor, items |-> RereadItems(p)]
  PROVE  EmitText(q) = EmitText(p)
<1> DEFINE n == Len(p.items)
           pr == p.processor
           again == RereadItems(p)
<1>1. q.processor = pr /\ q.items = again
  OBVIOUS
<1>2. IsSequence(p.items) /\ DOMAIN p.items = 1 .. n /\ n \in Nat /\ pr.width \in Nat
  BY DEF Writable, WellTyped, TypedProcessor, IsSequence
<1>3. DOMAIN again = 1 .. n /\ \A k \in 1 .. n : again[k] = RereadItem(p.items[k], pr)
  BY DEF RereadItems
<1> HIDE DEF again
<1>4. \A k \in 1 .. n : ItemLines(again[k], pr) = ItemLines(p.items[k], pr)
  <2> TAKE k \in 1 .. n
  <2>1. WritableItem(p.items[k])
    BY <1>2, WritableParts
  <2>2. "slots" \in DOMAIN p.items[k] => \A j \in DOMAIN p.items[k].slots : PlainSyllable(p.items[k].slots[j])
    BY <1>2, Zenon DEF EveryOperand, PlainSyllable
  <2> QED
    BY <1>2, <1>3, <2>1, <2>2, ItemWrittenAgain
<1>5. AllItemLines(q) = [k \in 1 .. n |-> ItemLines(again[k], pr)]
  BY <1>1, <1>3, Zenon DEF AllItemLines
<1>6. AllItemLines(p) = [k \in 1 .. n |-> ItemLines(p.items[k], pr)]
  BY <1>2, Zenon DEF AllItemLines
<1>7. AllItemLines(q) = AllItemLines(p)
  <2> DEFINE g(k) == ItemLines(again[k], pr)
             h(k) == ItemLines(p.items[k], pr)
  <2>1. /\ \A k \in 1 .. n : g(k) = h(k)
        /\ AllItemLines(q) = [k \in 1 .. n |-> g(k)]
        /\ AllItemLines(p) = [k \in 1 .. n |-> h(k)]
    BY <1>4, <1>5, <1>6, Zenon
  <2> HIDE DEF g, h
  <2> QED
    BY <2>1
<1> QED
  BY <1>1, <1>7, EmitsSections, Zenon

(***************************************************************************)
(* emit and parse reach a fixed point in one round: the text emitted from  *)
(* what parse read of an emitted text is that text, also where parse took  *)
(* a label for a register or a bare nop for an empty slot.  The program is *)
(* one that parse can read; that names tell slots, and that labels have no *)
(* leading zeros, TextStable itself asks for.                              *)
(***************************************************************************)
THEOREM EmittedTextIsStable == DriverSpec => [](WellTyped(source) /\ Readable(source) => TextStable)
<1>1. ReadBackInv => (WellTyped(source) /\ Readable(source) => TextStable)
  <2> SUFFICES ASSUME ReadBackInv, WellTyped(source), Readable(source), step = "read_back", state = "done",
                      NamesTellSlots(source.processor), EveryOperand(source, PlainLabel)
               PROVE  EmitText(Parsed) = text
    BY Zenon DEF TextStable
  <2>0. Writable(source)
    BY Zenon DEF Writable
  <2>1. text = EmitText(source) /\ proc = source.processor /\ items = RereadItems(source)
    BY <2>0, ReadBackDone
  <2>2. Parsed = [processor |-> source.processor, items |-> RereadItems(source)]
    BY <2>1 DEF Parsed
  <2> QED
    BY <2>0, <2>1, <2>2, WrittenAgain, Zenon
<1> QED
  BY <1>1, ReadBackSpecInv, PTL
-----------------------------------------------------------------------------
\* A slot of a program without bare nops and confusable labels is read as it was.
LEMMA PlainItemReread ==
  ASSUME NEW p, Writable(p), NoBareNops(p), EveryOperand(p, WordLabel), NEW k \in DOMAIN p.items,
         "name" \notin DOMAIN p.items[k], NEW j
  PROVE  RereadSyllable(SlotOf(p.items[k], j)) = SlotOf(p.items[k], j)
<1> DEFINE it == p.items[k]
           syl == SlotOf(it, j)
<1>1. WritableItem(it)
  BY WritableParts
<1>2. WritableSyllable(syl)
  BY <1>1, SlotWritable
<1>3. Unambiguous(syl)
  <2> SUFFICES ASSUME syl # None
               PROVE  /\ syl # Syllable("nop", <<>>)
                      /\ \A n \in DOMAIN syl.operands : WordLabel(syl.operands[n])
    BY Zenon DEF Unambiguous
  <2>1. "slots" \in DOMAIN it /\ j \in DOMAIN it.slots /\ syl = it.slots[j]
    BY <1>1 DEF WritableItem, TypedItem, SlotOf
  <2>2. syl # Syllable("nop", <<>>)
    BY <2>1, Zenon DEF NoBareNops
  <2>3. \A n \in DOMAIN syl.operands : WordLabel(syl.operands[n])
    BY <2>1, Zenon DEF EveryOperand
  <2> QED
    BY <2>2, <2>3, Zenon
<1> QED
  BY <1>2, <1>3, UnambiguousReread

(***************************************************************************)
(* "This is the inverse of emit" (the comment on parse): what is read from *)
(* the output is the program that was emitted, for every processor and     *)
(* every program parse can read: slots with several names, one or none,    *)
(* offsets of either sign, any width.  RoundTrip itself asks for names     *)
(* that tell slots, no bare nops, and labels that look like nothing else.  *)
(***************************************************************************)
THEOREM ParseInvertsEmit == DriverSpec => [](WellTyped(source) /\ Readable(source) => RoundTrip)
<1>1. ReadBackInv => (WellTyped(source) /\ Readable(source) => RoundTrip)
  <2> SUFFICES ASSUME ReadBackInv, WellTyped(source), Readable(source), step = "read_back", state = "done",
                      NamesTellSlots(source.processor), NoBareNops(source), EveryOperand(source, WordLabel)
               PROVE  Parsed = Padded(source)
    BY Zenon DEF RoundTrip
  <2>0. Writable(source)
    BY Zenon DEF Writable
  <2>1. PICK p : p = source
    OBVIOUS
  <2>2. proc = p.processor /\ items = RereadItems(p) /\ Writable(p) /\ NoBareNops(p) /\ EveryOperand(p, WordLabel)
    BY <2>0, <2>1, ReadBackDone
  <2> DEFINE n == Len(p.items)
             w == p.processor.width
  <2>3. DOMAIN p.items = 1 .. n /\ p = [processor |-> p.processor, items |-> p.items]
    BY <2>2 DEF Writable, WellTyped, IsSequence
  <2>4. RereadItems(p) = [k \in DOMAIN p.items |->
                            IF "name" \in DOMAIN p.items[k] THEN p.items[k]
                            ELSE Bundle([j \in 1 .. w |-> SlotOf(p.items[k], j)])]
    <3> DEFINE g(k) == RereadItem(p.items[k], p.processor)
               h(k) == IF "name" \in DOMAIN p.items[k] THEN p.items[k]
                       ELSE Bundle([j \in 1 .. w |-> SlotOf(p.items[k], j)])
    <3>1. ASSUME NEW k \in DOMAIN p.items
          PROVE  g(k) = h(k)
      <4>1. CASE "name" \in DOMAIN p.items[k]
        BY <4>1, Zenon DEF RereadItem
      <4>2. CASE "name" \notin DOMAIN p.items[k]
        <5> DEFINE a(j) == RereadSyllable(SlotOf(p.items[k], j))
                   b(j) == SlotOf(p.items[k], j)
        <5>1. \A j : a(j) = b(j)
          BY <2>2, <4>2, PlainItemReread
        <5>2. g(k) = Bundle([j \in 1 .. w |-> a(j)]) /\ h(k) = Bundle([j \in 1 .. w |-> b(j)])
          BY <4>2, Zenon DEF RereadItem
        <5> HIDE DEF a, b, g, h
        <5>3. [j \in 1 .. w |-> a(j)] = [j \in 1 .. w |-> b(j)]
          BY <5>1
        <5> QED
          BY <5>2, <5>3
      <4> QED
        BY <4>1, <4>2
    <3>2. RereadItems(p) = [k \in DOMAIN p.items |-> g(k)]
      BY <2>3, Zenon DEF RereadItems
    <3> HIDE DEF g, h
    <3>3. RereadItems(p) = [k \in DOMAIN p.items |-> h(k)]
      BY <3>1, <3>2
    <3> QED
      BY <3>3 DEF h
  <2>5. Padded(p) = [processor |-> p.processor, items |-> RereadItems(p)]
    <3>1. Padded(p) = [p EXCEPT !.items = RereadItems(p)]
      BY <2>4, Zenon DEF Padded
    <3> QED
      BY <2>3, <3>1
  <2> QED
    BY <2>1, <2>2, <2>5 DEF Parsed
<1> QED
  BY <1>1, ReadBackSpecInv, PTL
=============================================================================
