------------------------------- MODULE Driver --------------------------------
(***************************************************************************)
(* The command line driver, crates/vliwc/src/main.rs, and the compilation  *)
(* pipeline it calls, compile_for_processor and compile_to_mir of          *)
(* crates/vliw-backend/src/lib.rs, composed with the .vliw text format:    *)
(* load_processor runs the parser on the file given with --processor, the  *)
(* processor it returns is emitted again at the head of the output, and    *)
(* whoever reads the output parses it.                                     *)
(*                                                                         *)
(* Any stage may fail; its error ends the program through `?'.  What the   *)
(* other stages compute is the business of other modules: here they give   *)
(* some items for the processor.  Reading a file, LLVM's parser and        *)
(* optimiser, and writing are external: each may fail.                     *)
(***************************************************************************)
EXTENDS AsmText

CONSTANTS
  Args,               \* [emit, demo, emit_mir, input, output, processor, schedule]
  Outputs(_),         \* the items compilations for a processor may give
  DefaultProcessor    \* Processor::default()

\* The values of --schedule that clap accepts.
ASSUME ArgsAssumption == \A a \in Args : a.schedule \in {"scalar", "pack"}

\* What is at the output path: contents from before, nothing,
\* part of a text, or a text.
Old == [kind |-> "old"]
Empty == [kind |-> "empty"]
Partial == [kind |-> "partial"]
NoText == [kind |-> "none"]
Text(kind, through) == [kind |-> kind, through |-> through]
NoProgram == [none |-> TRUE]

VARIABLES
  args,     \* the command line
  step,     \* what the program does next
  done,     \* compilation stages that have succeeded
  source,   \* the program emitted, or NoProgram
  out,      \* vliw_text
  stdout,   \* what has been written to standard output
  file,     \* what is at the path named by --output
  exit      \* "running", "ok" or "error"

driverVars == <<args, step, done, source, out, stdout, file, exit>>

allVars == <<vars, driverVars>>

\* Args::effective_emit.
EffectiveEmit == IF args.demo THEN "demo" ELSE args.emit

\* Mutant: the verifier runs on the text already returned.
StagesUnverified(mode) ==
  IF mode = "mir" THEN <<"read_input", "parse", "check", "lower">>
  ELSE <<"read_input", "load_processor", "parse", "check", "optimise", "lower_all",
         "allocate", args.schedule, "emit_text">>

\* The calls of a compilation, in order.  With --emit-mir the optimisation level
\* is None, for which run_opt_pipeline does nothing, and --processor is not read.
Stages(mode) ==
  IF mode = "mir" THEN <<"read_input", "parse", "check", "lower">>
  ELSE <<"read_input", "load_processor", "parse", "check", "optimise", "lower_all",
         "allocate", args.schedule, "verify", "emit_text">>

\* The arm of the match in main.
Mode ==
  CASE EffectiveEmit = "demo" /\ args.emit_mir -> "demo_mir"
    [] EffectiveEmit = "demo" /\ ~args.emit_mir -> "demo"
    [] EffectiveEmit # "demo" /\ args.emit_mir -> "mir"
    [] OTHER -> "bundles"

DriverInit ==
  /\ Init
  /\ args \in Args
  /\ step = "select"
  /\ done = <<>>
  /\ source = NoProgram
  /\ out = NoText
  /\ stdout = Empty
  /\ file = Old
  /\ exit = "running"

Fail == exit' = "error" /\ step' = "end"

\* The hard-coded programs need no input and cannot fail.
EmitDemo ==
  /\ step = "select"
  /\ Mode \in {"demo", "demo_mir"}
  /\ out' = Text(Mode, done)
  /\ step' = "write"
  /\ UNCHANGED <<vars, args, done, source, stdout, file, exit>>

\* context("INPUT is required ...").
SelectInput ==
  /\ step = "select"
  /\ Mode \in {"mir", "bundles"}
  /\ IF args.input = "none" THEN Fail ELSE step' = "compile" /\ exit' = exit
  /\ UNCHANGED <<vars, args, done, source, out, stdout, file>>

Pending == Stages(Mode)[Len(done) + 1]
HasStage == step = "compile" /\ Len(done) < Len(Stages(Mode))
Succeed == done' = Append(done, Pending)

\* load_processor without a path.
LoadDefault ==
  /\ HasStage /\ Pending = "load_processor"
  /\ args.processor = "none"
  /\ proc' = DefaultProcessor
  /\ Succeed
  /\ UNCHANGED <<text, pos, state, indexed, items, slots, pos_idx>>
  /\ UNCHANGED <<args, step, source, out, stdout, file, exit>>

\* load_processor reads the file and calls parse.
ReadConfig ==
  /\ HasStage /\ Pending = "load_processor"
  /\ args.processor # "none"
  /\ state = "idle"
  /\ \E t \in Texts : Parse(t)
  /\ UNCHANGED driverVars

\* parse, called by load_processor or by a reader of the output.
Parser == ReadLine /\ UNCHANGED driverVars

\* prog.processor.
Loaded ==
  /\ HasStage /\ Pending = "load_processor"
  /\ state = "done"
  /\ Succeed
  /\ UNCHANGED <<vars, args, step, source, out, stdout, file, exit>>

\* Any other stage succeeds.
RunStage ==
  /\ HasStage /\ Pending \notin {"load_processor", "emit_text"}
  /\ Succeed
  /\ UNCHANGED <<vars, args, step, source, out, stdout, file, exit>>

\* A stage fails: load_processor when the file cannot be read or parsed.
FailStage ==
  /\ HasStage
  /\ Pending = "load_processor" => args.processor # "none" /\ state \in {"idle", "error"}
  /\ Fail
  /\ UNCHANGED <<vars, args, done, source, out, stdout, file>>

\* emit, and the end of a compilation to bundles.
EmitBundles ==
  /\ HasStage /\ Pending = "emit_text"
  /\ \E its \in Outputs(proc) : source' = [processor |-> proc, items |-> its]
  /\ Succeed
  /\ out' = Text(Mode, done')
  /\ step' = "write"
  /\ UNCHANGED <<vars, args, stdout, file, exit>>

\* The end of compile_to_mir.
EmitMir ==
  /\ step = "compile"
  /\ Len(done) = Len(Stages(Mode))
  /\ out' = Text(Mode, done)
  /\ step' = "write"
  /\ UNCHANGED <<vars, args, done, source, stdout, file, exit>>

WriteStdout ==
  /\ step = "write"
  /\ args.output = "none"
  /\ \/ stdout' = out /\ exit' = "ok" /\ step' = "end"
     \/ Fail /\ stdout' \in {stdout, Partial}
  /\ UNCHANGED <<vars, args, done, source, out, file>>

\* fs::write opens the path, which empties the file, and then writes.
OpenFile ==
  /\ step = "write"
  /\ args.output # "none"
  /\ \/ file' = Empty /\ step' = "write_all" /\ exit' = exit
     \/ Fail /\ file' = file
  /\ UNCHANGED <<vars, args, done, source, out, stdout>>

\* Mutant: the result of the write is dropped.
WriteFileUnchecked ==
  /\ step = "write_all"
  /\ file' \in {out, file, Partial}
  /\ exit' = "ok"
  /\ step' = "end"
  /\ UNCHANGED <<vars, args, done, source, out, stdout>>

WriteFile ==
  /\ step = "write_all"
  /\ \/ file' = out /\ exit' = "ok" /\ step' = "end"
     \/ Fail /\ file' \in {file, Partial}
  /\ UNCHANGED <<vars, args, done, source, out, stdout>>

\* A reader of the output, as the tests are, parses what was emitted.
ReadBack ==
  /\ step = "end" /\ exit = "ok" /\ source # NoProgram
  /\ step' = "read_back"
  /\ Parse(EmitText(source))
  /\ UNCHANGED <<args, done, source, out, stdout, file, exit>>

Finished ==
  \/ step = "end" /\ ~(exit = "ok" /\ source # NoProgram)
  \/ step = "read_back" /\ state \in {"done", "error"}

Terminated == Finished /\ UNCHANGED allVars

DriverNext ==
  \/ EmitDemo \/ SelectInput \/ LoadDefault \/ ReadConfig \/ Parser \/ Loaded
  \/ RunStage \/ FailStage \/ EmitBundles \/ EmitMir
  \/ WriteStdout \/ OpenFile \/ WriteFile \/ ReadBack \/ Terminated

DriverSpec == DriverInit /\ [][DriverNext]_allVars

\* The program and the parser are sequential code that runs until it returns.
FairSpec == DriverSpec /\ WF_allVars(DriverNext)
-----------------------------------------------------------------------------
(***************************************************************************)
(* Properties.                                                             *)
(***************************************************************************)

\* A text at its destination that a compilation made has been through the subset
\* check, and a bundle stream through the verifier, whichever way the arguments
\* took; nothing else replaces what was there: a compilation that fails leaves
\* the output file as it was, unless the write itself fails.
OnlyVerifiedText ==
  /\ \A t \in {stdout, file} :
       \/ t \in {Old, Empty, Partial}
       \/ t.kind \in {"demo", "demo_mir"}
       \/ t.kind = "mir" /\ \E k \in DOMAIN t.through : t.through[k] = "check"
       \/ t.kind = "bundles" /\ \E k \in DOMAIN t.through : t.through[k] = "verify"
  /\ exit = "error" /\ out = NoText => file = Old /\ stdout = Empty

\* The exit status says whether the whole text is at its destination.
ExitTellsTheTruth ==
  /\ exit = "ok" => out \in {stdout, file}
  /\ exit = "error" => out \notin {stdout, file}

\* "This is the inverse of emit" (the comment on parse): what is read from the
\* output is the program that was emitted, bundles filled up with empty slots,
\* through the names of slots, slots with two names or none, holes in the layout
\* and the sign of offsets.  It is not where one name stands for two slots, where a
\* label is spelled like a register, a predicate or a number, or for a bare nop.
RoundTrip ==
  /\ step = "read_back" /\ state = "done"
  /\ NamesTellSlots(source.processor) /\ NoBareNops(source) /\ EveryOperand(source, WordLabel)
  => Parsed = Padded(source)

\* A text emitted from what the parser read of an emitted text is the same text,
\* even where the parser took a label for a register or a nop for an empty slot:
\* unless one name stands for two slots, or such a label has leading zeros.
TextStable ==
  /\ step = "read_back" /\ state = "done"
  /\ NamesTellSlots(source.processor) /\ EveryOperand(source, PlainLabel)
  => EmitText(Parsed) = text

\* parse returns no error for a text that emit wrote ("emitted VLIW should parse",
\* the tests of lib.rs), whatever the names, unless the program has one of the
\* three things emit can write and parse cannot read: the offset i64::MIN, a
\* memory size of 2^63 or more, or a label that begins like a number and is none.
EmitAccepted == step = "read_back" /\ Readable(source) => state # "error"

\* The program ends, and so does parse, for every text.
Terminates == <>Finished
==============================================================================
