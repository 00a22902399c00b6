------------------------------ MODULE AllocRun ------------------------------
(***************************************************************************)
(* The register allocator composed with the processor that runs what it    *)
(* returns.  The processor is external; the code fixes which file an       *)
(* operand names (lower_syllable and emit_terminator of                    *)
(* crates/vliw-backend/src/lib.rs: predicates for branch conditions, for   *)
(* the sources of predicate logic and for what comparisons write, general  *)
(* registers for everything else).                                         *)
(*                                                                         *)
(* `holds' relates a location to the virtual registers whose current value *)
(* it contains, the value the unallocated function would have computed on  *)
(* the same path.  A location is a Key of class "Gpr", "Pred" or "Slot".   *)
(***************************************************************************)
EXTENDS RegAlloc

VARIABLES
  at,     \* the block that runs; 0 once the function has returned
  idx,    \* the next syllable of the allocated block
  holds   \* set of <<location, virtual register>>

runVars == <<vars, at, idx, holds>>

ARG_REG_FIRST == 2

Gpr(p) == Key("Gpr", p)
Pred(p) == Key("Pred", p)
Slot(a) == Key("Slot", a)

\* A parameter is a virtual register that is read before it is written; the
\* caller has put parameter v into argument register v.
RunInit ==
  /\ Init
  /\ at = 1 /\ idx = 1
  /\ holds = {<<Gpr(ARG_REG_FIRST + v), v>> :
                v \in {w \in VRegsOf(func) : LiveAtStart(func, 1, w)}}

Compile == Next /\ UNCHANGED <<at, idx, holds>>

Running == phase = "done" /\ at > 0
Code == blocks[at].syllables
AtEnd == idx = Len(Code) + 1
Now == Code[idx]

\* Only spill code has stack addresses.
IsSpillCode(syl) == syl.srcs # <<>> /\ syl.srcs[1].kind = "Stack"

\* The syllable of the function that the next syllable was made from.
Origin ==
  func[at].syllables[1 + Cardinality({j \in 1 .. (idx - 1) : ~IsSpillCode(Code[j])})]

SourceAt(op, p) == IF op \in PredLogicOps THEN Pred(p) ELSE Gpr(p)
DestAt(op, p) == IF WritesPred(op) THEN Pred(p) ELSE Gpr(p)

Held(loc) == {h[2] : h \in {g \in holds : g[1] = loc}}

\* loc gets the values vs and loses what it had.
Overwrite(loc, vs) == {h \in holds : h[1] # loc} \cup {<<loc, v>> : v \in vs}

\* Spill code copies between a register and a slot.
RunSpillCode ==
  /\ Running /\ ~AtEnd
  /\ IsSpillCode(Now)
  /\ LET slot == Slot(Now.srcs[1].n)
     IN  holds' = IF Now.opcode = "std" THEN Overwrite(slot, Held(Gpr(Now.srcs[2].n)))
                  ELSE Overwrite(Gpr(Now.dst.n), Held(slot))
  /\ idx' = idx + 1
  /\ UNCHANGED <<vars, at>>

\* Any other syllable: the old value of what it defines is nowhere any more; a
\* move into a fixed register copies.
RunSyllable ==
  /\ Running /\ ~AtEnd
  /\ ~IsSpillCode(Now)
  /\ holds' = IF Now.dst.kind # "PReg" THEN holds
              ELSE LET loc == DestAt(Now.opcode, Now.dst.n)
                   IN  IF Origin.dst.kind = "VReg"
                         THEN {h \in Overwrite(loc, {}) : h[2] # Origin.dst.n}
                                \cup {<<loc, Origin.dst.n>>}
                         ELSE Overwrite(loc, IF Now.opcode = "mov" THEN Uses(Origin) ELSE {})
  /\ idx' = idx + 1
  /\ UNCHANGED <<vars, at>>

\* The terminator: any block that may follow, whatever the condition is.
RunTerminator ==
  /\ Running /\ AtEnd
  /\ at' \in IF func[at].terminator.op = "ret" THEN {0}
             ELSE {c \in DOMAIN func : Follows(func, at, c)}
  /\ idx' = 1
  /\ UNCHANGED <<vars, holds>>

Returned == at = 0 /\ UNCHANGED runVars

RunNext == Compile \/ RunSpillCode \/ RunSyllable \/ RunTerminator \/ Returned

RunSpec == RunInit /\ [][RunNext]_runVars

\* Allocation "preserves the scalar expected result" (docs/dev_tasks.md,
\* LATER-1): on every path, each register an allocated syllable or branch reads
\* holds the value the virtual register it stands for has on that path.
ReadsRightValue ==
  Running =>
    IF AtEnd
      THEN \A v \in TermUses(func[at].terminator) :
             <<Pred(blocks[at].terminator.cond.n), v>> \in holds
      ELSE ~IsSpillCode(Now) =>
             \A j \in DOMAIN Now.srcs :
               Origin.srcs[j].kind = "VReg" =>
                 <<SourceAt(Now.opcode, Now.srcs[j].n), Origin.srcs[j].n>> \in holds
=============================================================================
