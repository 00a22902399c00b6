----------------------------- MODULE PhiCopies -----------------------------
(***************************************************************************)
(* Phi lowering, crates/vliw-backend/src/phi.rs.  Every predecessor block  *)
(* has a list of copies dst <- src that are meant to happen in parallel;   *)
(* lower_phi_copies takes the blocks in the (arbitrary) order of a HashMap *)
(* and serialize_parallel_copies turns each list into a sequence of moves, *)
(* breaking register cycles with fresh virtual registers.                  *)
(*                                                                         *)
(* The Vec `remaining' is the function from the position of a copy in the  *)
(* input list to its current source: Vec::remove keeps the order of the    *)
(* others, so "the first" copy of the Vec is the one of least position.    *)
(*                                                                         *)
(* The values the registers hold are symbolic: v holds [VReg, v] when the  *)
(* copies of a block start, so a source is also the name of the value the  *)
(* parallel copy must deliver.  `env' is what the emitted moves computed.  *)
(***************************************************************************)
EXTENDS Integers, Sequences, FiniteSets

CONSTANTS
  Labels,      \* labels of the predecessor blocks that need copies
  MaxCopies,   \* bound on the copies of one block
  VRegs,       \* registers 0 .. VRegs - 1 exist before phi lowering
  Consts,      \* immediates a phi may receive
  Inputs       \* the functions to lower, as the copies of their blocks

ASSUME LabelsAssumption == "none" \notin Labels
ASSUME VRegsAssumption == VRegs \in Nat
ASSUME MaxCopiesAssumption == MaxCopies \in Nat
ASSUME ConstsAssumption == Consts \subseteq Int

VReg(v) == [kind |-> "VReg", n |-> v]
Const(c) == [kind |-> "Const", n |-> c]

\* CopySrc, over any register numbers.
CopySrc == [kind : {"VReg"}, n : Nat] \cup [kind : {"Const"}, n : Consts]

\* CopySrc, over the registers instruction selection made.
InputSrc ==
  [kind : {"VReg"}, n : 0 .. (VRegs - 1)] \cup [kind : {"Const"}, n : Consts]

PhiCopy == [dst : 0 .. (VRegs - 1), src : InputSrc]

\* A move in a block: syllable_for_copy makes it a `mov' or a `movi'.
Move == [dst : Nat, src : CopySrc]

\* A phi may list a predecessor twice (a branch with equal targets), and then
\* gives it the same value both times: copies to one dst agree on the source.
WellFormed(copies) ==
  \A i, j \in DOMAIN copies :
    copies[i].dst = copies[j].dst => copies[i].src = copies[j].src

CopyLists ==
  {copies \in UNION {[1 .. n -> PhiCopy] : n \in 0 .. MaxCopies} :
     WellFormed(copies)}

ASSUME InputsAssumption == Inputs \subseteq [Labels -> CopyLists]

NoLabel == "none"

VARIABLES
  copies_per_block,  \* the input: label -> list of parallel copies
  todo,              \* labels lower_phi_copies has yet to reach
  label,             \* the block being serialised, or NoLabel
  remaining,         \* position -> current source of each pending copy
  next_vreg,         \* the counter of virtual registers, shared by all blocks
  blocks,            \* label -> the moves appended to the block
  env                \* symbolic contents of the registers of the block

vars == <<copies_per_block, todo, label, remaining, next_vreg, blocks, env>>

\* The contents of every register when the moves of a block begin.
StartEnv(n) == [v \in 0 .. (n - 1) |-> VReg(v)]

Init ==
  /\ copies_per_block \in Inputs
  /\ todo = Labels
  /\ label = NoLabel
  /\ remaining = <<>>
  /\ next_vreg = VRegs
  /\ blocks = [l \in Labels |-> <<>>]
  /\ env = StartEnv(VRegs)

Copies == copies_per_block[label]

\* The value a source names in the current contents of the registers.
ValueOf(src) == IF src.kind = "VReg" THEN env[src.n] ELSE src

\* Mutant: self copies are not filtered out.
NotSelfCopyKeepsAll(copies) == DOMAIN copies

\* The copies that are kept: `x <- x' needs no move.
NotSelfCopy(copies) ==
  {i \in DOMAIN copies : copies[i].src # VReg(copies[i].dst)}

\* lower_phi_copies takes its next block; serialize_parallel_copies starts.
StartBlock(l) ==
  /\ label = NoLabel
  /\ l \in todo
  /\ todo' = todo \ {l}
  /\ label' = l
  /\ remaining' = [i \in NotSelfCopy(copies_per_block[l]) |->
                     copies_per_block[l][i].src]
  /\ env' = StartEnv(next_vreg)
  /\ UNCHANGED <<copies_per_block, next_vreg, blocks>>

\* Mutant: an immediate is taken to be ready at once.
ReadyImmediatesFirst(i) ==
  \/ remaining[i].kind = "Const"
  \/ \A j \in DOMAIN remaining : remaining[j] # VReg(Copies[i].dst)

\* The destination of copy i is the register source of no pending copy.
Ready(i) ==
  \A j \in DOMAIN remaining : remaining[j] # VReg(Copies[i].dst)

FirstReady(i) ==
  /\ i \in DOMAIN remaining
  /\ Ready(i)
  /\ \A j \in DOMAIN remaining : j < i => ~Ready(j)

\* The first pending copy with a register source.
FirstRegSource(i) ==
  /\ i \in DOMAIN remaining
  /\ remaining[i].kind = "VReg"
  /\ \A j \in DOMAIN remaining : j < i => remaining[j].kind # "VReg"

Emit(dst, src) ==
  blocks' = [blocks EXCEPT ![label] = Append(@, [dst |-> dst, src |-> src])]

\* Emit the first copy that clobbers nothing still needed.
EmitReady(i) ==
  /\ label # NoLabel
  /\ FirstReady(i)
  /\ Emit(Copies[i].dst, remaining[i])
  /\ env' = [env EXCEPT ![Copies[i].dst] = ValueOf(remaining[i])]
  /\ remaining' = [j \in DOMAIN remaining \ {i} |-> remaining[j]]
  /\ UNCHANGED <<copies_per_block, todo, label, next_vreg>>

\* Mutant: next_vreg is not advanced past the temporary.
BreakCycleReusingTemp(i) ==
  /\ label # NoLabel
  /\ DOMAIN remaining # {}
  /\ \A j \in DOMAIN remaining : ~Ready(j)
  /\ FirstRegSource(i)
  /\ Emit(next_vreg, remaining[i])
  /\ env' = [v \in 0 .. next_vreg |->
               IF v = next_vreg THEN ValueOf(remaining[i]) ELSE env[v]]
  /\ remaining' = [j \in DOMAIN remaining |->
                     IF remaining[j] = remaining[i]
                       THEN VReg(next_vreg) ELSE remaining[j]]
  /\ UNCHANGED <<copies_per_block, todo, label, next_vreg>>

\* Mutant: a turn that finds no ready copy changes nothing.
BreakCycleSpins(i) ==
  /\ label # NoLabel
  /\ DOMAIN remaining # {}
  /\ \A j \in DOMAIN remaining : ~Ready(j)
  /\ FirstRegSource(i)
  /\ UNCHANGED vars

\* No copy is ready: save one source in a fresh register, redirect its uses.
BreakCycle(i) ==
  /\ label # NoLabel
  /\ DOMAIN remaining # {}
  /\ \A j \in DOMAIN remaining : ~Ready(j)
  /\ FirstRegSource(i)
  /\ Emit(next_vreg, remaining[i])
  /\ next_vreg' = next_vreg + 1
  /\ env' = [v \in 0 .. next_vreg |->
               IF v = next_vreg THEN ValueOf(remaining[i]) ELSE env[v]]
  /\ remaining' = [j \in DOMAIN remaining |->
                     IF remaining[j] = remaining[i]
                       THEN VReg(next_vreg) ELSE remaining[j]]
  /\ UNCHANGED <<copies_per_block, todo, label>>

\* The moves of the block are appended to it; the next block may start.
FinishBlock ==
  /\ label # NoLabel
  /\ DOMAIN remaining = {}
  /\ label' = NoLabel
  /\ UNCHANGED <<copies_per_block, todo, remaining, next_vreg, blocks, env>>

Done == label = NoLabel /\ todo = {}

Terminated == Done /\ UNCHANGED vars

Next ==
  \/ \E l \in Labels : StartBlock(l)
  \/ \E i \in 1 .. MaxCopies : EmitReady(i)
  \/ \E i \in 1 .. MaxCopies : BreakCycle(i)
  \/ FinishBlock
  \/ Terminated

Spec == Init /\ [][Next]_vars

\* The loops are sequential code that runs until it is through.
FairSpec == Spec /\ WF_vars(Next)
-----------------------------------------------------------------------------
(***************************************************************************)
(* Properties.                                                             *)
(***************************************************************************)

\* The values the variables may have.
TypeOK ==
  /\ copies_per_block \in [Labels -> CopyLists]
  /\ todo \subseteq Labels
  /\ label \in Labels \cup {NoLabel}
  /\ next_vreg \in Nat /\ next_vreg >= VRegs
  /\ label # NoLabel => /\ DOMAIN remaining \subseteq DOMAIN Copies
                        /\ \A i \in DOMAIN remaining : remaining[i] \in CopySrc
  /\ env \in [0 .. (next_vreg - 1) -> CopySrc]
  /\ blocks \in [Labels -> Seq(Move)]

\* The moves serialize_parallel_copies emitted for a block deliver what the
\* parallel copy would: each dst gets the value its src had when the block's
\* moves began, and no other register of the function changes.
ParallelSemantics ==
  (label # NoLabel /\ DOMAIN remaining = {}) =>
    \A v \in 0 .. (VRegs - 1) :
      IF \E i \in DOMAIN Copies : Copies[i].dst = v
        THEN \A i \in DOMAIN Copies :
               Copies[i].dst = v => env[v] = Copies[i].src
        ELSE env[v] = VReg(v)

\* The registers the moves of block l write that the function did not have.
TempsOf(l) == {blocks[l][k].dst : k \in DOMAIN blocks[l]} \ 0 .. (VRegs - 1)

\* Two blocks never share a temporary, whatever order the HashMap yields the
\* blocks in: next_vreg is one counter for all of them.
TempsUnshared ==
  \A l, m \in Labels : l # m => TempsOf(l) \cap TempsOf(m) = {}

\* The register cycles of a list of copies: the least sets of two registers
\* or more in which each register is copied from, and into, another of the set.
Cycles(copies) ==
  LET CopiedIn(d, s) == \E i \in DOMAIN copies :
                          copies[i].dst = d /\ copies[i].src = VReg(s)
      Closed(C) == \A v \in C : /\ \E s \in C \ {v} : CopiedIn(v, s)
                                /\ \E d \in C \ {v} : CopiedIn(d, v)
      ClosedSets == {C \in SUBSET (0 .. (VRegs - 1)) : C # {} /\ Closed(C)}
  IN  {C \in ClosedSets : \A D \in ClosedSets : D \subseteq C => D = C}

\* The moves of a finished block use one temporary for each register cycle of
\* its copies and no other: chains, fan-outs and immediates cost none, and a
\* cycle is never broken twice.
OneTempPerCycle ==
  \A l \in Labels \ (todo \cup {label}) :
    Cardinality(TempsOf(l)) = Cardinality(Cycles(copies_per_block[l]))

\* The outer loop and the while loop end: each turn of the while removes a
\* copy or makes one ready.
Terminates == <>Done
=============================================================================
