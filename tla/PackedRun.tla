----------------------------- MODULE PackedRun -----------------------------
(***************************************************************************)
(* The compiler composed with the processor that runs what it emits.  Once *)
(* the program is verified the processor issues its bundles, one per       *)
(* cycle, and follows its branches.  The processor is the repository's     *)
(* external simulator, modelled from the latencies and the control opcodes *)
(* the back end compiles for.                                              *)
(*                                                                         *)
(* due counts the cycles a pending result still takes, so that programs    *)
(* with loops have finitely many states.                                   *)
(***************************************************************************)
EXTENDS Packer

VARIABLES
  pc,    \* the item the processor is at; 0 once it has returned
  due    \* register -> cycles until its pending result may be read

runVars == <<vars, pc, due>>

RunInit == Init /\ pc = 1 /\ due = NothingPending

Compile == Next /\ UNCHANGED <<pc, due>>

\* A label takes no cycle.
PassLabel ==
  /\ phase = "done"
  /\ pc \in DOMAIN packed
  /\ ~IsBundle(packed[pc])
  /\ pc' = pc + 1
  /\ UNCHANGED <<vars, due>>

LabelPosition(l) ==
  {i \in DOMAIN packed : ~IsBundle(packed[i]) /\ packed[i].label = l}

\* The items that may follow the bundle at pc: a branch goes either way.
Successors ==
  LET bundle == packed[pc].bundle
      ops == {bundle[s].opcode : s \in DOMAIN bundle}
      targets == UNION {{bundle[s].operands[k].n :
                           k \in Sources(bundle[s], "Label", FALSE)} : s \in DOMAIN bundle}
      taken == UNION {LabelPosition(l) : l \in targets}
  IN  CASE "ret" \in ops -> {0}
        [] "jmp" \in ops -> taken
        [] "br" \in ops  -> taken \cup {pc + 1}
        [] OTHER         -> {pc + 1}

\* One cycle: the bundle issues, every pending result comes one cycle nearer.
IssueBundle ==
  /\ phase = "done"
  /\ pc \in DOMAIN packed
  /\ IsBundle(packed[pc])
  /\ LET after == ReadyAfterBundle(due, packed[pc].bundle, 0)
     IN  due' = [k \in {j \in DOMAIN after : after[j] > 1} |-> after[k] - 1]
  /\ pc' \in Successors
  /\ UNCHANGED vars

RunNext == Compile \/ PassLabel \/ IssueBundle

RunSpec == RunInit /\ [][RunNext]_runVars

\* "Stall-free schedule" (README.md): on every path through the program, every
\* bundle issues with its sources ready, so that the processor never waits.
StallFreeOnEveryPath ==
  (phase = "done" /\ pc \in DOMAIN packed /\ IsBundle(packed[pc])) =>
    BundleRequiredCycle(due, packed[pc].bundle) = 0
=============================================================================
