------------------------------ MODULE Liveness ------------------------------
(***************************************************************************)
(* Liveness analysis, crates/vliw-backend/src/liveness.rs: a backward      *)
(* dataflow iteration over the blocks of a function until a sweep changes  *)
(* nothing.                                                                *)
(*                                                                         *)
(* A LiveSet is the set of the bits that are 1.  It has LiveSetBits bits;  *)
(* a release build masks the shift count of `1u64 << idx', so inserting a  *)
(* larger index sets a lower bit (a debug build panics instead), while     *)
(* contains answers false.                                                 *)
(***************************************************************************)
EXTENDS Mir

CONSTANTS
  Functions,     \* the MIR functions to analyse
  LiveSetBits    \* 64 in the code

ASSUME LiveSetBitsAssumption == LiveSetBits \in Nat \ {0}

\* A function is a sequence of blocks whose virtual registers are numbered.
ASSUME FunctionsAssumption ==
  \A f \in Functions :
    /\ Len(f) \in Nat /\ DOMAIN f = 1 .. Len(f)
    /\ \A b \in DOMAIN f :
         /\ Len(f[b].syllables) \in Nat
         /\ DOMAIN f[b].syllables = 1 .. Len(f[b].syllables)
         /\ \A k \in DOMAIN f[b].syllables :
              Uses(f[b].syllables[k]) \cup Defs(f[b].syllables[k]) \subseteq Nat
         /\ TermUses(f[b].terminator) \subseteq Nat

\* Instruction selection gives every block a label of its own, and lays out the
\* continuation of a call behind it.
ASSUME LayoutAssumption ==
  \A f \in Functions :
    /\ \A b, c \in DOMAIN f : f[b].label = f[c].label => b = c
    /\ \A b \in DOMAIN f :
         /\ f[b].terminator.op \in {"br", "jmp", "ret", "call"}
         /\ f[b].terminator.op = "call" =>
              \A c \in DOMAIN f : f[c].label = f[b].terminator.label <=> c = b + 1

LiveSet == SUBSET (0 .. (LiveSetBits - 1))

\* LiveSet::insert, as the bit it sets.
Bit(idx) == idx % LiveSetBits

Contains(set, idx) == idx < LiveSetBits /\ idx \in set

\* Mutant: exclusive or instead of or.
UnionXor(s, t) == (s \ t) \cup (t \ s)

Union(s, t) == s \cup t

Difference(s, t) == s \ t

VARIABLES
  func,            \* the function analysed
  use_before_def,  \* BlockInfo of every block: registers read before written,
  def,             \* registers written,
  live_in,         \* registers live at its start
  live_out,        \* and at its end
  successors,      \* block -> blocks that may follow it
  i,               \* blocks still to visit in this sweep: i, i - 1, ..., 1
  changed,         \* whether the sweep changed a set
  phase            \* "local", "sweep" or "done"

local == <<func, use_before_def, def, successors>>

vars == <<local, live_in, live_out, i, changed, phase>>

Blocks == DOMAIN func

\* def after the first k syllables of block b.
DefAfter(b, k) == UNION {{Bit(v) : v \in Defs(func[b].syllables[j])} : j \in 1 .. k}

\* The used registers that def does not contain after n syllables of block b.
NotYetDefined(b, used, n) == {Bit(v) : v \in {u \in used : ~Contains(DefAfter(b, n), u)}}

\* The uses of block b that come before a definition.
UseBeforeDef(b) ==
  LET syls == func[b].syllables
  IN  (UNION {NotYetDefined(b, Uses(syls[k]), k - 1) : k \in DOMAIN syls})
        \cup NotYetDefined(b, TermUses(func[b].terminator), Len(syls))

\* label_to_idx: a HashMap filled in layout order, so the last block counts.
BlockAt(l) ==
  {j \in DOMAIN func :
     func[j].label = l /\ \A k \in DOMAIN func : func[k].label = l => k <= j}

\* Mutant: a branch that is not taken goes nowhere.
SuccessorsNoFallThrough(b) ==
  IF func[b].terminator.op = "ret" THEN {} ELSE BlockAt(func[b].terminator.label)

\* The blocks control may go to from the end of block b; a conditional branch
\* that is not taken falls through to the next block of the layout.
Successors(b) ==
  LET term == func[b].terminator
      target == IF term.op = "ret" THEN {} ELSE BlockAt(term.label)
      fall == IF term.op = "br" THEN {b + 1} \cap DOMAIN func ELSE {}
  IN  target \cup fall

\* vec![BlockInfo::default(); n].
NoneLive == [b \in Blocks |-> {}]

Init ==
  /\ func \in Functions
  /\ use_before_def = NoneLive
  /\ def = NoneLive
  /\ live_in = NoneLive
  /\ live_out = NoneLive
  /\ successors = NoneLive
  /\ i = Len(func)
  /\ changed = FALSE
  /\ phase = "local"

\* Pass 1, and the successor lists.
ComputeLocal ==
  /\ phase = "local"
  /\ use_before_def' = [b \in Blocks |-> UseBeforeDef(b)]
  /\ def' = [b \in Blocks |-> DefAfter(b, Len(func[b].syllables))]
  /\ successors' = [b \in Blocks |-> Successors(b)]
  /\ phase' = "sweep"
  /\ UNCHANGED <<func, live_in, live_out, i, changed>>

\* The right-hand sides of the dataflow equations, for live-in sets S.
LiveOutOf(S, b) == UNION {S[s] : s \in successors[b]}

LiveInOf(S, b) == Union(use_before_def[b], Difference(LiveOutOf(S, b), def[b]))

\* Mutant: only a new live_out counts as a change.
VisitBlockOutOnly ==
  /\ phase = "sweep"
  /\ i > 0
  /\ live_out' = [live_out EXCEPT ![i] = LiveOutOf(live_in, i)]
  /\ live_in' = [live_in EXCEPT ![i] = LiveInOf(live_in, i)]
  /\ changed' = (changed \/ LiveOutOf(live_in, i) # live_out[i])
  /\ i' = i - 1
  /\ UNCHANGED <<local, phase>>

\* One turn of the inner loop.
VisitBlock ==
  /\ phase = "sweep"
  /\ i > 0
  /\ live_out' = [live_out EXCEPT ![i] = LiveOutOf(live_in, i)]
  /\ live_in' = [live_in EXCEPT ![i] = LiveInOf(live_in, i)]
  /\ changed' = (changed \/ LiveOutOf(live_in, i) # live_out[i] \/ LiveInOf(live_in, i) # live_in[i])
  /\ i' = i - 1
  /\ UNCHANGED <<local, phase>>

\* Mutant: changed is not reset for the next sweep.
NextSweepKeepsChanged ==
  /\ phase = "sweep"
  /\ i = 0
  /\ changed
  /\ i' = Len(func)
  /\ UNCHANGED <<local, live_in, live_out, changed, phase>>

NextSweep ==
  /\ phase = "sweep"
  /\ i = 0
  /\ changed
  /\ i' = Len(func)
  /\ changed' = FALSE
  /\ UNCHANGED <<local, live_in, live_out, phase>>

Finish ==
  /\ phase = "sweep"
  /\ i = 0
  /\ ~changed
  /\ phase' = "done"
  /\ UNCHANGED <<local, live_in, live_out, i, changed>>

Terminated == phase = "done" /\ UNCHANGED vars

Next == ComputeLocal \/ VisitBlock \/ NextSweep \/ Finish \/ Terminated

Spec == Init /\ [][Next]_vars

\* The loop is sequential code that runs until it is through.
FairSpec == Spec /\ WF_vars(Next)
-----------------------------------------------------------------------------
(***************************************************************************)
(* Properties.                                                             *)
(***************************************************************************)

\* The dataflow equations of liveness.rs, for live-in sets S.
IsSolution(S) == \A b \in Blocks : S[b] = LiveInOf(S, b)

\* At every moment of the iteration the sets are below every solution of the
\* dataflow equations, and when Liveness::compute returns they are one: the
\* loop does not stop early and does not invent a live register.
LeastSolution ==
  /\ phase = "sweep" =>
       \A S \in [Blocks -> LiveSet] :
         IsSolution(S) => \A b \in Blocks : live_in[b] \subseteq S[b]
  /\ phase = "done" =>
       /\ IsSolution(live_in)
       /\ \A b \in Blocks : live_out[b] = LiveOutOf(live_in, b)

\* The registers func mentions.
Mentioned ==
  UNION {(UNION {Uses(func[b].syllables[k]) \cup Defs(func[b].syllables[k]) :
                   k \in DOMAIN func[b].syllables})
           \cup TermUses(func[b].terminator) : b \in Blocks}

\* "Bit i is set when VReg(i) is a member of the set" (the comment on LiveSet):
\* what the allocator learns from live_out.contains(v) is whether a path from the
\* end of the block reaches a read of v before a write, loops and branches over
\* several blocks included, as long as every register has a bit.
ExactLiveness ==
  (phase = "done" /\ Mentioned \subseteq 0 .. (LiveSetBits - 1)) =>
    \A b \in Blocks : \A v \in Mentioned :
      Contains(live_out[b], v) <=> LiveAtEnd(func, b, v)

\* No step of the iteration takes a register out of a set; with finitely many
\* bits this is why the loop ends.
SetsOnlyGrow ==
  [][\A b \in Blocks : live_in[b] \subseteq live_in'[b] /\ live_out[b] \subseteq live_out'[b]]_vars

\* The loop of Liveness::compute ends for every function.
Terminates == <>(phase = "done")
=============================================================================
