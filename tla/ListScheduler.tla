--------------------------- MODULE ListScheduler ---------------------------
(***************************************************************************)
(* The local list scheduler of crates/vliw-backend/src/lib.rs.  For one    *)
(* basic block list_schedule_syllables builds a dependence DAG over the    *)
(* syllables (build_sched_dag), gives each node its critical-path height   *)
(* (compute_heights) and then issues the syllables one by one, the highest *)
(* ready one first, until all of them are out.                             *)
(*                                                                         *)
(* Nodes are numbered from 1.  A HashMap is a total function with 0 (or an *)
(* empty set) for a missing key.  The Vec `ready' is a set: both of the    *)
(* selections order nodes by keys that end in the node's own number, so    *)
(* the place of a node in the Vec (which swap_remove scrambles) never      *)
(* decides anything.  `out' holds node numbers instead of syllables.       *)
(***************************************************************************)
EXTENDS VliwIsa, Integers, FiniteSets, FiniteSetsExt

CONSTANTS
  Syllables,   \* the syllables blocks are made of
  MaxLen       \* bound on the length of a block

ASSUME SyllablesAssumption == Syllables \subseteq MirSyllable
ASSUME MaxLenAssumption == MaxLen \in Nat

-----------------------------------------------------------------------------
(***************************************************************************)
(* What a syllable reads, writes and touches in memory.                    *)
(***************************************************************************)

\* dest_reg_key, as the set of the keys it returns (none or one).
DestRegKey(syl) ==
  IF syl.dst = NoDst THEN {}
  ELSE IF WritesGpr(syl.opcode) THEN {Key("Gpr", syl.dst)}
  ELSE IF WritesPred(syl.opcode) THEN {Key("Pred", syl.dst)}
  ELSE {}

\* source_reg_keys, without the order and repetitions of the Vec.
SourceRegKeys(syl) ==
  LET class == IF syl.opcode \in PredLogicOps THEN "Pred" ELSE "Gpr"
  IN  {Key(class, syl.srcs[k].n) :
         k \in {k \in DOMAIN syl.srcs : syl.srcs[k].kind = "Reg"}}

IsMemoryOpcode(op) == Units(op) = {"Memory"}

\* memory_bucket and memory_base_value: the base is the first source of a
\* plain load or store; other memory opcodes have no base the code looks at.
MemoryBucket(syl) ==
  IF syl.opcode \notin LoadOps \cup StoreOps \/ syl.srcs = <<>> THEN "Unknown"
  ELSE CASE syl.srcs[1].kind = "Stack" -> "Stack"
         [] syl.srcs[1].kind = "Imm"   -> "Global"
         [] OTHER                      -> "Unknown"

MayAlias(lhs, rhs) == lhs = "Unknown" \/ rhs = "Unknown" \/ lhs = rhs

Keys == UNION {DestRegKey(s) \cup SourceRegKeys(s) : s \in Syllables}

Blocks == UNION {[1 .. n -> Syllables] : n \in 0 .. MaxLen}

-----------------------------------------------------------------------------
VARIABLES
  syllables,     \* the block
  phase,         \* "dag", "schedule" or "done"
  idx,           \* build_sched_dag: the node to add next
  succs,         \* succ_sets, later SchedNode.succs
  last_writer,   \* key -> last node that writes it, or 0
  last_readers,  \* key -> nodes that read it since
  barrier,       \* last_unknown_memory_barrier, or 0
  prior_memory,  \* memory nodes added so far
  preds,         \* SchedNode.unscheduled_preds
  height,        \* SchedNode.height
  ready,         \* nodes all of whose predecessors are scheduled
  scheduled,     \* nodes issued so far
  issue_ready,   \* key -> cycle its value may be read at
  cycle,         \* cycle the next syllable may issue at
  out            \* the nodes in issue order

dagVars == <<idx, succs, last_writer, last_readers, barrier, prior_memory>>
schedVars == <<preds, height, ready, scheduled, issue_ready, cycle, out>>
vars == <<syllables, phase, dagVars, schedVars>>

N == Len(syllables)
Nodes == 1 .. N

Reads(i) == SourceRegKeys(syllables[i])
Writes(i) == DestRegKey(syllables[i])
IsMemory(i) == IsMemoryOpcode(syllables[i].opcode)
Bucket(i) == MemoryBucket(syllables[i])
LatencyOf(i) == Latency(syllables[i].opcode)

Init ==
  /\ syllables \in Blocks
  /\ phase = "dag"
  /\ idx = 1
  /\ succs = [i \in Nodes |-> {}]
  /\ last_writer = [k \in Keys |-> 0]
  /\ last_readers = [k \in Keys |-> {}]
  /\ barrier = 0
  /\ prior_memory = {}
  /\ preds = [i \in Nodes |-> 0]
  /\ height = [i \in Nodes |-> 0]
  /\ ready = {}
  /\ scheduled = {}
  /\ issue_ready = [k \in Keys |-> 0]
  /\ cycle = 0
  /\ out = <<>>

\* A block of at most one syllable is returned as it is.
ReturnShort ==
  /\ phase = "dag"
  /\ N <= 1
  /\ phase' = "done"
  /\ out' = [i \in Nodes |-> i]
  /\ UNCHANGED <<syllables, dagVars, preds, height, ready, scheduled,
                 issue_ready, cycle>>

-----------------------------------------------------------------------------
(***************************************************************************)
(* build_sched_dag: the edges into node i, from the tables as they are     *)
(* when the loop reaches it.                                               *)
(***************************************************************************)

BarrierPreds == {barrier} \ {0}

RawPreds(i) == {last_writer[k] : k \in Reads(i)} \ {0}

\* Mutant: a second write of a register is not ordered after the first.
WawPredsMissing(i) == {}

WawPreds(i) == {last_writer[k] : k \in Writes(i)} \ {0}

\* Mutant: a write is not ordered after the reads of the old value.
WarPredsMissing(i) == {}

WarPreds(i) == (UNION {last_readers[k] : k \in Writes(i)}) \ {i}

MemPreds(i) ==
  IF ~IsMemory(i) THEN {}
  ELSE IF Bucket(i) = "Unknown" THEN 1 .. (i - 1)
  ELSE {p \in prior_memory : MayAlias(Bucket(p), Bucket(i))}

DagPreds(i) ==
  BarrierPreds \cup RawPreds(i) \cup WawPreds(i) \cup WarPreds(i) \cup MemPreds(i)

\* One turn of the loop of build_sched_dag.
AddNode ==
  /\ phase = "dag"
  /\ N > 1
  /\ idx <= N
  /\ succs' = [p \in Nodes |->
                 IF p \in DagPreds(idx) THEN succs[p] \cup {idx} ELSE succs[p]]
  /\ last_writer' = [k \in Keys |->
                       IF k \in Writes(idx) THEN idx ELSE last_writer[k]]
  /\ last_readers' = [k \in Keys |->
                        IF k \in Writes(idx) THEN {}
                        ELSE IF k \in Reads(idx) THEN last_readers[k] \cup {idx}
                        ELSE last_readers[k]]
  /\ barrier' = IF IsMemory(idx) /\ Bucket(idx) = "Unknown" THEN idx ELSE barrier
  /\ prior_memory' = IF IsMemory(idx) THEN prior_memory \cup {idx} ELSE prior_memory
  /\ idx' = idx + 1
  /\ UNCHANGED <<syllables, phase, schedVars>>

PredsOf(j) == {p \in Nodes : j \in succs[p]}

\* Mutant: nodes are visited first to last, while the successors' heights are
\* still 0 but for their own latency.
HeightsForward ==
  [i \in Nodes |-> LatencyOf(i) + Max({0} \cup {LatencyOf(j) : j \in succs[i]})]

\* compute_heights: latency-weighted longest path to a leaf of the DAG.
Heights ==
  LET h[i \in Nodes] == LatencyOf(i) + Max({0} \cup {h[j] : j \in succs[i]})
  IN  h

\* Mutant: the counts leave out the edges of the memory barrier.
StartSchedulingUndercount ==
  /\ phase = "dag"
  /\ N > 1
  /\ idx = N + 1
  /\ phase' = "schedule"
  /\ preds' = [j \in Nodes |-> Cardinality(PredsOf(j) \ {barrier})]
  /\ height' = Heights
  /\ ready' = {j \in Nodes : preds'[j] = 0}
  /\ UNCHANGED <<syllables, dagVars, scheduled, issue_ready, cycle, out>>

\* The counts of build_sched_dag, compute_heights and the first ready nodes.
StartScheduling ==
  /\ phase = "dag"
  /\ N > 1
  /\ idx = N + 1
  /\ phase' = "schedule"
  /\ preds' = [j \in Nodes |-> Cardinality(PredsOf(j))]
  /\ height' = Heights
  /\ ready' = {j \in Nodes : preds'[j] = 0}
  /\ UNCHANGED <<syllables, dagVars, scheduled, issue_ready, cycle, out>>

-----------------------------------------------------------------------------
(***************************************************************************)
(* The scheduling loop.                                                    *)
(***************************************************************************)

\* syllable_required_cycle.
RequiredCycle(i) == Max({0} \cup {issue_ready[k] : k \in Reads(i)})

Issuable == {i \in ready : RequiredCycle(i) <= cycle}

\* pick_ready_node: among the nodes that can issue now, greatest height,
\* then least number.
IsPick(i) ==
  /\ i \in Issuable
  /\ \A j \in Issuable : \/ height[j] < height[i]
                         \/ height[j] = height[i] /\ i <= j

\* The fallback when none can: least required cycle, then greatest height,
\* then least number.
IsFallback(i) ==
  /\ Issuable = {}
  /\ i \in ready
  /\ \A j \in ready :
       \/ RequiredCycle(i) < RequiredCycle(j)
       \/ /\ RequiredCycle(i) = RequiredCycle(j)
          /\ \/ height[j] < height[i]
             \/ height[j] = height[i] /\ i <= j

\* update_ready_after_mir_syllable: r0 never becomes pending.
ReadyAfter(i, at) ==
  [k \in Keys |-> IF k \in Writes(i) \ {Key("Gpr", ZeroReg)}
                    THEN at + LatencyOf(i) ELSE issue_ready[k]]

\* What every mutant of Issue shares with it.
IssueBut(i) ==
  /\ phase = "schedule"
  /\ Len(out) < N
  /\ IsPick(i) \/ IsFallback(i)
  /\ LET at == Max({cycle, RequiredCycle(i)})
     IN  /\ issue_ready' = ReadyAfter(i, at)
         /\ cycle' = at + 1
  /\ scheduled' = scheduled \cup {i}
  /\ out' = Append(out, i)
  /\ UNCHANGED <<syllables, phase, dagVars, height>>

\* Mutant: the counts of the successors are not taken down.
IssueWithoutDecrement(i) ==
  /\ IssueBut(i)
  /\ ready' = ready \ {i}
  /\ UNCHANGED preds

\* Mutant: the issued node stays in ready.
IssueKeepsReady(i) ==
  /\ IssueBut(i)
  /\ UNCHANGED <<preds, ready>>

\* Mutant: when no node can issue the turn ends without advancing the cycle.
IssueSpins(i) ==
  /\ phase = "schedule"
  /\ Len(out) < N
  /\ i \in ready
  /\ Issuable = {}
  /\ UNCHANGED vars

\* One turn of the scheduling loop: issue node i.
Issue(i) ==
  /\ phase = "schedule"
  /\ Len(out) < N
  /\ IsPick(i) \/ IsFallback(i)
  /\ LET at == Max({cycle, RequiredCycle(i)})
     IN  /\ issue_ready' = ReadyAfter(i, at)
         /\ cycle' = at + 1
  /\ scheduled' = scheduled \cup {i}
  /\ out' = Append(out, i)
  /\ preds' = [j \in Nodes |-> IF j \in succs[i] THEN preds[j] - 1 ELSE preds[j]]
  /\ ready' = (ready \ {i})
                \cup {j \in succs[i] : preds'[j] = 0 /\ j \notin scheduled'}
  /\ UNCHANGED <<syllables, phase, dagVars, height>>

Finish ==
  /\ phase = "schedule"
  /\ Len(out) = N
  /\ phase' = "done"
  /\ UNCHANGED <<syllables, dagVars, schedVars>>

Terminated == phase = "done" /\ UNCHANGED vars

Next ==
  \/ ReturnShort
  \/ AddNode
  \/ StartScheduling
  \/ \E i \in Nodes : Issue(i)
  \/ Finish
  \/ Terminated

Spec == Init /\ [][Next]_vars

\* The loops are sequential code that runs until it is through.
FairSpec == Spec /\ WF_vars(Next)
-----------------------------------------------------------------------------
(***************************************************************************)
(* Properties.                                                             *)
(***************************************************************************)

\* The values the variables may have; unscheduled_preds is a usize, so that
\* it never goes below zero is part of it.
TypeOK ==
  /\ syllables \in Blocks
  /\ phase \in {"dag", "schedule", "done"}
  /\ idx \in 1 .. (N + 1)
  /\ succs \in [Nodes -> SUBSET Nodes]
  /\ last_writer \in [Keys -> 0 .. N]
  /\ last_readers \in [Keys -> SUBSET Nodes]
  /\ barrier \in 0 .. N
  /\ prior_memory \subseteq Nodes
  /\ preds \in [Nodes -> Nat]
  /\ ready \subseteq Nodes
  /\ scheduled \subseteq Nodes
  /\ out \in Seq(Nodes)

\* Two nodes of a block whose order the program can observe: one writes a
\* register or predicate the other reads or writes, or both access memory
\* that may be the same.
RegConflict(i, j) ==
  \/ Writes(i) \cap Reads(j) # {}
  \/ Reads(i) \cap Writes(j) # {}
  \/ Writes(i) \cap Writes(j) # {}

MemConflict(i, j) == IsMemory(i) /\ IsMemory(j) /\ MayAlias(Bucket(i), Bucket(j))

MustPrecede(i, j) == i < j /\ (RegConflict(i, j) \/ MemConflict(i, j))

\* The scheduler never issues a node before one it must follow, although the
\* DAG holds only the edges to the last writer, the readers since and the last
\* barrier, and the loop counts edges instead of looking at them.
DependencesKept ==
  \A a, b \in DOMAIN out : MustPrecede(out[a], out[b]) => a < b

\* `expect("DAG scheduler must have a ready node")' never fails: while a node
\* is left, one is ready.
ReadyNodeExists == (phase = "schedule" /\ Len(out) < N) => ready # {}

\* The scheduled block has every syllable of the block once.
Permutation ==
  phase = "done" => /\ Len(out) = N
                    /\ \A i \in Nodes : \E a \in DOMAIN out : out[a] = i

\* The storage of the machine at the grain the scheduler knows it: registers,
\* predicates and two regions of memory.  A plain load or store of a region
\* touches that region; any other memory operation may touch both.  A store
\* leaves some of the region, so it also reads it.
Region(name) == [class |-> "Mem", reg |-> name]

Regions(i) ==
  IF ~IsMemory(i) THEN {}
  ELSE {Region(r) : r \in IF Bucket(i) = "Unknown" THEN {"Stack", "Global"}
                                                   ELSE {Bucket(i)}}

Uses(i) == Reads(i) \cup Regions(i)

Defines(i) ==
  Writes(i) \cup IF WritesMem(syllables[i].opcode) THEN Regions(i) ELSE {}

\* The node whose result location c holds when position k of order runs.
Producer(order, k, c) ==
  LET before == {m \in 1 .. (k - 1) : c \in Defines(order[m])}
  IN  IF before = {} THEN 0 ELSE order[Max(before)]

SourceOrder == [i \in Nodes |-> i]

\* Running the scheduled block gives every syllable the operands it had in
\* source order and leaves the same values in every location: what the
\* packed schedule has to share with the scalar one.
SameDataflow ==
  phase = "done" =>
    /\ \A a \in DOMAIN out : \A c \in Uses(out[a]) :
         Producer(out, a, c) = Producer(SourceOrder, out[a], c)
    /\ \A c \in UNION {Defines(i) : i \in Nodes} :
         Producer(out, N + 1, c) = Producer(SourceOrder, N + 1, c)

\* compute_heights visits nodes from the last to the first; the result is the
\* latency of the heaviest dependence path that starts at the node.
Paths(i) ==
  {P \in SUBSET Nodes :
     /\ i \in P
     /\ \A p \in P : i <= p
     /\ \A p, q \in P :
          (p < q /\ \A r \in P : ~(p < r /\ r < q)) => q \in succs[p]}

PathLatency(P) == MapThenSumSet(LatencyOf, P)

HeightIsCriticalPath ==
  phase = "schedule" =>
    \A i \in Nodes : height[i] = Max({PathLatency(P) : P \in Paths(i)})

\* list_schedule_syllables returns.
Terminates == <>(phase = "done")
=============================================================================
