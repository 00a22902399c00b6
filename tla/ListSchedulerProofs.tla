------------------------ MODULE ListSchedulerProofs ------------------------
(***************************************************************************)
(* Theorems about ListScheduler, for blocks of any length over any         *)
(* syllables: the schedule keeps every dependence, is a permutation of the *)
(* block, reads every operand from the writer the block has for it, the    *)
(* loop always finds a ready node, and the heights it issues by are the    *)
(* latencies of the heaviest dependence paths.                             *)
(*                                                                         *)
(* The DAG has few edges: to a register's last writer, from its readers    *)
(* since, to the last barrier.  The argument is therefore about paths: a   *)
(* node that must precede another reaches it.  The set of unscheduled      *)
(* nodes is closed under edges, hence under paths, so a node cannot be     *)
(* issued while a node it must follow is not.                              *)
(***************************************************************************)
EXTENDS ListScheduler, FiniteSetTheorems, WellFoundedInduction, TLAPS

\* Node j is reached from node i: it is in every set of nodes that has i and
\* is closed under the edges.
Reaches(edges, i, j) ==
  \A S \in SUBSET Nodes :
    (i \in S /\ \A p \in S : edges[p] \subseteq S) => j \in S

\* The edges go forward, to nodes already added.
EdgesForward == \A p \in Nodes : \A j \in succs[p] : p < j /\ j < idx

TablesBelow ==
  /\ \A k \in Keys : last_writer[k] < idx
  /\ \A k \in Keys : \A r \in last_readers[k] : r < idx
  /\ barrier < idx
  /\ \A m \in prior_memory : m < idx

\* Every earlier writer of a register reaches its last writer ...
WritersReach ==
  \A k \in Keys : \A w \in 1 .. (idx - 1) :
    k \in Writes(w) => last_writer[k] # 0 /\ Reaches(succs, w, last_writer[k])

\* ... and every earlier reader is on the list or reaches it too ...
ReadersReach ==
  \A k \in Keys : \A r \in 1 .. (idx - 1) :
    k \in Reads(r) =>
      \/ r \in last_readers[k]
      \/ last_writer[k] # 0 /\ Reaches(succs, r, last_writer[k])

\* ... and every earlier unknown memory access reaches the last one.
BarriersReach ==
  \A u \in 1 .. (idx - 1) :
    IsMemory(u) /\ Bucket(u) = "Unknown" =>
      barrier # 0 /\ Reaches(succs, u, barrier)

MemoryListed == \A m \in 1 .. (idx - 1) : IsMemory(m) => m \in prior_memory

\* Among the nodes already added, a node reaches all those that must follow.
ConflictsReach ==
  \A i, j \in 1 .. (idx - 1) : MustPrecede(i, j) => Reaches(succs, i, j)

DagInv ==
  /\ EdgesForward /\ TablesBelow
  /\ WritersReach /\ ReadersReach /\ BarriersReach /\ MemoryListed
  /\ ConflictsReach

Unscheduled == Nodes \ scheduled

\* The predecessors of j that are still to be issued.
Pending(j) == {p \in Unscheduled : j \in succs[p]}

SchedInv ==
  /\ idx = N + 1
  /\ \A p \in Unscheduled : succs[p] \subseteq Unscheduled
  /\ \A j \in Nodes : preds[j] = Cardinality(Pending(j))
  /\ ready = {j \in Unscheduled : preds[j] = 0}
  /\ scheduled = {out[a] : a \in DOMAIN out}
  /\ Cardinality(scheduled) = Len(out)

IInv ==
  /\ TypeOK
  /\ DagInv
  /\ DependencesKept
  /\ phase = "dag" => scheduled = {} /\ out = <<>>
  /\ phase = "schedule" => SchedInv
  /\ Permutation

-----------------------------------------------------------------------------
\* Reaching is reflexive, follows edges, is transitive, and survives the
\* addition of edges.
LEMMA ReachesSelf == \A e, i : Reaches(e, i, i)
BY DEF Reaches

\* An edge of the dependence DAG is a path.
LEMMA ReachesEdge ==
  ASSUME NEW e \in [Nodes -> SUBSET Nodes], NEW i \in Nodes, NEW j \in e[i]
  PROVE  Reaches(e, i, j)
BY DEF Reaches

\* Paths of the dependence DAG compose.
LEMMA ReachesTrans ==
  ASSUME NEW e, NEW i, NEW j, NEW k, Reaches(e, i, j), Reaches(e, j, k)
  PROVE  Reaches(e, i, k)
BY DEF Reaches

\* Adding edges to the DAG keeps its paths.
LEMMA ReachesMono ==
  ASSUME NEW e \in [Nodes -> SUBSET Nodes], NEW f \in [Nodes -> SUBSET Nodes],
         \A p \in Nodes : e[p] \subseteq f[p],
         NEW i, NEW j, Reaches(e, i, j)
  PROVE  Reaches(f, i, j)
BY DEF Reaches

\* A block is a sequence of syllables, and its nodes are its positions.
LEMMA BlockFacts ==
  ASSUME syllables \in Blocks
  PROVE  /\ N \in Nat /\ DOMAIN syllables = Nodes
         /\ \A i \in Nodes : i \in Nat /\ i > 0 /\ syllables[i] \in Syllables
         /\ \A i \in Nodes : Reads(i) \subseteq Keys /\ Writes(i) \subseteq Keys
<1>1. PICK n \in 0 .. MaxLen : syllables \in [1 .. n -> Syllables]
  BY DEF Blocks
<1>2. n \in Nat
  BY MaxLenAssumption
<1>3. syllables \in Seq(Syllables) /\ Len(syllables) = n
  BY <1>1, <1>2
<1>4. \A i \in Nodes : syllables[i] \in Syllables
  BY <1>1, <1>3 DEF Nodes, N
<1>5. \A i \in Nodes : Reads(i) \subseteq Keys /\ Writes(i) \subseteq Keys
  <2> SUFFICES ASSUME NEW i \in Nodes
               PROVE  Reads(i) \subseteq Keys /\ Writes(i) \subseteq Keys
    OBVIOUS
  <2>1. syllables[i] \in Syllables
    BY <1>4
  <2> QED
    BY <2>1 DEF Reads, Writes, Keys
<1> QED
  BY <1>1, <1>2, <1>3, <1>4, <1>5 DEF Nodes, N

\* A non-empty set of natural numbers has a least element.
LEMMA LeastElement ==
  ASSUME NEW T \in SUBSET Nat, T # {}
  PROVE  \E x \in T : \A y \in T : x <= y
<1> DEFINE R == {ss \in Nat \X Nat : ss[1] < ss[2]}
<1>1. R = OpToRel(<, Nat)
  BY DEF OpToRel
<1>2. IsWellFoundedOn(R, Nat)
  BY <1>1, NatLessThanWellFounded
<1>3. PICK x \in T : \A y \in T : ~(<<y, x>> \in R)
  <2> HIDE DEF R
  <2> QED
    BY <1>2, WFMin
<1>4. ASSUME NEW y \in T PROVE x <= y
  <2>1. x \in Nat /\ y \in Nat
    OBVIOUS
  <2>2. y < x => <<y, x>> \in R
    BY <2>1
  <2> QED
    BY <2>1, <2>2, <1>3
<1> QED
  BY <1>4

-----------------------------------------------------------------------------
\* The invariant holds when list_schedule_syllables is entered.
LEMMA InitIInv == Init => IInv
<1> SUFFICES ASSUME Init PROVE IInv
  OBVIOUS
<1>1. N \in Nat /\ DOMAIN syllables = Nodes
  BY BlockFacts DEF Init
<1>2. idx = 1 /\ 1 .. (idx - 1) = {}
  BY DEF Init
<1>3. TypeOK
  BY <1>1 DEF Init, TypeOK
<1>4. DagInv
  BY <1>1, <1>2 DEF Init, DagInv, EdgesForward, TablesBelow, WritersReach,
     ReadersReach, BarriersReach, MemoryListed, ConflictsReach, Nodes
<1>5. DependencesKept
  BY DEF Init, DependencesKept
<1> QED
  BY <1>3, <1>4, <1>5 DEF Init, IInv, Permutation

\* What one turn of build_sched_dag does to the edges: it adds edges from the
\* nodes DagPreds names to the new node, all of them forward.
LEMMA AddNodeEdges ==
  ASSUME IInv, AddNode
  PROVE  /\ idx \in Nodes /\ idx' = idx + 1
         /\ syllables' = syllables /\ Nodes' = Nodes /\ N' = N
         /\ succs \in [Nodes -> SUBSET Nodes]
         /\ succs' \in [Nodes -> SUBSET Nodes]
         /\ \A p \in Nodes : succs[p] \subseteq succs'[p]
         /\ \A p \in Nodes : p \in DagPreds(idx) => idx \in succs'[p]
         /\ \A p \in Nodes : \A j \in succs'[p] :
              j \in succs[p] \/ (j = idx /\ p \in DagPreds(idx))
<1>1. N \in Nat
  BY BlockFacts DEF IInv, TypeOK
<1>2. idx \in Nodes
  BY <1>1 DEF IInv, TypeOK, AddNode, Nodes
<1>3. syllables' = syllables /\ Nodes' = Nodes /\ N' = N /\ idx' = idx + 1
  BY DEF AddNode, Nodes, N
<1>4. /\ succs \in [Nodes -> SUBSET Nodes]
      /\ succs' = [p \in Nodes |->
                     IF p \in DagPreds(idx) THEN succs[p] \cup {idx} ELSE succs[p]]
  BY DEF IInv, TypeOK, AddNode
<1> QED
  BY <1>2, <1>3, <1>4

\* The predecessors of the new node are earlier nodes.
LEMMA DagPredsBelow ==
  ASSUME IInv, AddNode
  PROVE  DagPreds(idx) \subseteq {p \in Nodes : p < idx}
<1>1. N \in Nat /\ idx \in Nodes /\ Reads(idx) \subseteq Keys /\ Writes(idx) \subseteq Keys
  BY BlockFacts, AddNodeEdges DEF IInv, TypeOK
<1>2. /\ last_writer \in [Keys -> 0 .. N] /\ last_readers \in [Keys -> SUBSET Nodes]
      /\ barrier \in 0 .. N /\ prior_memory \subseteq Nodes
      /\ TablesBelow
  BY DEF IInv, TypeOK, DagInv
<1>3. BarrierPreds \subseteq {p \in Nodes : p < idx}
  BY <1>1, <1>2 DEF BarrierPreds, TablesBelow, Nodes
<1>4. RawPreds(idx) \cup WawPreds(idx) \subseteq {p \in Nodes : p < idx}
  BY <1>1, <1>2 DEF RawPreds, WawPreds, TablesBelow, Nodes
<1>5. WarPreds(idx) \subseteq {p \in Nodes : p < idx}
  BY <1>1, <1>2 DEF WarPreds, TablesBelow
<1>6. MemPreds(idx) \subseteq {p \in Nodes : p < idx}
  <2>1. 1 .. (idx - 1) \subseteq {p \in Nodes : p < idx}
    BY <1>1 DEF Nodes
  <2>2. prior_memory \subseteq {p \in Nodes : p < idx}
    BY <1>2 DEF IInv, DagInv, TablesBelow
  <2> QED
    BY <2>1, <2>2 DEF MemPreds
<1> QED
  BY <1>3, <1>4, <1>5, <1>6 DEF DagPreds

\* A path to a predecessor of the new node becomes a path to the new node.
LEMMA ReachesNew ==
  ASSUME IInv, AddNode, NEW i, NEW p, Reaches(succs, i, p), p \in DagPreds(idx)
  PROVE  Reaches(succs', i, idx)
<1>1. p \in Nodes /\ idx \in succs'[p]
  BY DagPredsBelow, AddNodeEdges
<1>2. Reaches(succs', p, idx)
  BY <1>1, AddNodeEdges, ReachesEdge
<1>3. Reaches(succs', i, p)
  BY AddNodeEdges, ReachesMono
<1> QED
  BY <1>2, <1>3, ReachesTrans

\* The heart of build_sched_dag: every earlier node that must precede the new
\* one reaches it, by an edge or through the last writer or the barrier.
LEMMA NewConflictsReach ==
  ASSUME IInv, AddNode, NEW i \in 1 .. (idx - 1)
  PROVE  /\ (Writes(i) \cap Reads(idx) # {} \/ Writes(i) \cap Writes(idx) # {})
              => Reaches(succs', i, idx)
         /\ Reads(i) \cap Writes(idx) # {} => Reaches(succs', i, idx)
         /\ IsMemory(idx) /\ Bucket(idx) = "Unknown" => Reaches(succs', i, idx)
         /\ MemConflict(i, idx) => Reaches(succs', i, idx)
<1>1. /\ N \in Nat /\ idx \in Nodes /\ i \in Nodes /\ i < idx /\ i # idx
      /\ Reads(idx) \subseteq Keys /\ Writes(idx) \subseteq Keys
      /\ Reads(i) \subseteq Keys /\ Writes(i) \subseteq Keys
  <2>1. N \in Nat /\ idx \in Nodes
    BY BlockFacts, AddNodeEdges DEF IInv, TypeOK
  <2>2. i \in Nodes /\ i < idx /\ i # idx
    BY <2>1 DEF Nodes
  <2> QED
    BY <2>1, <2>2, BlockFacts DEF IInv, TypeOK
<1>2. DagInv
  BY DEF IInv
<1>3. Reaches(succs, i, i)
  BY ReachesSelf
<1>4. ASSUME NEW k \in Keys, k \in Writes(i), k \in Reads(idx) \/ k \in Writes(idx)
      PROVE  Reaches(succs', i, idx)
  <2>1. last_writer[k] # 0 /\ Reaches(succs, i, last_writer[k])
    BY <1>2, <1>4 DEF DagInv, WritersReach
  <2>2. last_writer[k] \in DagPreds(idx)
    BY <1>4, <2>1 DEF DagPreds, RawPreds, WawPreds
  <2> QED
    BY <2>1, <2>2, ReachesNew
<1>5. ASSUME NEW k \in Keys, k \in Reads(i), k \in Writes(idx)
      PROVE  Reaches(succs', i, idx)
  <2>1. CASE i \in last_readers[k]
    <3>1. i \in DagPreds(idx)
      BY <1>1, <1>5, <2>1 DEF DagPreds, WarPreds
    <3> QED
      BY <3>1, <1>3, ReachesNew
  <2>2. CASE last_writer[k] # 0 /\ Reaches(succs, i, last_writer[k])
    <3>1. last_writer[k] \in DagPreds(idx)
      BY <1>5, <2>2 DEF DagPreds, WawPreds
    <3> QED
      BY <3>1, <2>2, ReachesNew
  <2> QED
    BY <2>1, <2>2, <1>2, <1>5 DEF DagInv, ReadersReach
<1>6. ASSUME IsMemory(idx), Bucket(idx) = "Unknown"
      PROVE  Reaches(succs', i, idx)
  <2>1. i \in DagPreds(idx)
    BY <1>6 DEF DagPreds, MemPreds
  <2> QED
    BY <2>1, <1>3, ReachesNew
<1>7. ASSUME MemConflict(i, idx)
      PROVE  Reaches(succs', i, idx)
  <2>1. CASE Bucket(idx) = "Unknown"
    BY <2>1, <1>6, <1>7 DEF MemConflict
  <2>2. CASE Bucket(i) = "Unknown"
    <3>1. barrier # 0 /\ Reaches(succs, i, barrier)
      BY <2>2, <1>2, <1>7 DEF DagInv, BarriersReach, MemConflict
    <3>2. barrier \in DagPreds(idx)
      BY <3>1 DEF DagPreds, BarrierPreds
    <3> QED
      BY <3>1, <3>2, ReachesNew
  <2>3. CASE Bucket(idx) # "Unknown" /\ Bucket(i) # "Unknown"
    <3>1. i \in prior_memory
      BY <1>2, <1>7 DEF DagInv, MemoryListed, MemConflict
    <3>2. i \in DagPreds(idx)
      BY <3>1, <2>3, <1>7 DEF DagPreds, MemPreds, MemConflict
    <3> QED
      BY <3>2, <1>3, ReachesNew
  <2> QED
    BY <2>1, <2>2, <2>3
<1> QED
  BY <1>1, <1>4, <1>5, <1>6, <1>7

\* Adding a node preserves the invariant of the tables and the DAG.
LEMMA AddNodeStep ==
  ASSUME IInv, AddNode
  PROVE  IInv'
<1>1. /\ idx \in Nodes /\ idx' = idx + 1 /\ N \in Nat /\ idx \in Nat /\ idx > 0
      /\ syllables' = syllables /\ Nodes' = Nodes /\ N' = N
      /\ phase = "dag" /\ phase' = "dag"
      /\ preds' = preds /\ ready' = ready /\ scheduled' = scheduled /\ out' = out
      /\ 1 .. (idx' - 1) = 1 .. (idx - 1) \cup {idx}
      /\ \A x \in 1 .. (idx - 1) : x \in Nodes /\ x < idx
  <2>1. idx \in Nodes /\ idx' = idx + 1 /\ N \in Nat /\ idx \in Nat /\ idx > 0
    BY BlockFacts, AddNodeEdges DEF IInv, TypeOK
  <2> QED
    BY <2>1, AddNodeEdges DEF AddNode, schedVars, Nodes
<1>2. /\ \A i : Reads(i)' = Reads(i) /\ Writes(i)' = Writes(i)
      /\ \A i : IsMemory(i)' = IsMemory(i) /\ Bucket(i)' = Bucket(i)
      /\ \A i, j : MustPrecede(i, j)' = MustPrecede(i, j)
      /\ \A i, j : Reaches(succs, i, j)' = Reaches(succs', i, j)
  BY <1>1 DEF Reads, Writes, IsMemory, Bucket, MustPrecede, RegConflict,
              MemConflict, Reaches
<1>3. /\ last_writer' = [k \in Keys |->
                          IF k \in Writes(idx) THEN idx ELSE last_writer[k]]
      /\ last_readers' = [k \in Keys |->
                           IF k \in Writes(idx) THEN {}
                           ELSE IF k \in Reads(idx) THEN last_readers[k] \cup {idx}
                           ELSE last_readers[k]]
      /\ barrier' = IF IsMemory(idx) /\ Bucket(idx) = "Unknown" THEN idx ELSE barrier
      /\ prior_memory' = IF IsMemory(idx) THEN prior_memory \cup {idx} ELSE prior_memory
  BY DEF AddNode
<1>4. /\ last_writer \in [Keys -> 0 .. N] /\ last_readers \in [Keys -> SUBSET Nodes]
      /\ barrier \in 0 .. N /\ prior_memory \subseteq Nodes
      /\ syllables \in Blocks /\ preds \in [Nodes -> Nat] /\ ready \subseteq Nodes
      /\ scheduled \subseteq Nodes /\ out \in Seq(Nodes)
      /\ DagInv
  BY DEF IInv, TypeOK
<1>5. ASSUME NEW i, NEW j, Reaches(succs, i, j) PROVE Reaches(succs', i, j)
  BY <1>5, AddNodeEdges, ReachesMono
<1>6. TypeOK'
  <2>1. idx' \in 1 .. (N + 1)
    BY <1>1 DEF Nodes
  <2>2. /\ last_writer' \in [Keys -> 0 .. N] /\ last_readers' \in [Keys -> SUBSET Nodes]
        /\ barrier' \in 0 .. N /\ prior_memory' \subseteq Nodes
    BY <1>1, <1>3, <1>4 DEF Nodes
  <2> QED
    BY <2>1, <2>2, <1>1, <1>4, AddNodeEdges DEF TypeOK
<1>7. EdgesForward'
  <2> SUFFICES ASSUME NEW p \in Nodes, NEW j \in succs'[p]
               PROVE  p < j /\ j < idx'
    BY <1>1 DEF EdgesForward
  <2>1. p \in Nat
    BY <1>1 DEF Nodes
  <2>2. CASE j \in succs[p]
    <3>1. p < j /\ j < idx /\ j \in Nodes
      BY <2>2, <1>4, AddNodeEdges DEF DagInv, EdgesForward
    <3> QED
      BY <3>1, <1>1 DEF Nodes
  <2>3. CASE j = idx /\ p \in DagPreds(idx)
    BY <2>1, <2>3, <1>1, DagPredsBelow
  <2> QED
    BY <2>2, <2>3, AddNodeEdges
<1>8. TablesBelow'
  <2>1. TablesBelow
    BY <1>4 DEF DagInv
  <2>2. \A k \in Keys : last_writer'[k] < idx'
    BY <2>1, <1>1, <1>3, <1>4 DEF TablesBelow
  <2>3. \A k \in Keys : \A r \in last_readers'[k] : r < idx'
    BY <2>1, <1>1, <1>3, <1>4 DEF TablesBelow, Nodes
  <2>4. barrier' < idx' /\ \A m \in prior_memory' : m < idx'
    BY <2>1, <1>1, <1>3, <1>4 DEF TablesBelow, Nodes
  <2> QED
    BY <2>2, <2>3, <2>4 DEF TablesBelow
<1>9. WritersReach'
  <2> SUFFICES ASSUME NEW k \in Keys, NEW w \in 1 .. (idx - 1) \cup {idx}, k \in Writes(w)
               PROVE  last_writer'[k] # 0 /\ Reaches(succs', w, last_writer'[k])
    BY <1>1, <1>2 DEF WritersReach
  <2>1. CASE k \in Writes(idx)
    <3>1. last_writer'[k] = idx
      BY <2>1, <1>3
    <3>2. w # idx => Reaches(succs', w, idx)
      BY <2>1, NewConflictsReach
    <3> QED
      BY <3>1, <3>2, <1>1, ReachesSelf
  <2>2. CASE k \notin Writes(idx)
    <3>1. w \in 1 .. (idx - 1) /\ last_writer'[k] = last_writer[k]
      BY <2>2, <1>3
    <3> QED
      BY <3>1, <1>4, <1>5 DEF DagInv, WritersReach
  <2> QED
    BY <2>1, <2>2
<1>10. ReadersReach'
  <2> SUFFICES ASSUME NEW k \in Keys, NEW r \in 1 .. (idx - 1) \cup {idx}, k \in Reads(r)
               PROVE  \/ r \in last_readers'[k]
                      \/ last_writer'[k] # 0 /\ Reaches(succs', r, last_writer'[k])
    BY <1>1, <1>2 DEF ReadersReach
  <2>1. CASE k \in Writes(idx)
    <3>1. last_writer'[k] = idx
      BY <2>1, <1>3
    <3>2. r # idx => Reaches(succs', r, idx)
      BY <2>1, NewConflictsReach
    <3> QED
      BY <3>1, <3>2, <1>1, ReachesSelf
  <2>2. CASE k \notin Writes(idx)
    <3>1. last_writer'[k] = last_writer[k] /\ last_readers[k] \subseteq last_readers'[k]
      BY <2>2, <1>3
    <3>2. CASE r = idx
      BY <2>2, <3>2, <1>3
    <3>3. CASE r \in 1 .. (idx - 1)
      BY <3>1, <3>3, <1>4, <1>5 DEF DagInv, ReadersReach
    <3> QED
      BY <3>2, <3>3
  <2> QED
    BY <2>1, <2>2
<1>11. BarriersReach'
  <2> SUFFICES ASSUME NEW u \in 1 .. (idx - 1) \cup {idx},
                      IsMemory(u), Bucket(u) = "Unknown"
               PROVE  barrier' # 0 /\ Reaches(succs', u, barrier')
    BY <1>1, <1>2 DEF BarriersReach
  <2>1. CASE IsMemory(idx) /\ Bucket(idx) = "Unknown"
    <3>1. barrier' = idx
      BY <2>1, <1>3
    <3>2. u # idx => Reaches(succs', u, idx)
      BY <2>1, NewConflictsReach
    <3> QED
      BY <3>1, <3>2, <1>1, ReachesSelf
  <2>2. CASE ~(IsMemory(idx) /\ Bucket(idx) = "Unknown")
    <3>1. u \in 1 .. (idx - 1) /\ barrier' = barrier
      BY <2>2, <1>3
    <3> QED
      BY <3>1, <1>4, <1>5 DEF DagInv, BarriersReach
  <2> QED
    BY <2>1, <2>2
<1>12. MemoryListed'
  BY <1>1, <1>2, <1>3, <1>4 DEF DagInv, MemoryListed
<1>13. ConflictsReach'
  <2> SUFFICES ASSUME NEW i \in 1 .. (idx - 1) \cup {idx},
                      NEW j \in 1 .. (idx - 1) \cup {idx}, MustPrecede(i, j)
               PROVE  Reaches(succs', i, j)
    BY <1>1, <1>2 DEF ConflictsReach
  <2>1. CASE j = idx
    <3>1. i \in 1 .. (idx - 1)
      BY <2>1, <1>1 DEF MustPrecede
    <3> QED
      BY <2>1, <3>1, NewConflictsReach DEF MustPrecede, RegConflict
  <2>2. CASE j # idx
    <3>1. j \in 1 .. (idx - 1) /\ i \in 1 .. (idx - 1)
      BY <2>2, <1>1 DEF MustPrecede
    <3> QED
      BY <3>1, <1>4, <1>5 DEF DagInv, ConflictsReach
  <2> QED
    BY <2>1, <2>2
<1>14. DependencesKept'
  BY <1>1, <1>2 DEF IInv, DependencesKept
<1> QED
  BY <1>1, <1>6, <1>7, <1>8, <1>9, <1>10, <1>11, <1>12, <1>13, <1>14
     DEF IInv, DagInv, Permutation

-----------------------------------------------------------------------------
\* Steps after build_sched_dag leave the DAG, and what is said of it, alone.
LEMMA DagKept ==
  ASSUME IInv, syllables' = syllables, UNCHANGED dagVars
  PROVE  /\ DagInv' /\ Nodes' = Nodes /\ N' = N /\ succs' = succs /\ idx' = idx
         /\ \A i, j : MustPrecede(i, j)' = MustPrecede(i, j)
<1>1. /\ Nodes' = Nodes /\ N' = N /\ succs' = succs /\ idx' = idx
      /\ last_writer' = last_writer /\ last_readers' = last_readers
      /\ barrier' = barrier /\ prior_memory' = prior_memory
  BY DEF dagVars, Nodes, N
<1>2. /\ \A i : Reads(i)' = Reads(i) /\ Writes(i)' = Writes(i)
      /\ \A i : IsMemory(i)' = IsMemory(i) /\ Bucket(i)' = Bucket(i)
      /\ \A i, j : MustPrecede(i, j)' = MustPrecede(i, j)
      /\ \A i, j : Reaches(succs, i, j)' = Reaches(succs, i, j)
  BY <1>1 DEF Reads, Writes, IsMemory, Bucket, MustPrecede, RegConflict,
              MemConflict, Reaches
<1>3. EdgesForward' /\ TablesBelow' /\ MemoryListed'
  BY <1>1, <1>2 DEF IInv, DagInv, EdgesForward, TablesBelow, MemoryListed
<1>4. WritersReach' /\ ReadersReach'
  BY <1>1, <1>2 DEF IInv, DagInv, WritersReach, ReadersReach, Reaches
<1>5. BarriersReach' /\ ConflictsReach'
  BY <1>1, <1>2 DEF IInv, DagInv, BarriersReach, ConflictsReach, Reaches
<1> QED
  BY <1>1, <1>2, <1>3, <1>4, <1>5 DEF DagInv

\* The nodes are finite in number, so counts of them are numbers.
LEMMA NodesFinite ==
  ASSUME syllables \in Blocks
  PROVE  /\ IsFiniteSet(Nodes) /\ Cardinality(Nodes) = N
         /\ \A T \in SUBSET Nodes : IsFiniteSet(T) /\ Cardinality(T) \in Nat
<1>1. N \in Nat
  BY BlockFacts
<1>2. IsFiniteSet(Nodes) /\ Cardinality(Nodes) = N
  BY <1>1, FS_Interval DEF Nodes
<1>3. \A T \in SUBSET Nodes : IsFiniteSet(T)
  BY <1>2, FS_Subset
<1> QED
  BY <1>2, <1>3, FS_CardinalityType

\* The early return for a block of at most one syllable keeps the invariant.
LEMMA ReturnShortStep ==
  ASSUME IInv, ReturnShort
  PROVE  IInv'
<1>1. /\ syllables' = syllables /\ UNCHANGED dagVars
      /\ phase' = "done" /\ out' = [i \in Nodes |-> i] /\ N <= 1
      /\ preds' = preds /\ ready' = ready /\ scheduled' = scheduled
  BY DEF ReturnShort
<1>2. N \in Nat
  BY BlockFacts DEF IInv, TypeOK
<1>3. /\ DagInv' /\ Nodes' = Nodes /\ N' = N /\ succs' = succs /\ idx' = idx
      /\ \A i, j : MustPrecede(i, j)' = MustPrecede(i, j)
  BY <1>1, DagKept
<1>4. out' \in Seq(Nodes) /\ Len(out') = N /\ DOMAIN out' = Nodes
      /\ \A i \in Nodes : out'[i] = i
  BY <1>1, <1>2 DEF Nodes
<1>5. TypeOK'
  BY <1>1, <1>3, <1>4 DEF IInv, TypeOK, dagVars
<1>6. DependencesKept'
  BY <1>3, <1>4 DEF DependencesKept, MustPrecede
<1>7. Permutation'
  BY <1>3, <1>4 DEF Permutation
<1> QED
  BY <1>1, <1>3, <1>5, <1>6, <1>7 DEF IInv

\* The predecessor counts and the first ready nodes establish SchedInv.
LEMMA StartSchedulingStep ==
  ASSUME IInv, StartScheduling
  PROVE  IInv'
<1>1. /\ syllables' = syllables /\ UNCHANGED dagVars
      /\ phase = "dag" /\ phase' = "schedule" /\ idx = N + 1
      /\ out' = out /\ scheduled' = scheduled
      /\ preds' = [j \in Nodes |-> Cardinality(PredsOf(j))]
      /\ ready' = {j \in Nodes : preds'[j] = 0}
  BY DEF StartScheduling
<1>2. syllables \in Blocks /\ scheduled = {} /\ out = <<>>
  BY <1>1 DEF IInv, TypeOK
<1>3. /\ DagInv' /\ Nodes' = Nodes /\ N' = N /\ succs' = succs /\ idx' = idx
      /\ \A i, j : MustPrecede(i, j)' = MustPrecede(i, j)
  BY <1>1, DagKept
<1>4. \A j \in Nodes : Cardinality(PredsOf(j)) \in Nat
  BY <1>2, NodesFinite DEF PredsOf
<1>5. TypeOK'
  BY <1>1, <1>3, <1>4 DEF IInv, TypeOK, dagVars
<1>6. Unscheduled' = Nodes
  BY <1>1, <1>2, <1>3 DEF Unscheduled
<1>7. \A j \in Nodes : Pending(j)' = PredsOf(j)
  BY <1>3, <1>6 DEF Pending, PredsOf
<1>8. SchedInv'
  <2>1. \A p \in Unscheduled' : succs'[p] \subseteq Unscheduled'
    BY <1>3, <1>6 DEF IInv, TypeOK
  <2>2. \A j \in Nodes' : preds'[j] = Cardinality(Pending(j)')
    BY <1>1, <1>3, <1>7
  <2>3. ready' = {j \in Unscheduled' : preds'[j] = 0}
    BY <1>1, <1>6
  <2>4. scheduled' = {out'[a] : a \in DOMAIN out'} /\ Cardinality(scheduled') = Len(out')
    BY <1>1, <1>2, FS_EmptySet
  <2> QED
    BY <1>1, <1>3, <2>1, <2>2, <2>3, <2>4 DEF SchedInv
<1>9. DependencesKept'
  BY <1>1, <1>2 DEF DependencesKept
<1> QED
  BY <1>1, <1>3, <1>5, <1>8, <1>9 DEF IInv, Permutation

\* Leaving the scheduling loop keeps the invariant.
LEMMA FinishStep ==
  ASSUME IInv, Finish
  PROVE  IInv'
<1>1. /\ syllables' = syllables /\ UNCHANGED dagVars
      /\ phase = "schedule" /\ phase' = "done" /\ Len(out) = N
      /\ preds' = preds /\ ready' = ready /\ scheduled' = scheduled /\ out' = out
  BY DEF Finish, schedVars
<1>2. /\ syllables \in Blocks /\ scheduled \subseteq Nodes /\ SchedInv
  BY <1>1 DEF IInv, TypeOK
<1>3. /\ DagInv' /\ Nodes' = Nodes /\ N' = N /\ succs' = succs /\ idx' = idx
      /\ \A i, j : MustPrecede(i, j)' = MustPrecede(i, j)
  BY <1>1, DagKept
<1>4. scheduled = Nodes
  BY <1>1, <1>2, NodesFinite, FS_Subset DEF SchedInv
<1>5. Permutation'
  BY <1>1, <1>2, <1>3, <1>4 DEF Permutation, SchedInv
<1>6. TypeOK'
  BY <1>1, <1>3 DEF IInv, TypeOK, dagVars
<1>7. DependencesKept'
  BY <1>1, <1>3 DEF IInv, DependencesKept
<1> QED
  BY <1>1, <1>3, <1>5, <1>6, <1>7 DEF IInv

\* The counts: a ready node waits for nothing, and a successor of a ready node
\* waits for something.
LEMMA ReadyFacts ==
  ASSUME IInv, phase = "schedule", NEW i \in ready
  PROVE  /\ i \in Unscheduled /\ Pending(i) = {}
         /\ \A j \in succs[i] : i \in Pending(j) /\ preds[j] > 0 /\ preds[j] \in Nat
<1>1. /\ syllables \in Blocks /\ succs \in [Nodes -> SUBSET Nodes] /\ SchedInv
  BY DEF IInv, TypeOK
<1>2. i \in Unscheduled /\ preds[i] = 0 /\ i \in Nodes
  BY <1>1 DEF SchedInv, Unscheduled
<1>3. \A j : Pending(j) \subseteq Nodes
  BY DEF Pending, Unscheduled
<1>4. \A j : IsFiniteSet(Pending(j)) /\ Cardinality(Pending(j)) \in Nat
  BY <1>1, <1>3, NodesFinite
<1>5. Pending(i) = {}
  BY <1>1, <1>2, <1>4, FS_EmptySet DEF SchedInv
<1>6. ASSUME NEW j \in succs[i]
      PROVE  i \in Pending(j) /\ preds[j] > 0 /\ preds[j] \in Nat
  <2>1. i \in Pending(j)
    BY <1>2, <1>6 DEF Pending
  <2>2. j \in Nodes
    BY <1>1, <1>2
  <2>3. Cardinality(Pending(j)) # 0
    BY <2>1, <1>4, FS_EmptySet
  <2> QED
    BY <2>1, <2>2, <2>3, <1>1, <1>4 DEF SchedInv
<1> QED
  BY <1>2, <1>5, <1>6

\* An unscheduled node cannot have an issued node behind it.
LEMMA UnscheduledClosed ==
  ASSUME IInv, phase = "schedule", NEW i \in Unscheduled, NEW j \in Nodes,
         MustPrecede(i, j)
  PROVE  j \in Unscheduled
<1>1. SchedInv /\ DagInv /\ N \in Nat
  BY BlockFacts DEF IInv, TypeOK
<1>2. i \in 1 .. (idx - 1) /\ j \in 1 .. (idx - 1)
  BY <1>1 DEF SchedInv, Unscheduled, Nodes
<1>3. Reaches(succs, i, j)
  BY <1>1, <1>2 DEF DagInv, ConflictsReach
<1>4. Unscheduled \in SUBSET Nodes /\ \A p \in Unscheduled : succs[p] \subseteq Unscheduled
  BY <1>1 DEF SchedInv, Unscheduled
<1> QED
  BY <1>3, <1>4 DEF Reaches

\* Issuing a ready node keeps the counts, the ready set and every dependence.
LEMMA IssueStep ==
  ASSUME IInv, NEW i \in Nodes, Issue(i)
  PROVE  IInv'
<1>1. /\ syllables' = syllables /\ UNCHANGED dagVars
      /\ phase = "schedule" /\ phase' = "schedule" /\ i \in ready
      /\ scheduled' = scheduled \cup {i} /\ out' = Append(out, i)
      /\ preds' = [j \in Nodes |-> IF j \in succs[i] THEN preds[j] - 1 ELSE preds[j]]
      /\ ready' = (ready \ {i})
                    \cup {j \in succs[i] : preds'[j] = 0 /\ j \notin scheduled'}
  BY DEF Issue, IsPick, IsFallback, Issuable
<1>2. /\ syllables \in Blocks /\ scheduled \subseteq Nodes /\ out \in Seq(Nodes)
      /\ preds \in [Nodes -> Nat] /\ succs \in [Nodes -> SUBSET Nodes]
      /\ SchedInv /\ DependencesKept
  BY <1>1 DEF IInv, TypeOK
<1>3. /\ DagInv' /\ Nodes' = Nodes /\ N' = N /\ succs' = succs /\ idx' = idx
      /\ \A a, b : MustPrecede(a, b)' = MustPrecede(a, b)
  BY <1>1, DagKept
<1>4. /\ i \in Unscheduled /\ i \notin scheduled /\ Pending(i) = {}
      /\ \A j \in succs[i] : i \in Pending(j) /\ preds[j] > 0 /\ preds[j] \in Nat
  BY <1>1, ReadyFacts DEF Unscheduled
<1>5. Unscheduled' = Unscheduled \ {i}
  BY <1>1, <1>3 DEF Unscheduled
<1>6. preds' \in [Nodes -> Nat]
  BY <1>1, <1>2, <1>4
<1>7. /\ DOMAIN out = 1 .. Len(out) /\ Len(out) \in Nat
      /\ DOMAIN out' = 1 .. (Len(out) + 1) /\ Len(out') = Len(out) + 1
      /\ out' \in Seq(Nodes) /\ out'[Len(out) + 1] = i
      /\ \A a \in DOMAIN out : out'[a] = out[a]
  BY <1>1, <1>2
<1>8. TypeOK'
  <2>1. ready' \subseteq Nodes
    BY <1>1, <1>2 DEF IInv, TypeOK
  <2> QED
    BY <2>1, <1>1, <1>2, <1>3, <1>6, <1>7 DEF IInv, TypeOK, dagVars
<1>9. \A p \in Unscheduled' : succs'[p] \subseteq Unscheduled'
  <2> SUFFICES ASSUME NEW p \in Unscheduled, p # i, NEW j \in succs[p]
               PROVE  j \in Unscheduled /\ j # i
    BY <1>3, <1>5
  <2>1. j \in Unscheduled
    BY <1>2 DEF SchedInv
  <2>2. p \in Pending(j)
    BY DEF Pending
  <2> QED
    BY <2>1, <2>2, <1>4
<1>10. \A j \in Nodes : preds'[j] = Cardinality(Pending(j)')
  <2> SUFFICES ASSUME NEW j \in Nodes
               PROVE  preds'[j] = Cardinality(Pending(j)')
    OBVIOUS
  <2>1. Pending(j)' = Pending(j) \ {i}
    BY <1>3, <1>5 DEF Pending
  <2>2. IsFiniteSet(Pending(j))
    BY <1>2, NodesFinite DEF Pending, Unscheduled
  <2>3. i \in Pending(j) <=> j \in succs[i]
    BY <1>4 DEF Pending
  <2>4. preds[j] = Cardinality(Pending(j))
    BY <1>2 DEF SchedInv
  <2>5. Cardinality(Pending(j) \ {i}) =
          IF i \in Pending(j) THEN Cardinality(Pending(j)) - 1 ELSE Cardinality(Pending(j))
    BY <2>2, FS_RemoveElement
  <2> QED
    BY <2>1, <2>3, <2>4, <2>5, <1>1
<1>11. ready' = {j \in Unscheduled' : preds'[j] = 0}
  <2>1. ready = {j \in Unscheduled : preds[j] = 0} /\ Unscheduled \subseteq Nodes
    BY <1>2 DEF SchedInv, Unscheduled
  <2>2. ASSUME NEW j \in ready' PROVE j \in Unscheduled' /\ preds'[j] = 0
    <3>1. CASE j \in ready /\ j # i
      <4>1. j \in Nodes /\ preds[j] = 0 /\ j \notin succs[i] /\ j \in Unscheduled
        BY <3>1, <2>1, <1>4
      <4> QED
        BY <4>1, <3>1, <1>1, <1>5
    <3>2. CASE j \in succs[i] /\ preds'[j] = 0 /\ j \notin scheduled'
      <4>1. j \in Nodes
        BY <3>2, <1>2
      <4> QED
        BY <4>1, <3>2, <1>3 DEF Unscheduled
    <3> QED
      BY <2>2, <3>1, <3>2, <1>1
  <2>3. ASSUME NEW j \in Unscheduled', preds'[j] = 0 PROVE j \in ready'
    <3>1. j \in Unscheduled /\ j # i /\ j \in Nodes /\ j \notin scheduled'
      BY <2>3, <1>3, <1>5 DEF Unscheduled
    <3>2. CASE j \in succs[i]
      BY <3>1, <3>2, <2>3, <1>1
    <3>3. CASE j \notin succs[i]
      BY <3>1, <3>3, <2>1, <2>3, <1>1
    <3> QED
      BY <3>2, <3>3
  <2> QED
    BY <2>2, <2>3
<1>12. scheduled' = {out'[a] : a \in DOMAIN out'}
  <2>1. scheduled = {out[a] : a \in DOMAIN out}
    BY <1>2 DEF SchedInv
  <2>2. ASSUME NEW x \in scheduled' PROVE x \in {out'[a] : a \in DOMAIN out'}
    <3>1. CASE x = i
      BY <3>1, <1>7
    <3>2. CASE x \in scheduled
      <4>1. PICK a \in DOMAIN out : x = out[a]
        BY <3>2, <2>1
      <4> QED
        BY <4>1, <1>7
    <3> QED
      BY <2>2, <3>1, <3>2, <1>1
  <2>3. ASSUME NEW a \in DOMAIN out' PROVE out'[a] \in scheduled'
    BY <2>1, <2>3, <1>1, <1>7
  <2> QED
    BY <2>2, <2>3
<1>13. Cardinality(scheduled') = Len(out')
  <2>1. IsFiniteSet(scheduled) /\ Cardinality(scheduled) = Len(out)
    BY <1>2, NodesFinite DEF SchedInv
  <2>2. Cardinality(scheduled \cup {i}) = Cardinality(scheduled) + 1
    BY <2>1, <1>4, FS_AddElement
  <2> QED
    BY <2>1, <2>2, <1>1, <1>7
<1>14. SchedInv'
  BY <1>2, <1>3, <1>9, <1>10, <1>11, <1>12, <1>13 DEF SchedInv
<1>15. DependencesKept'
  <2> SUFFICES ASSUME NEW a \in DOMAIN out', NEW b \in DOMAIN out',
                      MustPrecede(out'[a], out'[b])
               PROVE  a < b
    BY <1>3 DEF DependencesKept
  <2>1. CASE a \in DOMAIN out /\ b \in DOMAIN out
    BY <2>1, <1>2, <1>7 DEF DependencesKept
  <2>2. CASE a \in DOMAIN out /\ b = Len(out) + 1
    BY <2>2, <1>7
  <2>3. CASE a = Len(out) + 1 /\ b \in DOMAIN out
    <3>1. out[b] \in scheduled /\ out[b] \in Nodes
      BY <2>3, <1>2 DEF SchedInv
    <3>2. MustPrecede(i, out[b])
      BY <2>3, <1>7
    <3>3. out[b] \in Unscheduled
      BY <3>1, <3>2, <1>1, <1>4, UnscheduledClosed
    <3> QED
      BY <3>1, <3>3 DEF Unscheduled
  <2>4. CASE a = Len(out) + 1 /\ b = Len(out) + 1
    BY <2>4, <1>7, <1>2 DEF MustPrecede, Nodes
  <2> QED
    BY <2>1, <2>2, <2>3, <2>4, <1>7
<1> QED
  BY <1>1, <1>3, <1>8, <1>14, <1>15 DEF IInv, Permutation

\* Every step of the specification preserves the inductive invariant.
LEMMA NextIInv == IInv /\ [Next]_vars => IInv'
<1> SUFFICES ASSUME IInv, [Next]_vars PROVE IInv'
  OBVIOUS
<1>1. CASE ReturnShort
  BY <1>1, ReturnShortStep
<1>2. CASE AddNode
  BY <1>2, AddNodeStep
<1>3. CASE StartScheduling
  BY <1>3, StartSchedulingStep
<1>4. ASSUME NEW i \in Nodes, Issue(i) PROVE IInv'
  BY <1>4, IssueStep
<1>5. CASE Finish
  BY <1>5, FinishStep
<1>6. CASE Terminated \/ UNCHANGED vars
  <2>1. /\ syllables' = syllables /\ UNCHANGED dagVars /\ phase' = phase
        /\ preds' = preds /\ ready' = ready /\ scheduled' = scheduled /\ out' = out
    BY <1>6 DEF Terminated, vars, schedVars
  <2>2. /\ DagInv' /\ Nodes' = Nodes /\ N' = N /\ succs' = succs /\ idx' = idx
        /\ \A i, j : MustPrecede(i, j)' = MustPrecede(i, j)
    BY <2>1, DagKept
  <2>3. TypeOK' /\ DependencesKept' /\ Permutation'
    BY <2>1, <2>2 DEF IInv, TypeOK, dagVars, DependencesKept, Permutation
  <2>4. \A j : Pending(j)' = Pending(j)
    BY <2>1, <2>2 DEF Pending, Unscheduled
  <2>5. SchedInv => SchedInv'
    BY <2>1, <2>2, <2>4 DEF SchedInv, Unscheduled
  <2> QED
    BY <2>1, <2>2, <2>3, <2>5 DEF IInv
<1> QED
  BY <1>1, <1>2, <1>3, <1>4, <1>5, <1>6 DEF Next

\* While a node is left, the least unscheduled one waits for nothing.
LEMMA IInvReadyNode == IInv => ReadyNodeExists
<1> SUFFICES ASSUME IInv, phase = "schedule", Len(out) < N
             PROVE  ready # {}
  BY DEF ReadyNodeExists
<1>1. /\ syllables \in Blocks /\ scheduled \subseteq Nodes /\ SchedInv /\ DagInv
      /\ out \in Seq(Nodes) /\ N \in Nat
  BY BlockFacts DEF IInv, TypeOK
<1>2. Unscheduled # {}
  <2>1. Cardinality(scheduled) # Cardinality(Nodes)
    BY <1>1, NodesFinite DEF SchedInv
  <2>2. scheduled # Nodes
    BY <2>1
  <2> QED
    BY <2>2, <1>1 DEF Unscheduled
<1>3. Unscheduled \in SUBSET Nat
  BY <1>1 DEF Unscheduled, Nodes
<1>4. PICK x \in Unscheduled : \A y \in Unscheduled : x <= y
  BY <1>2, <1>3, LeastElement
<1>5. Pending(x) = {}
  <2> SUFFICES ASSUME NEW p \in Unscheduled, x \in succs[p] PROVE FALSE
    BY DEF Pending
  <2>1. p < x
    BY <1>1 DEF DagInv, EdgesForward, Unscheduled
  <2> QED
    BY <2>1, <1>3, <1>4
<1>6. preds[x] = 0
  BY <1>1, <1>4, <1>5, FS_EmptySet DEF SchedInv, Unscheduled
<1> QED
  BY <1>1, <1>4, <1>6 DEF SchedInv

\* The variables of the scheduler keep their types; unscheduled_preds, a
\* usize, never underflows.
THEOREM SchedTypeCorrect == Spec => []TypeOK
<1>1. IInv => TypeOK
  BY DEF IInv
<1> QED
  BY <1>1, InitIInv, NextIInv, PTL DEF Spec

\* For every block: no node is issued before one it must follow.
THEOREM SchedDependencesKept == Spec => []DependencesKept
<1>1. IInv => DependencesKept
  BY DEF IInv
<1> QED
  BY <1>1, InitIInv, NextIInv, PTL DEF Spec

\* For every block: the panic "DAG scheduler must have a ready node" is
\* unreachable.
THEOREM SchedReadyNodeExists == Spec => []ReadyNodeExists
BY InitIInv, NextIInv, IInvReadyNode, PTL DEF Spec

\* For every block: the result has each syllable of the block once.
THEOREM SchedPermutation == Spec => []Permutation
<1>1. IInv => Permutation
  BY DEF IInv
<1> QED
  BY <1>1, InitIInv, NextIInv, PTL DEF Spec
-----------------------------------------------------------------------------
(***************************************************************************)
(* The schedule has the data flow of the block.                            *)
(***************************************************************************)

\* Two nodes that touch the same register, predicate or region of memory, one
\* of them writing it, are in conflict.
LEMMA SharedLocation ==
  ASSUME NEW i \in Nodes, NEW j \in Nodes, NEW c, c \in Defines(i), c \in Uses(j) \cup Defines(j)
  PROVE  (RegConflict(i, j) \/ MemConflict(i, j)) /\ (RegConflict(j, i) \/ MemConflict(j, i))
<1>1. \A n \in Nodes : \A k \in Reads(n) \cup Writes(n) : k.class # "Mem"
  <2> SUFFICES ASSUME NEW n \in Nodes, NEW k \in Reads(n) \cup Writes(n)
               PROVE  k.class # "Mem"
    OBVIOUS
  <2>1. CASE k \in Reads(n)
    <3>1. \E class \in {"Gpr", "Pred"} : \E r : k = Key(class, r)
      BY <2>1 DEF Reads, SourceRegKeys
    <3> QED
      BY <3>1 DEF Key
  <2>2. CASE k \in Writes(n)
    <3>1. \E class \in {"Gpr", "Pred"} : \E r : k = Key(class, r)
      BY <2>2 DEF Writes, DestRegKey
    <3> QED
      BY <3>1 DEF Key
  <2> QED
    BY <2>1, <2>2
<1>2. \A n \in Nodes : \A k \in Regions(n) : k.class = "Mem"
  BY DEF Regions, Region
<1>3. \A n \in Nodes : Defines(n) \subseteq Writes(n) \cup Regions(n) /\ Uses(n) \subseteq Reads(n) \cup Regions(n)
  BY DEF Defines, Uses
<1>4. CASE c \in Writes(i)
  <2>1. c \in Reads(j) \cup Writes(j)
    BY <1>1, <1>2, <1>3, <1>4
  <2> QED
    BY <1>4, <2>1 DEF RegConflict
<1>5. CASE c \in Regions(i)
  <2>1. c \in Regions(j)
    BY <1>1, <1>2, <1>3, <1>5
  <2>2. IsMemory(i) /\ IsMemory(j)
    BY <1>5, <2>1 DEF Regions
  <2>3. Bucket(i) # "Unknown" => c = Region(Bucket(i))
    BY <1>5 DEF Regions
  <2>4. Bucket(j) # "Unknown" => c = Region(Bucket(j))
    BY <2>1 DEF Regions
  <2>5. MayAlias(Bucket(i), Bucket(j)) /\ MayAlias(Bucket(j), Bucket(i))
    BY <2>3, <2>4 DEF MayAlias, Region
  <2> QED
    BY <2>2, <2>5 DEF MemConflict
<1> QED
  BY <1>3, <1>4, <1>5

\* At the end the schedule is an injection on the positions, onto the nodes.
LEMMA ScheduleIsBijection ==
  ASSUME IInv, phase = "done"
  PROVE  /\ N \in Nat /\ DOMAIN out = 1 .. N
         /\ \A a \in 1 .. N : out[a] \in Nodes
         /\ \A a, b \in 1 .. N : out[a] = out[b] => a = b
         /\ \A i \in Nodes : \E a \in 1 .. N : out[a] = i
<1>1. out \in Seq(Nodes) /\ Len(out) = N /\ \A i \in Nodes : \E a \in DOMAIN out : out[a] = i
  BY DEF IInv, TypeOK, Permutation
<1>2. N \in Nat /\ IsFiniteSet(Nodes) /\ Nodes = 1 .. N
  BY BlockFacts, NodesFinite DEF IInv, TypeOK, Nodes
<1>3. DOMAIN out = 1 .. N /\ out \in [1 .. N -> Nodes]
  BY <1>1
<1>4. out \in Surjection(1 .. N, Nodes)
  BY <1>1, <1>3 DEF Surjection
<1>5. out \in Injection(1 .. N, Nodes)
  BY <1>2, <1>4, FS_SurjSameCardinalityImpliesInj
<1>6. \A a, b \in 1 .. N : out[a] = out[b] => a = b
  BY <1>3, <1>5 DEF Injection, IsInjective
<1> QED
  BY <1>1, <1>2, <1>3, <1>6

\* Two positions of the schedule in conflict are in the order of the block.
LEMMA ConflictOrder ==
  ASSUME IInv, phase = "done", NEW m \in 1 .. N, NEW a \in 1 .. N, m # a,
         NEW c, c \in Defines(out[m]), c \in Uses(out[a]) \cup Defines(out[a])
  PROVE  m < a <=> out[m] < out[a]
<1>1. /\ N \in Nat /\ DOMAIN out = 1 .. N
      /\ out[m] \in Nodes /\ out[a] \in Nodes /\ out[m] # out[a]
  BY ScheduleIsBijection
<1>2. out[m] \in Nat /\ out[a] \in Nat /\ m \in Nat /\ a \in Nat
  BY <1>1 DEF Nodes
<1>3. /\ RegConflict(out[m], out[a]) \/ MemConflict(out[m], out[a])
      /\ RegConflict(out[a], out[m]) \/ MemConflict(out[a], out[m])
  BY <1>1, SharedLocation
<1>4. out[m] < out[a] => m < a
  BY <1>1, <1>3 DEF IInv, DependencesKept, MustPrecede
<1>5. out[a] < out[m] => a < m
  BY <1>1, <1>3 DEF IInv, DependencesKept, MustPrecede
<1> QED
  BY <1>1, <1>2, <1>4, <1>5

\* The greatest element of a set is what Max returns.
LEMMA MaxIs ==
  ASSUME NEW S \in SUBSET Int, NEW x \in S, \A y \in S : y <= x
  PROVE  Max(S) = x
<1>1. \A y \in S : x >= y
  OBVIOUS
<1>2. \A z \in S : (\A y \in S : z >= y) => z = x
  OBVIOUS
<1> QED
  BY <1>1, <1>2 DEF Max

\* A set of numbers up to n has a greatest one.
LEMMA GreatestElement ==
  ASSUME NEW n \in Nat, NEW S \in SUBSET (1 .. n), S # {}
  PROVE  \E x \in S : \A y \in S : y <= x
<1> DEFINE T == {n - x : x \in S}
<1>1. T \in SUBSET Nat /\ T # {}
  <2>1. \A x \in S : n - x \in Nat
    OBVIOUS
  <2>2. T # {}
    OBVIOUS
  <2> QED
    BY <2>1, <2>2
<1>2. PICK t \in T : \A u \in T : t <= u
  <2> HIDE DEF T
  <2> QED
    BY <1>1, LeastElement
<1>3. PICK x \in S : t = n - x
  OBVIOUS
<1>4. ASSUME NEW y \in S PROVE y <= x
  <2>1. n - y \in T
    OBVIOUS
  <2>2. n - x <= n - y
    BY <1>2, <1>3, <2>1
  <2> QED
    BY <2>2
<1> QED
  BY <1>4

\* If the writers of c before some point of the schedule are the writers of c
\* before some point of the block, the last of them is the same.
LEMMA SameProducer ==
  ASSUME IInv, phase = "done", NEW c, NEW k \in 1 .. (N + 1), NEW p \in 1 .. (N + 1),
         \A m \in 1 .. N : c \in Defines(out[m]) => (m < k <=> out[m] < p)
  PROVE  Producer(out, k, c) = Producer(SourceOrder, p, c)
<1> DEFINE A == {m \in 1 .. (k - 1) : c \in Defines(out[m])}
           B == {m \in 1 .. (p - 1) : c \in Defines(SourceOrder[m])}
<1>1. /\ N \in Nat /\ Nodes = 1 .. N
      /\ \A a \in 1 .. N : out[a] \in Nodes
      /\ \A a, b \in 1 .. N : out[a] = out[b] => a = b
      /\ \A i \in Nodes : \E a \in 1 .. N : out[a] = i
  BY ScheduleIsBijection DEF Nodes
<1>2. A \subseteq 1 .. N /\ B \subseteq 1 .. N /\ \A m \in 1 .. N : SourceOrder[m] = m
  <2>1. 1 .. (k - 1) \subseteq 1 .. N /\ 1 .. (p - 1) \subseteq 1 .. N
    BY <1>1
  <2>2. A \subseteq 1 .. (k - 1) /\ B \subseteq 1 .. (p - 1)
    OBVIOUS
  <2>3. \A m \in 1 .. N : SourceOrder[m] = m
    BY <1>1 DEF SourceOrder
  <2> HIDE DEF A, B
  <2> QED
    BY <2>1, <2>2, <2>3
<1>3. \A m \in A : out[m] \in B /\ c \in Defines(out[m]) /\ m \in 1 .. N
  <2> SUFFICES ASSUME NEW m \in A
               PROVE  out[m] \in B /\ c \in Defines(out[m]) /\ m \in 1 .. N
    OBVIOUS
  <2>1. m \in 1 .. N /\ m < k /\ c \in Defines(out[m])
    BY <1>1, <1>2
  <2>2. out[m] < p /\ out[m] \in 1 .. N
    BY <1>1, <2>1
  <2>3. out[m] \in 1 .. (p - 1) /\ SourceOrder[out[m]] = out[m]
    <3>1. SourceOrder[out[m]] = out[m]
      BY <1>2, <2>2
    <3>2. out[m] \in 1 .. (p - 1)
      BY <1>1, <2>2
    <3> QED
      BY <3>1, <3>2
  <2> QED
    BY <2>1, <2>3
<1>4. \A n \in B : \E m \in A : out[m] = n
  <2> SUFFICES ASSUME NEW n \in B
               PROVE  \E m \in A : out[m] = n
    OBVIOUS
  <2>1. n \in 1 .. N /\ n < p /\ c \in Defines(n)
    BY <1>1, <1>2
  <2>2. PICK m \in 1 .. N : out[m] = n
    BY <1>1, <2>1
  <2>3. m < k
    BY <2>1, <2>2
  <2>4. m \in 1 .. (k - 1)
    BY <1>1, <2>3
  <2> QED
    BY <2>1, <2>2, <2>4
<1>5. Producer(out, k, c) = IF A = {} THEN 0 ELSE out[Max(A)]
  BY DEF Producer
<1>6. Producer(SourceOrder, p, c) = IF B = {} THEN 0 ELSE SourceOrder[Max(B)]
  BY DEF Producer
<1> HIDE DEF A, B
<1>7. CASE A = {}
  BY <1>4, <1>5, <1>6, <1>7
<1>8. CASE A # {}
  <2>1. PICK x \in A : \A y \in A : y <= x
    BY <1>1, <1>2, <1>8, GreatestElement
  <2>2. Max(A) = x
    <3>1. A \in SUBSET Int
      BY <1>1, <1>2
    <3> QED
      BY <2>1, <3>1, MaxIs
  <2>3. out[x] \in B
    BY <1>3
  <2>4. ASSUME NEW n \in B PROVE n <= out[x]
    <3>1. PICK m \in A : out[m] = n
      BY <1>4
    <3>2. m \in 1 .. N /\ x \in 1 .. N /\ c \in Defines(out[m]) /\ c \in Defines(out[x]) /\ m <= x
      BY <1>3, <2>1
    <3>3. CASE m = x
      BY <1>1, <3>1, <3>2, <3>3 DEF Nodes
    <3>4. CASE m # x
      <4>1. m < x
        BY <1>1, <3>2, <3>4
      <4>2. out[m] < out[x]
        BY <3>2, <3>4, <4>1, ConflictOrder
      <4>3. out[m] \in 1 .. N /\ out[x] \in 1 .. N /\ N \in Nat
        BY <1>1, <3>2
      <4>4. \A u, v \in 1 .. N : u < v => u <= v
        BY <1>1
      <4> QED
        BY <3>1, <4>2, <4>3, <4>4
    <3> QED
      BY <3>3, <3>4
  <2>5. Max(B) = out[x]
    <3>1. B \in SUBSET Int
      BY <1>1, <1>2
    <3> QED
      BY <2>3, <2>4, <3>1, MaxIs
  <2>6. SourceOrder[out[x]] = out[x] /\ B # {}
    BY <1>2, <2>3
  <2> QED
    BY <1>5, <1>6, <1>8, <2>2, <2>5, <2>6
<1> QED
  BY <1>7, <1>8

\* For every block: running the schedule gives every syllable the operands it
\* has in source order and leaves every location with the same last writer.
THEOREM SchedSameDataflow == Spec => []SameDataflow
<1>1. IInv => SameDataflow
  <2> SUFFICES ASSUME IInv, phase = "done"
               PROVE  /\ \A a \in DOMAIN out : \A c \in Uses(out[a]) :
                           Producer(out, a, c) = Producer(SourceOrder, out[a], c)
                      /\ \A c \in UNION {Defines(i) : i \in Nodes} :
                           Producer(out, N + 1, c) = Producer(SourceOrder, N + 1, c)
    BY DEF SameDataflow
  <2>1. /\ N \in Nat /\ DOMAIN out = 1 .. N /\ Nodes = 1 .. N
        /\ \A a \in 1 .. N : out[a] \in Nodes
    BY ScheduleIsBijection DEF Nodes
  <2>2. ASSUME NEW a \in DOMAIN out, NEW c \in Uses(out[a])
        PROVE  Producer(out, a, c) = Producer(SourceOrder, out[a], c)
    <3>1. a \in 1 .. N /\ out[a] \in 1 .. N /\ a \in 1 .. (N + 1) /\ out[a] \in 1 .. (N + 1)
      BY <2>1
    <3>2. ASSUME NEW m \in 1 .. N, c \in Defines(out[m])
          PROVE  m < a <=> out[m] < out[a]
      <4>1. CASE m = a
        BY <2>1, <3>1, <4>1
      <4>2. CASE m # a
        BY <3>1, <3>2, <4>2, ConflictOrder
      <4> QED
        BY <4>1, <4>2
    <3> QED
      BY <3>1, <3>2, SameProducer
  <2>3. ASSUME NEW c
        PROVE  Producer(out, N + 1, c) = Producer(SourceOrder, N + 1, c)
    <3>1. N + 1 \in 1 .. (N + 1)
      BY <2>1
    <3>2. \A m \in 1 .. N : m < N + 1 /\ out[m] < N + 1
      BY <2>1
    <3> QED
      BY <3>1, <3>2, SameProducer
  <2> QED
    BY <2>2, <2>3
<1> QED
  BY <1>1, InitIInv, NextIInv, PTL DEF Spec
-----------------------------------------------------------------------------
(***************************************************************************)
(* Sums over sets of nodes.  lat gives the nodes 1 .. n their latencies.   *)
(***************************************************************************)

\* Induction up to n, for a set of numbers.
LEMMA SetInduction ==
  ASSUME NEW n \in Nat, NEW T, 0 \in T, \A k \in 0 .. (n - 1) : k \in T => k + 1 \in T
  PROVE  \A k \in 0 .. n : k \in T
<1> SUFFICES ASSUME (0 .. n) \ T # {}
             PROVE  FALSE
  OBVIOUS
<1>1. (0 .. n) \ T \in SUBSET Nat
  OBVIOUS
<1>2. PICK x \in (0 .. n) \ T : \A y \in (0 .. n) \ T : x <= y
  BY <1>1, LeastElement
<1>3. x # 0 /\ x - 1 \in 0 .. (n - 1) /\ (x - 1) + 1 = x
  BY <1>2
<1>4. x - 1 \in T
  <2>1. x - 1 \in 0 .. n /\ ~(x <= x - 1)
    BY <1>2, <1>3
  <2> QED
    BY <1>2, <2>1
<1> QED
  BY <1>2, <1>3, <1>4

\* c[k] is the sum over the members of s up to k.
Sums(lat, n, s, c) ==
  /\ c \in [0 .. n -> Nat] /\ c[0] = 0
  /\ \A k \in 1 .. n : c[k] = c[k - 1] + (IF k \in s THEN lat[k] ELSE 0)

Total(lat, n, s) == (CHOOSE c : Sums(lat, n, s, c))[n]

\* The partial sums of the latencies in a set of nodes.
LEMMA SumsExist ==
  ASSUME NEW n \in Nat, NEW lat \in [1 .. n -> Nat], NEW s
  PROVE  \E c : Sums(lat, n, s, c)
<1> DEFINE term(k) == IF k \in s THEN lat[k] ELSE 0
           Upto(c, m) == /\ c \in [0 .. n -> Nat] /\ c[0] = 0
                         /\ \A k \in 1 .. m : c[k] = c[k - 1] + term(k)
           T == {m \in 0 .. n : \E c : Upto(c, m)}
<1>1. 0 \in T
  <2>1. Upto([k \in 0 .. n |-> 0], 0)
    OBVIOUS
  <2>2. 0 \in 0 .. n
    OBVIOUS
  <2> HIDE DEF Upto
  <2> QED
    BY <2>1, <2>2
<1>2. ASSUME NEW m \in 0 .. (n - 1), m \in T
      PROVE  m + 1 \in T
  <2>1. PICK c : Upto(c, m)
    BY <1>2
  <2> DEFINE d == [c EXCEPT ![m + 1] = c[m] + term(m + 1)]
  <2>2. m + 1 \in 1 .. n /\ m + 1 \in 0 .. n /\ m \in 0 .. n /\ (m + 1) - 1 = m /\ m + 1 # 0
    OBVIOUS
  <2>3. term(m + 1) \in Nat /\ c[m] \in Nat
    BY <2>1, <2>2
  <2> HIDE DEF term
  <2>4. d \in [0 .. n -> Nat] /\ d[0] = 0 /\ d[m + 1] = c[m] + term(m + 1)
    BY <2>1, <2>2, <2>3
  <2>5. \A k \in 0 .. m : d[k] = c[k]
    BY <2>1, <2>2
  <2> HIDE DEF d
  <2>6. ASSUME NEW k \in 1 .. (m + 1) PROVE d[k] = d[k - 1] + term(k)
    <3>1. CASE k = m + 1
      BY <2>2, <2>4, <2>5, <3>1
    <3>2. CASE k # m + 1
      <4>1. k \in 1 .. m /\ k \in 0 .. m /\ k - 1 \in 0 .. m
        BY <2>2, <3>2
      <4> QED
        BY <2>1, <2>5, <4>1
    <3> QED
      BY <3>1, <3>2
  <2>7. Upto(d, m + 1)
    BY <2>4, <2>6
  <2> QED
    BY <2>2, <2>7
<1>3. n \in T
  <2> HIDE DEF T
  <2>1. \A k \in 0 .. n : k \in T
    BY <1>1, <1>2, SetInduction
  <2> QED
    BY <2>1
<1> QED
  BY <1>3 DEF Sums

\* The total is the last of them, a number.
LEMMA TotalSums ==
  ASSUME NEW n \in Nat, NEW lat \in [1 .. n -> Nat], NEW s
  PROVE  /\ Sums(lat, n, s, CHOOSE c : Sums(lat, n, s, c))
         /\ Total(lat, n, s) \in Nat
<1> DEFINE d == CHOOSE c : Sums(lat, n, s, c)
<1>1. Sums(lat, n, s, d)
  BY SumsExist
<1>2. Total(lat, n, s) = d[n]
  BY DEF Total
<1> HIDE DEF d
<1>3. d[n] \in Nat
  BY <1>1 DEF Sums
<1> QED
  BY <1>1, <1>2, <1>3 DEF d

\* No nodes have no latency.
LEMMA TotalEmpty ==
  ASSUME NEW n \in Nat, NEW lat \in [1 .. n -> Nat]
  PROVE  Total(lat, n, {}) = 0
<1>1. PICK c : Sums(lat, n, {}, c) /\ Total(lat, n, {}) = c[n]
  BY TotalSums DEF Total
<1> DEFINE T == {k \in 0 .. n : c[k] = 0}
<1>2. 0 \in T
  BY <1>1 DEF Sums
<1>3. ASSUME NEW k \in 0 .. (n - 1), k \in T
      PROVE  k + 1 \in T
  <2>1. k + 1 \in 1 .. n /\ (k + 1) - 1 = k /\ k + 1 \in 0 .. n
    OBVIOUS
  <2>2. c[k + 1] = c[(k + 1) - 1] + 0
    BY <1>1, <2>1 DEF Sums
  <2> QED
    BY <1>3, <2>1, <2>2
<1>4. n \in T
  <2> HIDE DEF T
  <2>1. \A k \in 0 .. n : k \in T
    BY <1>2, <1>3, SetInduction
  <2> QED
    BY <2>1
<1> QED
  BY <1>1, <1>4

\* One more node adds its latency.
LEMMA TotalAdd ==
  ASSUME NEW n \in Nat, NEW lat \in [1 .. n -> Nat], NEW s, NEW x \in 1 .. n, x \notin s
  PROVE  Total(lat, n, s \cup {x}) = lat[x] + Total(lat, n, s)
<1> DEFINE u == s \cup {x}
<1>1. PICK c : Sums(lat, n, s, c) /\ Total(lat, n, s) = c[n]
  BY TotalSums DEF Total
<1>2. PICK d : Sums(lat, n, u, d) /\ Total(lat, n, u) = d[n]
  BY TotalSums DEF Total
<1> DEFINE more(k) == IF k < x THEN 0 ELSE lat[x]
           T == {k \in 0 .. n : d[k] = c[k] + more(k)}
<1>3. lat[x] \in Nat /\ x \in Nat /\ x # 0
  OBVIOUS
<1>4. /\ c \in [0 .. n -> Nat] /\ c[0] = 0
      /\ \A k \in 1 .. n : c[k] = c[k - 1] + (IF k \in s THEN lat[k] ELSE 0)
  BY <1>1 DEF Sums
<1>5. /\ d \in [0 .. n -> Nat] /\ d[0] = 0
      /\ \A k \in 1 .. n : d[k] = d[k - 1] + (IF k \in u THEN lat[k] ELSE 0)
  BY <1>2 DEF Sums
<1>6. 0 \in T
  BY <1>3, <1>4, <1>5
<1>7. ASSUME NEW k \in 0 .. (n - 1), k \in T
      PROVE  k + 1 \in T
  <2>1. k + 1 \in 1 .. n /\ (k + 1) - 1 = k /\ k + 1 \in 0 .. n /\ k \in 0 .. n /\ k \in Nat
    OBVIOUS
  <2>2. c[k] \in Nat /\ d[k] \in Nat /\ lat[k + 1] \in Nat
    BY <1>4, <1>5, <2>1
  <2>3. /\ c[k + 1] = c[k] + (IF k + 1 \in s THEN lat[k + 1] ELSE 0)
        /\ d[k + 1] = d[k] + (IF k + 1 \in u THEN lat[k + 1] ELSE 0)
    <3>1. /\ c[k + 1] = c[(k + 1) - 1] + (IF k + 1 \in s THEN lat[k + 1] ELSE 0)
          /\ d[k + 1] = d[(k + 1) - 1] + (IF k + 1 \in u THEN lat[k + 1] ELSE 0)
      BY <1>4, <1>5, <2>1
    <3> QED
      BY <2>1, <3>1
  <2>4. d[k] = c[k] + more(k)
    BY <1>7
  <2>5. CASE k + 1 = x
    <3>1. more(k) = 0 /\ more(k + 1) = lat[x] /\ k + 1 \notin s /\ k + 1 \in u
      BY <1>3, <2>1, <2>5
    <3> QED
      BY <2>1, <2>2, <2>3, <2>4, <2>5, <3>1
  <2>6. CASE k + 1 # x
    <3>1. more(k + 1) = more(k) /\ (k + 1 \in s <=> k + 1 \in u) /\ more(k) \in Nat
      BY <1>3, <2>1, <2>6
    <3> HIDE DEF more, u
    <3>2. d[k + 1] = c[k + 1] + more(k + 1)
      BY <2>2, <2>3, <2>4, <3>1
    <3> QED
      BY <2>1, <3>2
  <2> QED
    BY <2>5, <2>6
<1>8. n \in T
  <2> HIDE DEF T
  <2>1. \A k \in 0 .. n : k \in T
    BY <1>6, <1>7, SetInduction
  <2> QED
    BY <2>1
<1>9. more(n) = lat[x] /\ c[n] \in Nat
  BY <1>3, <1>4
<1> HIDE DEF more
<1>10. d[n] = c[n] + lat[x]
  BY <1>8, <1>9
<1> QED
  BY <1>1, <1>2, <1>3, <1>9, <1>10

\* No set of nodes weighs more than all of them.
LEMMA TotalBound ==
  ASSUME NEW n \in Nat, NEW lat \in [1 .. n -> Nat], NEW s
  PROVE  Total(lat, n, s) <= Total(lat, n, 1 .. n)
<1> DEFINE u == 1 .. n
<1>1. PICK c : Sums(lat, n, s, c) /\ Total(lat, n, s) = c[n]
  BY TotalSums DEF Total
<1>2. PICK d : Sums(lat, n, u, d) /\ Total(lat, n, u) = d[n]
  BY TotalSums DEF Total
<1> DEFINE T == {k \in 0 .. n : c[k] <= d[k]}
<1>4. /\ c \in [0 .. n -> Nat] /\ c[0] = 0
      /\ \A k \in 1 .. n : c[k] = c[k - 1] + (IF k \in s THEN lat[k] ELSE 0)
  BY <1>1 DEF Sums
<1>5. /\ d \in [0 .. n -> Nat] /\ d[0] = 0
      /\ \A k \in 1 .. n : d[k] = d[k - 1] + lat[k]
  BY <1>2 DEF Sums
<1>6. 0 \in T
  BY <1>4, <1>5
<1>7. ASSUME NEW k \in 0 .. (n - 1), k \in T
      PROVE  k + 1 \in T
  <2>1. k + 1 \in 1 .. n /\ (k + 1) - 1 = k /\ k + 1 \in 0 .. n /\ k \in 0 .. n
    OBVIOUS
  <2>2. c[k] \in Nat /\ d[k] \in Nat /\ lat[k + 1] \in Nat
    BY <1>4, <1>5, <2>1
  <2>3. c[k + 1] = c[k] + (IF k + 1 \in s THEN lat[k + 1] ELSE 0) /\ d[k + 1] = d[k] + lat[k + 1]
    <3>1. /\ c[k + 1] = c[(k + 1) - 1] + (IF k + 1 \in s THEN lat[k + 1] ELSE 0)
          /\ d[k + 1] = d[(k + 1) - 1] + lat[k + 1]
      BY <1>4, <1>5, <2>1
    <3> QED
      BY <2>1, <3>1
  <2>4. c[k] <= d[k]
    BY <1>7
  <2> QED
    BY <2>1, <2>2, <2>3, <2>4
<1>8. n \in T
  <2> HIDE DEF T
  <2>1. \A k \in 0 .. n : k \in T
    BY <1>6, <1>7, SetInduction
  <2> QED
    BY <2>1
<1> QED
  BY <1>1, <1>2, <1>8

\* PathLatency adds up the latencies of a set of nodes.
LEMMA PathLatencyIs ==
  ASSUME N \in Nat, NEW lat \in [1 .. N -> Nat], \A i \in 1 .. N : lat[i] = LatencyOf(i),
         NEW P \in SUBSET (1 .. N)
  PROVE  PathLatency(P) = Total(lat, N, P)
<1> DEFINE pick(s) == CHOOSE x \in s : TRUE
           Step(d, s) == IF s = {} THEN 0 ELSE LatencyOf(pick(s)) + d[s \ {pick(s)}]
           Eq(d) == d = [s \in SUBSET P |-> Step(d, s)]
           D == CHOOSE d : Eq(d)
           total(s) == Total(lat, N, s)
<1>1. PathLatency(P) = D[P]
  BY Zenon DEF PathLatency, MapThenSumSet, MapThenFoldSet
<1>2. \A s \in SUBSET P : s # {} => pick(s) \in s
  OBVIOUS
<1> HIDE DEF pick
<1>3. \A s \in SUBSET P : s # {} => total(s) = LatencyOf(pick(s)) + total(s \ {pick(s)})
  <2> SUFFICES ASSUME NEW s \in SUBSET P, s # {}
               PROVE  total(s) = LatencyOf(pick(s)) + total(s \ {pick(s)})
    OBVIOUS
  <2> DEFINE x == pick(s)
             r == s \ {x}
  <2>1. x \in s /\ x \in 1 .. N /\ x \notin r /\ s = r \cup {x}
    BY <1>2
  <2>2. lat[x] = LatencyOf(x)
    BY <2>1
  <2> HIDE DEF r, x
  <2>3. Total(lat, N, r \cup {x}) = lat[x] + Total(lat, N, r)
    BY <2>1, TotalAdd
  <2> QED
    BY <2>1, <2>2, <2>3 DEF r, x
<1>4. total({}) = 0
  BY TotalEmpty
<1> HIDE DEF total
<1>5. \E d : Eq(d)
  <2> DEFINE t == [s \in SUBSET P |-> total(s)]
  <2>1. ASSUME NEW s \in SUBSET P
        PROVE  total(s) = Step(t, s)
    <3>1. CASE s = {}
      BY <1>4, <3>1
    <3>2. CASE s # {}
      <4>1. s \ {pick(s)} \in SUBSET P
        OBVIOUS
      <4>2. t[s \ {pick(s)}] = total(s \ {pick(s)})
        BY <4>1
      <4> HIDE DEF t
      <4> QED
        BY <1>3, <3>2, <4>2
    <3> QED
      BY <3>1, <3>2
  <2>2. t = [s \in SUBSET P |-> Step(t, s)]
    <3> HIDE DEF Step
    <3> QED
      BY <2>1
  <2> HIDE DEF t, Step
  <2> QED
    BY <2>2
<1>6. Eq(D)
  <2> HIDE DEF Eq
  <2> QED
    BY <1>5
<1> HIDE DEF D
<1>7. \A s \in SUBSET P : D[s] = Step(D, s)
  <2> HIDE DEF Step
  <2> QED
    BY <1>6
<1>8. IsFiniteSet(P) /\ Cardinality(P) \in Nat
  <2>1. IsFiniteSet(1 .. N)
    BY FS_Interval
  <2>2. IsFiniteSet(P)
    BY <2>1, FS_Subset
  <2> QED
    BY <2>2, FS_CardinalityType
<1> DEFINE T == {k \in 0 .. Cardinality(P) : \A s \in SUBSET P : Cardinality(s) = k => D[s] = total(s)}
<1>9. 0 \in T
  <2>1. ASSUME NEW s \in SUBSET P, Cardinality(s) = 0
        PROVE  D[s] = total(s)
    <3>1. s = {}
      BY <1>8, <2>1, FS_Subset, FS_EmptySet
    <3> QED
      BY <1>4, <1>7, <3>1
  <2> QED
    BY <1>8, <2>1
<1>10. ASSUME NEW k \in 0 .. (Cardinality(P) - 1), k \in T
       PROVE  k + 1 \in T
  <2>1. k + 1 \in 0 .. Cardinality(P) /\ k \in Nat
    BY <1>8
  <2>2. ASSUME NEW s \in SUBSET P, Cardinality(s) = k + 1
        PROVE  D[s] = total(s)
    <3> DEFINE x == pick(s)
               r == s \ {x}
    <3>1. IsFiniteSet(s)
      BY <1>8, FS_Subset
    <3>2. s # {}
      <4>1. Cardinality({}) = 0 /\ k + 1 # 0
        BY <2>1, FS_EmptySet
      <4> QED
        BY <2>2, <4>1
    <3>3. x \in s /\ r \in SUBSET P
      BY <1>2, <3>2
    <3>4. Cardinality(r) = k
      <4>1. Cardinality(r) = Cardinality(s) - 1
        BY <3>1, <3>3, FS_RemoveElement
      <4> QED
        BY <2>1, <2>2, <4>1
    <3>5. D[r] = total(r)
      BY <1>10, <3>3, <3>4
    <3> HIDE DEF T
    <3> QED
      BY <1>3, <1>7, <3>2, <3>5
  <2> QED
    BY <2>1, <2>2
<1>11. Cardinality(P) \in T
  <2> HIDE DEF T
  <2>1. \A k \in 0 .. Cardinality(P) : k \in T
    BY <1>8, <1>9, <1>10, SetInduction
  <2> QED
    BY <1>8, <2>1
<1>12. D[P] = total(P)
  BY <1>11
<1> QED
  BY <1>1, <1>12 DEF total
-----------------------------------------------------------------------------
(***************************************************************************)
(* Paths in a graph sc over the nodes 1 .. n whose edges go forward.       *)
(***************************************************************************)
Forward(sc, n) ==
  /\ sc \in [1 .. n -> SUBSET (1 .. n)]
  /\ \A p \in 1 .. n : \A j \in sc[p] : p < j

Consecutive(P, p, q) == p < q /\ \A r \in P : ~(p < r /\ r < q)

PathsOf(sc, n, i) ==
  {P \in SUBSET (1 .. n) :
     /\ i \in P
     /\ \A p \in P : i <= p
     /\ \A p, q \in P : Consecutive(P, p, q) => q \in sc[p]}

\* A path is its first node, or that and a path from a successor.
LEMMA PathSplit ==
  ASSUME NEW n \in Nat, NEW sc, Forward(sc, n), NEW i \in 1 .. n
  PROVE  /\ {i} \in PathsOf(sc, n, i)
         /\ \A j \in sc[i] : \A Q \in PathsOf(sc, n, j) : i \notin Q /\ Q \cup {i} \in PathsOf(sc, n, i)
         /\ \A P \in PathsOf(sc, n, i) :
              P = {i} \/ \E j \in sc[i] : \E Q \in PathsOf(sc, n, j) : i \notin Q /\ P = Q \cup {i}
<1>1. {i} \in PathsOf(sc, n, i)
  BY DEF PathsOf, Consecutive
<1>2. ASSUME NEW j \in sc[i], NEW Q \in PathsOf(sc, n, j)
      PROVE  i \notin Q /\ Q \cup {i} \in PathsOf(sc, n, i)
  <2> DEFINE P == Q \cup {i}
  <2>1. /\ Q \in SUBSET (1 .. n) /\ j \in Q /\ \A p \in Q : j <= p
        /\ \A p, q \in Q : Consecutive(Q, p, q) => q \in sc[p]
    BY <1>2 DEF PathsOf
  <2>2. i < j /\ i \in Int /\ j \in Int /\ \A p \in Q : p \in Int /\ i < p
    BY <1>2, <2>1 DEF Forward
  <2>3. ASSUME NEW p \in P, NEW q \in P, Consecutive(P, p, q)
        PROVE  q \in sc[p]
    <3>1. p < q /\ \A r \in P : ~(p < r /\ r < q)
      BY <2>3 DEF Consecutive
    <3>2. CASE p = i
      <4>1. q \in Q
        BY <2>2, <3>1, <3>2
      <4>2. j <= q /\ ~(j < q)
        BY <2>1, <2>2, <3>1, <3>2, <4>1
      <4>3. q = j
        BY <2>2, <4>1, <4>2
      <4> QED
        BY <3>2, <4>3
    <3>3. CASE p # i
      <4>1. p \in Q /\ q \in Q
        BY <2>2, <3>1, <3>3
      <4>2. Consecutive(Q, p, q)
        BY <3>1 DEF Consecutive
      <4> QED
        BY <2>1, <4>1, <4>2
    <3> QED
      BY <3>2, <3>3
  <2>4. P \in SUBSET (1 .. n) /\ i \in P /\ \A p \in P : i <= p
    <3>1. \A p \in P : p \in 1 .. n
      BY <2>1
    <3>2. \A p \in P : i <= p
      <4> TAKE p \in P
      <4>1. CASE p = i
        BY <2>2, <4>1
      <4>2. CASE p # i
        <5>1. p \in Q
          BY <4>2
        <5>2. p \in Int /\ i < p
          BY <2>2, <5>1
        <5> QED
          BY <2>2, <5>2
      <4> QED
        BY <4>1, <4>2
    <3> QED
      BY <3>1, <3>2
  <2>5. P \in PathsOf(sc, n, i)
    <3> HIDE DEF P
    <3> QED
      BY <2>3, <2>4 DEF PathsOf
  <2> QED
    BY <2>2, <2>5
<1>3. ASSUME NEW P \in PathsOf(sc, n, i), P # {i}
      PROVE  \E j \in sc[i] : \E Q \in PathsOf(sc, n, j) : i \notin Q /\ P = Q \cup {i}
  <2> DEFINE Q == P \ {i}
  <2>1. /\ P \in SUBSET (1 .. n) /\ i \in P /\ \A p \in P : i <= p
        /\ \A p, q \in P : Consecutive(P, p, q) => q \in sc[p]
    BY <1>3 DEF PathsOf
  <2>2. Q # {} /\ Q \in SUBSET Nat /\ P = Q \cup {i} /\ i \notin Q
    BY <1>3, <2>1
  <2>3. PICK j \in Q : \A y \in Q : j <= y
    <3> HIDE DEF Q
    <3> QED
      BY <2>2, LeastElement
  <2>4. \A p \in Q : p \in Nat /\ i < p
    BY <2>1, <2>2
  <2>5. j \in sc[i]
    <3>1. j \in P /\ i < j
      BY <2>4
    <3>2. ASSUME NEW r \in P, i < r, r < j
          PROVE  FALSE
      <4>1. r \in Q /\ r \in Nat /\ j \in Nat
        BY <2>1, <2>4, <3>2
      <4>2. j <= r
        BY <2>3, <4>1
      <4> QED
        BY <3>2, <4>1, <4>2
    <3>3. Consecutive(P, i, j)
      BY <3>1, <3>2 DEF Consecutive
    <3> QED
      BY <2>1, <3>1, <3>3
  <2>6. ASSUME NEW p \in Q, NEW q \in Q, Consecutive(Q, p, q)
        PROVE  q \in sc[p]
    <3>1. Consecutive(P, p, q)
      <4>1. p < q /\ \A r \in Q : ~(p < r /\ r < q)
        BY <2>6 DEF Consecutive
      <4>2. i \in Nat /\ p \in Nat /\ i < p
        BY <2>4
      <4>3. ~(p < i)
        BY <4>2
      <4>4. \A r \in P : ~(p < r /\ r < q)
        BY <2>2, <4>1, <4>3
      <4> QED
        BY <4>1, <4>4 DEF Consecutive
    <3> QED
      BY <2>1, <3>1
  <2>7. Q \in PathsOf(sc, n, j)
    <3>1. Q \in SUBSET (1 .. n)
      BY <2>1
    <3> HIDE DEF Q
    <3> QED
      BY <2>3, <2>6, <3>1 DEF PathsOf
  <2> HIDE DEF Q
  <2> QED
    BY <2>2, <2>5, <2>7
<1> QED
  BY <1>1, <1>2, <1>3

\* A bounded set of numbers has a greatest.
LEMMA MaxOfBounded ==
  ASSUME NEW b \in Nat, NEW S \in SUBSET (0 .. b), S # {}
  PROVE  Max(S) \in S /\ \A y \in S : y <= Max(S)
<1> DEFINE T == {x + 1 : x \in S}
<1>1. T \in SUBSET (1 .. (b + 1)) /\ T # {}
  <2>1. \A x \in S : x + 1 \in 1 .. (b + 1)
    OBVIOUS
  <2> QED
    BY <2>1
<1>2. PICK t \in T : \A y \in T : y <= t
  <2> HIDE DEF T
  <2>1. b + 1 \in Nat
    OBVIOUS
  <2> QED
    BY <1>1, <2>1, GreatestElement
<1>3. PICK x \in S : t = x + 1
  OBVIOUS
<1>4. ASSUME NEW y \in S PROVE y <= x
  <2>1. y + 1 \in T
    OBVIOUS
  <2>2. y + 1 <= x + 1
    BY <1>2, <1>3, <2>1
  <2>3. x \in Int /\ y \in Int
    OBVIOUS
  <2> QED
    BY <2>2, <2>3
<1>5. Max(S) = x
  <2>1. S \in SUBSET Int
    OBVIOUS
  <2> QED
    BY <1>4, <2>1, MaxIs
<1> QED
  BY <1>4, <1>5

\* The weight of the heaviest path from node i.
Weights(lat, sc, n, i) == {Total(lat, n, P) : P \in PathsOf(sc, n, i)}
Best(lat, sc, n, i) == Max(Weights(lat, sc, n, i))

\* There is a heaviest path, for there are finitely many weights.
LEMMA BestIsHeaviest ==
  ASSUME NEW n \in Nat, NEW lat \in [1 .. n -> Nat], NEW sc, Forward(sc, n), NEW i \in 1 .. n
  PROVE  /\ Best(lat, sc, n, i) \in Weights(lat, sc, n, i)
         /\ \A P \in PathsOf(sc, n, i) : Total(lat, n, P) <= Best(lat, sc, n, i)
         /\ Best(lat, sc, n, i) \in 0 .. Total(lat, n, 1 .. n)
<1> DEFINE S == Weights(lat, sc, n, i)
           b == Total(lat, n, 1 .. n)
<1>1. b \in Nat
  BY TotalSums
<1>2. \A P : Total(lat, n, P) \in 0 .. b
  <2> TAKE P
  <2>1. Total(lat, n, P) \in Nat /\ Total(lat, n, P) <= b
    BY TotalSums, TotalBound
  <2> HIDE DEF b
  <2> QED
    BY <1>1, <2>1
<1>3. S \in SUBSET (0 .. b) /\ S # {}
  <2>1. {i} \in PathsOf(sc, n, i)
    BY PathSplit
  <2> HIDE DEF b
  <2> QED
    BY <1>2, <2>1 DEF Weights
<1> HIDE DEF S, b
<1>4. Max(S) \in S /\ \A y \in S : y <= Max(S)
  BY <1>1, <1>3, MaxOfBounded
<1> QED
  BY <1>3, <1>4 DEF S, b, Weights, Best

\* The heaviest path goes on with the heaviest path from a successor.
LEMMA BestStep ==
  ASSUME NEW n \in Nat, NEW lat \in [1 .. n -> Nat], NEW sc, Forward(sc, n), NEW i \in 1 .. n
  PROVE  Best(lat, sc, n, i) = lat[i] + Max({0} \cup {Best(lat, sc, n, j) : j \in sc[i]})
<1> DEFINE best(j) == Best(lat, sc, n, j)
           total(P) == Total(lat, n, P)
           paths(j) == PathsOf(sc, n, j)
           b == total(1 .. n)
           B == {0} \cup {best(j) : j \in sc[i]}
           m == Max(B)
           S == Weights(lat, sc, n, i)
<1>1. b \in Nat /\ lat[i] \in Nat /\ \A P : total(P) \in Nat
  BY TotalSums
<1>2. \A j \in sc[i] : j \in 1 .. n
  BY DEF Forward
<1>3. \A j \in sc[i] : best(j) \in 0 .. b /\ \A Q \in paths(j) : total(Q) <= best(j)
  BY <1>2, BestIsHeaviest
<1>4. \A j \in sc[i] : \E Q \in paths(j) : best(j) = total(Q)
  <2> TAKE j \in sc[i]
  <2>1. best(j) \in Weights(lat, sc, n, j)
    BY <1>2, BestIsHeaviest
  <2> QED
    BY <2>1 DEF Weights
<1>5. /\ {i} \in paths(i)
      /\ \A j \in sc[i] : \A Q \in paths(j) : i \notin Q /\ Q \cup {i} \in paths(i)
      /\ \A P \in paths(i) : P = {i} \/ \E j \in sc[i] : \E Q \in paths(j) : i \notin Q /\ P = Q \cup {i}
  BY PathSplit
<1>6. \A Q : i \notin Q => total(Q \cup {i}) = lat[i] + total(Q)
  BY TotalAdd
<1>7. total({i}) = lat[i]
  <2>1. total({} \cup {i}) = lat[i] + total({})
    BY <1>6
  <2>2. total({}) = 0 /\ {} \cup {i} = {i}
    BY TotalEmpty
  <2> HIDE DEF total
  <2> QED
    BY <1>1, <2>1, <2>2
<1>8. S = {total(P) : P \in paths(i)}
  BY DEF Weights
<1> HIDE DEF best, total, paths, b
<1>9. m \in B /\ (\A y \in B : y <= m) /\ m \in Nat
  <2>1. B \in SUBSET (0 .. b) /\ B # {}
    BY <1>1, <1>3
  <2> HIDE DEF B
  <2>2. m \in B /\ \A y \in B : y <= m
    BY <1>1, <2>1, MaxOfBounded
  <2>3. m \in 0 .. b
    BY <2>1, <2>2
  <2> QED
    BY <1>1, <2>2, <2>3
<1>10. ASSUME NEW P \in paths(i) PROVE total(P) <= lat[i] + m
  <2>1. CASE P = {i}
    <3> HIDE DEF m
    <3> QED
      BY <1>1, <1>7, <1>9, <2>1
  <2>2. CASE P # {i}
    <3>1. PICK j \in sc[i] : \E Q \in paths(j) : i \notin Q /\ P = Q \cup {i}
      BY <1>5, <2>2
    <3>2. PICK Q \in paths(j) : i \notin Q /\ P = Q \cup {i}
      BY <3>1
    <3>3. total(P) = lat[i] + total(Q)
      BY <1>6, <3>2
    <3>4. total(Q) <= best(j) /\ best(j) \in Nat
      BY <1>1, <1>3
    <3>5. best(j) <= m
      <4>1. best(j) \in B
        OBVIOUS
      <4> HIDE DEF B, m
      <4> QED
        BY <1>9, <4>1
    <3>6. total(Q) \in Nat
      BY <1>1
    <3> HIDE DEF m
    <3> QED
      BY <1>1, <1>9, <3>3, <3>4, <3>5, <3>6
  <2> QED
    BY <2>1, <2>2
<1>11. lat[i] + m \in S
  <2>1. CASE m = 0
    <3>1. lat[i] + m = total({i})
      BY <1>1, <1>7, <2>1
    <3> HIDE DEF m, S
    <3> QED
      BY <1>5, <1>8, <3>1
  <2>2. CASE m # 0
    <3>1. PICK j \in sc[i] : m = best(j)
      BY <1>9, <2>2
    <3>2. PICK Q \in paths(j) : best(j) = total(Q)
      BY <1>4
    <3>3. total(Q \cup {i}) = lat[i] + m /\ Q \cup {i} \in paths(i)
      <4>1. i \notin Q /\ Q \cup {i} \in paths(i)
        BY <1>5
      <4> QED
        BY <1>6, <3>1, <3>2, <4>1
    <3> HIDE DEF m, S
    <3> QED
      BY <1>8, <3>3
  <2> QED
    BY <2>1, <2>2
<1> HIDE DEF m
<1>12. S \in SUBSET Int /\ \A y \in S : y <= lat[i] + m
  <2> HIDE DEF S
  <2> QED
    BY <1>1, <1>8, <1>10
<1>13. Max(S) = lat[i] + m
  <2> HIDE DEF S
  <2> QED
    BY <1>11, <1>12, MaxIs
<1> QED
  BY <1>13 DEF m, S, best, Best

\* The equation of compute_heights has one solution.
Solves(h, lat, sc, n) == h = [i \in 1 .. n |-> lat[i] + Max({0} \cup {h[j] : j \in sc[i]})]

\* The weight of the heaviest path is a solution ...
LEMMA BestSolves ==
  ASSUME NEW n \in Nat, NEW lat \in [1 .. n -> Nat], NEW sc, Forward(sc, n)
  PROVE  Solves([i \in 1 .. n |-> Best(lat, sc, n, i)], lat, sc, n)
<1> DEFINE best(i) == Best(lat, sc, n, i)
           h == [i \in 1 .. n |-> best(i)]
<1>1. ASSUME NEW i \in 1 .. n PROVE best(i) = lat[i] + Max({0} \cup {h[j] : j \in sc[i]})
  <2>1. best(i) = lat[i] + Max({0} \cup {best(j) : j \in sc[i]})
    BY BestStep
  <2>2. \A j \in sc[i] : h[j] = best(j)
    BY DEF Forward
  <2> HIDE DEF h, best
  <2>3. {h[j] : j \in sc[i]} = {best(j) : j \in sc[i]}
    BY <2>2
  <2> QED
    BY <2>1, <2>3
<1>2. h = [i \in 1 .. n |-> lat[i] + Max({0} \cup {h[j] : j \in sc[i]})]
  <2> DEFINE g(i) == lat[i] + Max({0} \cup {h[j] : j \in sc[i]})
  <2>1. \A i \in 1 .. n : best(i) = g(i)
    BY <1>1
  <2> HIDE DEF g, best
  <2>2. h = [i \in 1 .. n |-> g(i)]
    BY <2>1
  <2> QED
    BY <2>2 DEF g
<1> QED
  BY <1>2 DEF Solves

\* ... and there is no other: from the last node backwards, the equation leaves
\* no choice.
LEMMA SolutionIsBest ==
  ASSUME NEW n \in Nat, NEW lat \in [1 .. n -> Nat], NEW sc, Forward(sc, n), NEW h, Solves(h, lat, sc, n)
  PROVE  \A i \in 1 .. n : h[i] = Best(lat, sc, n, i)
<1> DEFINE best(i) == Best(lat, sc, n, i)
           T == {k \in 0 .. n : \A i \in 1 .. n : i > n - k => h[i] = best(i)}
<1>1. 0 \in T
  OBVIOUS
<1>2. ASSUME NEW k \in 0 .. (n - 1), k \in T
      PROVE  k + 1 \in T
  <2>1. ASSUME NEW i \in 1 .. n, i > n - (k + 1)
        PROVE  h[i] = best(i)
    <3>1. \A j \in sc[i] : j \in 1 .. n /\ j > n - k
      <4> TAKE j \in sc[i]
      <4>1. j \in 1 .. n /\ i < j
        BY DEF Forward
      <4> QED
        BY <2>1, <4>1
    <3>2. \A j \in sc[i] : h[j] = best(j)
      BY <1>2, <3>1
    <3>3. h[i] = lat[i] + Max({0} \cup {h[j] : j \in sc[i]})
      BY DEF Solves
    <3>4. best(i) = lat[i] + Max({0} \cup {best(j) : j \in sc[i]})
      BY BestStep
    <3> HIDE DEF best, T
    <3>5. {h[j] : j \in sc[i]} = {best(j) : j \in sc[i]}
      BY <3>2
    <3> QED
      BY <3>3, <3>4, <3>5
  <2> HIDE DEF best
  <2> QED
    BY <2>1
<1>3. n \in T
  <2> HIDE DEF T
  <2>1. \A k \in 0 .. n : k \in T
    BY <1>1, <1>2, SetInduction
  <2> QED
    BY <2>1
<1>4. \A i \in 1 .. n : i > n - n
  OBVIOUS
<1> QED
  BY <1>3, <1>4

-----------------------------------------------------------------------------
(***************************************************************************)
(* compute_heights.  Heights is the only solution of its equation over the *)
(* finished DAG, and the latency of the heaviest path is one.              *)
(***************************************************************************)
Latencies == [i \in Nodes |-> LatencyOf(i)]

\* The heights the loop issues by solve the equation for the block's DAG.
HeightInv == phase = "schedule" => Solves(height, Latencies, succs, N)

\* A latency is a number of cycles.
LEMMA LatenciesType == Latencies \in [1 .. N -> Nat]
<1>1. \A op : Latency(op) \in Nat
  BY DEF Latency
<1> QED
  BY <1>1 DEF Latencies, LatencyOf, Nodes

\* The DAG build_sched_dag made has edges from earlier to later nodes only.
LEMMA DagIsForward == IInv => Forward(succs, N) /\ N \in Nat
<1> SUFFICES ASSUME IInv PROVE Forward(succs, N) /\ N \in Nat
  OBVIOUS
<1>1. succs \in [1 .. N -> SUBSET (1 .. N)] /\ syllables \in Blocks
  BY DEF IInv, TypeOK, Nodes
<1>2. \A p \in 1 .. N : \A j \in succs[p] : p < j
  BY DEF IInv, DagInv, EdgesForward, Nodes
<1>3. N \in Nat
  BY <1>1, BlockFacts
<1> QED
  BY <1>1, <1>2, <1>3 DEF Forward

\* The recursive definition of compute_heights is met by what it defines.
LEMMA HeightsSolve == IInv => Solves(Heights, Latencies, succs, N)
<1> SUFFICES ASSUME IInv PROVE Solves(Heights, Latencies, succs, N)
  OBVIOUS
<1> DEFINE E(h) == h = [i \in Nodes |-> LatencyOf(i) + Max({0} \cup {h[j] : j \in succs[i]})]
<1>1. \A h : Solves(h, Latencies, succs, N) <=> E(h)
  <2> TAKE h
  <2> DEFINE g(i) == LatencyOf(i) + Max({0} \cup {h[j] : j \in succs[i]})
             f(i) == Latencies[i] + Max({0} \cup {h[j] : j \in succs[i]})
  <2>1. \A i \in Nodes : f(i) = g(i)
    BY DEF Latencies
  <2>2. Nodes = 1 .. N
    BY DEF Nodes
  <2> HIDE DEF f, g
  <2>3. [i \in Nodes |-> f(i)] = [i \in Nodes |-> g(i)]
    BY <2>1
  <2>4. [i \in 1 .. N |-> f(i)] = [i \in Nodes |-> g(i)]
    BY <2>2, <2>3
  <2> QED
    BY <2>4 DEF f, g, Solves
<1>2. \E h : E(h)
  <2>1. \E h : Solves(h, Latencies, succs, N)
    BY BestSolves, LatenciesType, DagIsForward
  <2> HIDE DEF E
  <2> QED
    BY <1>1, <2>1
<1>3. Heights = CHOOSE h : E(h)
  BY Zenon DEF Heights
<1>4. E(Heights)
  <2> HIDE DEF E
  <2> QED
    BY <1>2, <1>3, Zenon
<1> HIDE DEF E
<1> QED
  BY <1>1, <1>4

\* No heights are needed before the loop.
LEMMA InitHeightInv == Init => HeightInv
BY DEF Init, HeightInv

\* Heights are computed once, from the finished DAG, and neither they nor the
\* DAG change while nodes are issued.
LEMMA NextHeightInv == IInv /\ HeightInv /\ [Next]_vars => HeightInv'
<1> SUFFICES ASSUME IInv, HeightInv, [Next]_vars, phase' = "schedule"
             PROVE  Solves(height, Latencies, succs, N)'
  BY DEF HeightInv
<1>1. ASSUME syllables' = syllables PROVE Latencies' = Latencies /\ N' = N
  BY <1>1 DEF Latencies, LatencyOf, Nodes, N
<1>2. CASE StartScheduling
  <2>1. syllables' = syllables /\ succs' = succs /\ height' = Heights
    BY <1>2 DEF StartScheduling, dagVars
  <2>2. Solves(height', Latencies, succs, N)
    BY <2>1, HeightsSolve
  <2>3. Solves(height', Latencies', succs', N')
    BY <1>1, <2>1, <2>2
  <2> QED
    BY <2>3
<1>3. ASSUME phase = "schedule", syllables' = syllables, succs' = succs, height' = height
      PROVE  Solves(height, Latencies, succs, N)'
  <2>1. Solves(height, Latencies, succs, N)
    BY <1>3 DEF HeightInv
  <2>2. Solves(height', Latencies', succs', N')
    BY <1>1, <1>3, <2>1
  <2> QED
    BY <2>2
<1>4. ASSUME NEW i \in Nodes, Issue(i)
      PROVE  Solves(height, Latencies, succs, N)'
  <2>1. phase = "schedule" /\ syllables' = syllables /\ succs' = succs /\ height' = height
    BY <1>4 DEF Issue, dagVars
  <2> QED
    BY <1>3, <2>1
<1>5. CASE UNCHANGED vars
  <2>1. phase = "schedule" /\ syllables' = syllables /\ succs' = succs /\ height' = height
    BY <1>5 DEF vars, dagVars, schedVars
  <2> QED
    BY <1>3, <2>1
<1>6. ~ReturnShort /\ ~AddNode /\ ~Finish
  BY DEF ReturnShort, AddNode, Finish
<1>7. ~Terminated
  BY <1>5 DEF Terminated, vars
<1> QED
  BY <1>2, <1>4, <1>5, <1>6, <1>7 DEF Next

\* The paths of the block's DAG and their latencies.
LEMMA HeightIsHeaviest == IInv /\ HeightInv => HeightIsCriticalPath
<1> SUFFICES ASSUME IInv, HeightInv, phase = "schedule", NEW i \in Nodes
             PROVE  height[i] = Max({PathLatency(P) : P \in Paths(i)})
  BY DEF HeightIsCriticalPath
<1>1. Forward(succs, N) /\ N \in Nat /\ Latencies \in [1 .. N -> Nat]
  BY DagIsForward, LatenciesType
<1>2. i \in 1 .. N
  BY DEF Nodes
<1>3. height[i] = Best(Latencies, succs, N, i)
  <2>1. Solves(height, Latencies, succs, N)
    BY DEF HeightInv
  <2> QED
    BY <1>1, <1>2, <2>1, SolutionIsBest
<1>4. Paths(i) = PathsOf(succs, N, i)
  BY DEF Paths, PathsOf, Consecutive, Nodes
<1>5. ASSUME NEW P \in Paths(i) PROVE PathLatency(P) = Total(Latencies, N, P)
  <2>1. P \in SUBSET (1 .. N)
    BY DEF Paths, Nodes
  <2>2. \A k \in 1 .. N : Latencies[k] = LatencyOf(k)
    BY DEF Latencies, Nodes
  <2> QED
    BY <1>1, <2>1, <2>2, PathLatencyIs
<1>6. {PathLatency(P) : P \in Paths(i)} = Weights(Latencies, succs, N, i)
  <2> DEFINE f(P) == PathLatency(P)
             g(P) == Total(Latencies, N, P)
             S == Paths(i)
  <2>1. \A P \in S : f(P) = g(P)
    BY <1>5
  <2>2. Weights(Latencies, succs, N, i) = {g(P) : P \in S}
    BY <1>4 DEF Weights
  <2> HIDE DEF f, g, S
  <2>3. {f(P) : P \in S} = {g(P) : P \in S}
    BY <2>1
  <2>4. {f(P) : P \in S} = Weights(Latencies, succs, N, i)
    BY <2>2, <2>3
  <2> QED
    BY <2>4 DEF f, S
<1> QED
  BY <1>3, <1>6 DEF Best

\* For every block: the height compute_heights gives a node is the latency of
\* the heaviest dependence path that starts at it.
THEOREM SchedHeightIsCriticalPath == Spec => []HeightIsCriticalPath
BY InitIInv, NextIInv, InitHeightInv, NextHeightInv, HeightIsHeaviest, PTL DEF Spec
=============================================================================
