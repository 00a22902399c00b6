----------------------------- MODULE IselBlocks -----------------------------
(***************************************************************************)
(* The block structure that lower_function of                              *)
(* crates/vliw-backend/src/isel.rs gives a function: the worklist that     *)
(* lays out the blocks, the latches of back edges, the pieces a call       *)
(* splits a block into, and the blocks that receive the phi copies.        *)
(*                                                                         *)
(* An LLVM function is cfg: block -> [calls, term, t, f], how many calls   *)
(* the block has and its terminator "ret", "br" (to t) or "condbr" (to t   *)
(* or f); "reject" is a block that has a call lower_function does not      *)
(* support, and returns.  Every block with predecessors has phis; the      *)
(* copies of all phis of block b for predecessor p go the same way and are *)
(* the pair <<p, b>>.  MIR blocks hold only what this module is about:     *)
(* label and terminator.                                                   *)
(*                                                                         *)
(* Left out: labels are strings in the code and tuples here, so a block    *)
(* that the source calls `a__cont__0' or `a__latch__b' and that collides   *)
(* with a generated label does not occur; values are left out, and with    *)
(* them the two expects a value can fail: a constant as branch condition   *)
(* and an undef or poison incoming value of a phi.                         *)
(***************************************************************************)
EXTENDS Mir, FiniteSets

CONSTANTS
  Blocks,     \* LLVM blocks
  Entry,      \* the first of them
  Functions   \* the LLVM functions to lower

ASSUME EntryAssumption == Entry \in Blocks
ASSUME FunctionsAssumption ==
  Functions \subseteq [Blocks -> [calls : Nat, term : {"ret", "br", "condbr", "reject"},
                                  t : Blocks, f : Blocks]]

VARIABLES
  cfg,         \* the LLVM function
  worklist,    \* labels still to visit
  visited,
  mir_blocks,  \* the MIR blocks, in layout order
  edge_remap,  \* the edges that go through a latch
  call_count,
  copies,      \* position of a MIR block -> the phi copies appended to it
  phase        \* "lower", "phis", "done", "unsupported" or "panic"

vars == <<cfg, worklist, visited, mir_blocks, edge_remap, call_count, copies, phase>>

\* The LLVM successors of a block.
Succ(b) ==
  CASE cfg[b].term \in {"ret", "reject"} -> {}
    [] cfg[b].term = "br"     -> {cfg[b].t}
    [] cfg[b].term = "condbr" -> {cfg[b].t, cfg[b].f}

\* Labels: label_of, `{label}__latch__{fl}' and `{current}__cont__{n}', all
\* different from each other.
Label(b) == <<"block", b, 0>>
Latch(b, f) == <<"latch", b, f>>
Cont(b, n) == <<"cont", b, n>>

Init ==
  /\ cfg \in Functions
  /\ worklist = <<Entry>>
  /\ visited = {}
  /\ mir_blocks = <<>>
  /\ edge_remap = {}
  /\ call_count = 0
  /\ copies = <<>>
  /\ phase = "lower"

\* The label of the j-th piece of block b, the calls before it counted.
PieceLabel(b, j) == IF j = 1 THEN Label(b) ELSE Cont(b, call_count + j - 2)

\* The condition is some register; "branch condition not in vreg_map" (a
\* constant) is left out.
MirTerminator(b) ==
  CASE cfg[b].term = "ret"    -> Return
    [] cfg[b].term = "br"     -> Jump(Label(cfg[b].t))
    [] cfg[b].term = "condbr" -> Branch(VReg(0), Label(cfg[b].t))

\* The MIR blocks of block b: every call ends one and begins the next.
Pieces(b) ==
  [j \in 1 .. (cfg[b].calls + 1) |->
     MirBlock(PieceLabel(b, j), <<>>,
              IF j <= cfg[b].calls THEN DirectCall("callee", PieceLabel(b, j + 1))
              ELSE MirTerminator(b))]

\* The false target of block b has been placed already.
NeedsLatch(b, seen) == cfg[b].term = "condbr" /\ cfg[b].f \in seen

\* The targets of block b that are pushed, as sequences of one or none.
FalseNext(b, seen) ==
  IF cfg[b].term = "condbr" /\ cfg[b].f \notin seen THEN <<cfg[b].f>> ELSE <<>>
TrueNext(b, seen) ==
  IF cfg[b].term # "ret" /\ cfg[b].t \notin seen THEN <<cfg[b].t>> ELSE <<>>

\* Mutant: the false target goes to the back of the worklist.
EnqueueBack(b, rest, seen) == rest \o FalseNext(b, seen) \o TrueNext(b, seen)

\* Mutant: the next block of the text is pushed as well.
EnqueueTextual(b, rest, seen) ==
  FalseNext(b, seen) \o rest \o TrueNext(b, seen) \o (IF b + 1 \in Blocks THEN <<b + 1>> ELSE <<>>)

\* Mutant: the true target of a two-way branch is forgotten.
EnqueueFalseOnly(b, rest, seen) ==
  FalseNext(b, seen) \o rest \o (IF cfg[b].term = "br" THEN TrueNext(b, seen) ELSE <<>>)

\* The worklist with the targets of b: the false target comes next.
Enqueue(b, rest, seen) == FalseNext(b, seen) \o rest \o TrueNext(b, seen)

\* A turn of the worklist loop.
LowerBlock ==
  /\ phase = "lower"
  /\ worklist # <<>>
  /\ LET b == Head(worklist)
         seen == visited \cup {b}
         latch == MirBlock(Latch(b, cfg[b].f), <<>>, Jump(Label(cfg[b].f)))
     IN  /\ b \notin visited
         /\ cfg[b].term # "reject"
         /\ visited' = seen
         /\ worklist' = Enqueue(b, Tail(worklist), seen)
         /\ mir_blocks' = mir_blocks \o Pieces(b)
                            \o (IF NeedsLatch(b, seen) THEN <<latch>> ELSE <<>>)
         /\ edge_remap' = edge_remap \cup (IF NeedsLatch(b, seen) THEN {<<b, cfg[b].f>>} ELSE {})
         /\ call_count' = call_count + cfg[b].calls
  /\ UNCHANGED <<cfg, copies, phase>>

\* Mutant: the label goes to the back of the worklist.
SkipVisitedRequeues ==
  /\ phase = "lower"
  /\ worklist # <<>>
  /\ Head(worklist) \in visited
  /\ worklist' = Append(Tail(worklist), Head(worklist))
  /\ UNCHANGED <<cfg, visited, mir_blocks, edge_remap, call_count, copies, phase>>

\* A label that was pushed twice.
SkipVisited ==
  /\ phase = "lower"
  /\ worklist # <<>>
  /\ Head(worklist) \in visited
  /\ worklist' = Tail(worklist)
  /\ UNCHANGED <<cfg, visited, mir_blocks, edge_remap, call_count, copies, phase>>

\* A call that is indirect, to an external function, or of more than eight
\* arguments: lower_function returns UnsupportedFeature.
RejectCall ==
  /\ phase = "lower"
  /\ worklist # <<>>
  /\ Head(worklist) \notin visited
  /\ cfg[Head(worklist)].term = "reject"
  /\ phase' = "unsupported"
  /\ UNCHANGED <<cfg, worklist, visited, mir_blocks, edge_remap, call_count, copies>>

FinishLowering ==
  /\ phase = "lower"
  /\ worklist = <<>>
  /\ phase' = "phis"
  /\ UNCHANGED <<cfg, worklist, visited, mir_blocks, edge_remap, call_count, copies>>

\* The copies of the phis collected: a phi names all its predecessors, the
\* unreachable ones too.
PhiEdges == {e \in Blocks \X visited : e[2] \in Succ(e[1])}

\* Mutant: the copies of a remapped edge stay with the predecessor.
ActualPredIgnoresRemap(e) == Label(e[1])

\* Mutant: every false edge is taken to have a latch.
ActualPredAlwaysLatch(e) ==
  IF cfg[e[1]].term = "condbr" /\ cfg[e[1]].f = e[2] THEN Latch(e[1], e[2]) ELSE Label(e[1])

\* The block that gets the copies of edge e.
ActualPred(e) == IF e \in edge_remap THEN Latch(e[1], e[2]) ELSE Label(e[1])

\* The first MIR block with a label; there may be none.
Position(l) ==
  {i \in DOMAIN mir_blocks :
     mir_blocks[i].label = l /\ \A j \in 1 .. (i - 1) : mir_blocks[j].label # l}

\* The copies of each phi grouped by block, and lower_phi_copies.  "phi incoming
\* value not found" (undef, poison) is left out; serialising the copies of one block is module PhiCopies.
PlaceCopies ==
  /\ phase = "phis"
  /\ \A e \in PhiEdges : Position(ActualPred(e)) # {}
  /\ copies' = [i \in DOMAIN mir_blocks |-> {e \in PhiEdges : i \in Position(ActualPred(e))}]
  /\ phase' = "done"
  /\ UNCHANGED <<cfg, worklist, visited, mir_blocks, edge_remap, call_count>>

\* "phi predecessor block not found in MIR".
Panic ==
  /\ phase = "phis"
  /\ \E e \in PhiEdges : Position(ActualPred(e)) = {}
  /\ phase' = "panic"
  /\ UNCHANGED <<cfg, worklist, visited, mir_blocks, edge_remap, call_count, copies>>

Terminated == phase \in {"done", "unsupported", "panic"} /\ UNCHANGED vars

Next ==
  LowerBlock \/ SkipVisited \/ RejectCall \/ FinishLowering \/ PlaceCopies \/ Panic \/ Terminated

Spec == Init /\ [][Next]_vars

\* The loops are sequential code that runs until it is through.
FairSpec == Spec /\ WF_vars(Next)
-----------------------------------------------------------------------------
(***************************************************************************)
(* Properties.                                                             *)
(***************************************************************************)

\* The worklist implements the traversal of the control-flow graph: it visits
\* along edges only, and does not end, unless with an error, before every
\* successor is visited.
Graph == INSTANCE Traversal WITH
  graph <- [b \in Blocks |-> Succ(b)],
  Graphs <- [Blocks -> SUBSET Blocks],
  finished <- phase \notin {"lower", "unsupported"}

ImplementsTraversal == Graph!Spec

\* When a block is lowered, all blocks that dominate it have been.
DominatorsFirst == Graph!DominatorsFirst

\* The values the variables may have.
TypeOK ==
  /\ worklist \in Seq(Blocks)
  /\ visited \subseteq Blocks
  /\ edge_remap \subseteq visited \X visited
  /\ call_count \in Nat
  /\ phase \in {"lower", "phis", "done", "unsupported", "panic"}
  /\ phase = "done" => DOMAIN copies = DOMAIN mir_blocks

\* The positions of the pieces of block b, and the last of them.
PiecesOf(b) ==
  {i \in DOMAIN mir_blocks : mir_blocks[i].label[2] = b /\ mir_blocks[i].label[1] # "latch"}
LastPiece(b) == CHOOSE i \in PiecesOf(b) : \A j \in PiecesOf(b) : j <= i

\* The LLVM block that control reaches with MIR block i, through a latch or not.
Reaches(i) ==
  IF mir_blocks[i].label[1] = "latch" THEN mir_blocks[i].terminator.label
  ELSE mir_blocks[i].label

\* "The false-target block is placed immediately after the branch block" (the
\* header of isel.rs): once lowering has ended, the last piece of every lowered
\* block branches to its true target and falls through to its false target or to
\* a latch for it; a call is followed by its continuation; no label is used
\* twice.  The MIR has the control flow of the LLVM function.
ControlFlowKept ==
  phase \in {"phis", "done"} =>
    /\ \A i, j \in DOMAIN mir_blocks : mir_blocks[i].label = mir_blocks[j].label => i = j
    /\ \A i \in DOMAIN mir_blocks :
         mir_blocks[i].terminator.op = "call" =>
           /\ i + 1 \in DOMAIN mir_blocks
           /\ mir_blocks[i + 1].label = mir_blocks[i].terminator.label
    /\ \A b \in visited :
         /\ mir_blocks[LastPiece(b)].terminator = MirTerminator(b)
         /\ Cardinality(PiecesOf(b)) = cfg[b].calls + 1
         /\ cfg[b].term = "condbr" =>
              /\ LastPiece(b) + 1 \in DOMAIN mir_blocks
              /\ Reaches(LastPiece(b) + 1) = Label(cfg[b].f)

\* The edges of the control-flow graph that leave lowered blocks, by side.
Edges ==
  {<<b, "t">> : b \in {c \in visited : cfg[c].term # "ret"}}
    \cup {<<b, "f">> : b \in {c \in visited : cfg[c].term = "condbr"}}
Target(e) == IF e[2] = "t" THEN cfg[e[1]].t ELSE cfg[e[1]].f
Latched(e) == e[2] = "f" /\ <<e[1], Target(e)>> \in edge_remap
SameTargets(b) == cfg[b].term = "condbr" /\ cfg[b].t = cfg[b].f

\* The phi copies that run on the way from the start of the source of e to its
\* target.
CopiesOn(e) ==
  (UNION {copies[i] : i \in PiecesOf(e[1])})
    \cup (IF Latched(e) THEN copies[LastPiece(e[1]) + 1] ELSE {})

CopiesOf(e) == <<e[1], Target(e)>>

\* No edge loses its copies (unless both sides of a branch go to one visited
\* block), a latch keeps the copies of its edge off the other side, and an
\* unconditional edge gets its own copies and no others.
CopiesReachTheirEdge ==
  phase = "done" =>
    \A e \in Edges :
      /\ ~(SameTargets(e[1]) /\ e[2] = "t" /\ <<e[1], Target(e)>> \in edge_remap) =>
           CopiesOf(e) \in CopiesOn(e)
      /\ (Latched(e) /\ ~SameTargets(e[1])) => CopiesOf(e) \notin CopiesOn(<<e[1], "t">>)
      /\ cfg[e[1]].term = "br" => CopiesOn(e) = {CopiesOf(e)}

\* The lookup in lower_phi_copies ("phi predecessor block not found in MIR")
\* fails only for a predecessor that control cannot reach, never because of a
\* latch, a call split or the order of the blocks.
PanicOnlyUnreachable ==
  phase = "panic" => \E b \in Blocks \ visited : Succ(b) \cap visited # {}

\* The worklist loop ends for every control-flow graph.
Terminates == <>(phase \in {"done", "unsupported", "panic"})
=============================================================================
