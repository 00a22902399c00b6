----------------------------- MODULE Traversal -----------------------------
(***************************************************************************)
(* What the worklist of instruction selection promises: it starts at the   *)
(* entry block, it only goes along edges of the control-flow graph, and it *)
(* stops when no edge leads to a block it has not visited.  The order is   *)
(* free.                                                                   *)
(***************************************************************************)
CONSTANTS
  Blocks,   \* the blocks of the graphs
  Entry,    \* the block where execution begins
  Graphs    \* the graphs, each a function from blocks to successor sets

VARIABLES
  graph,     \* the graph
  visited,   \* the blocks visited so far
  finished   \* whether the traversal has ended

vars == <<graph, visited, finished>>

Init == graph \in Graphs /\ visited = {} /\ finished = FALSE

\* The entry, or a successor of a visited block.
MayVisit(b) ==
  /\ b \notin visited
  /\ b = Entry \/ \E c \in visited : b \in graph[c]

Visit(b) ==
  /\ ~finished
  /\ MayVisit(b)
  /\ visited' = visited \cup {b}
  /\ UNCHANGED <<graph, finished>>

Finish ==
  /\ ~finished
  /\ \A b \in Blocks : ~MayVisit(b)
  /\ finished' = TRUE
  /\ UNCHANGED <<graph, visited>>

Terminated == finished /\ UNCHANGED vars

Next == (\E b \in Blocks : Visit(b)) \/ Finish \/ Terminated

Spec == Init /\ [][Next]_vars
-----------------------------------------------------------------------------
\* S contains every block that can be reached from the entry without going
\* through d.
ClosedAvoiding(S, d) ==
  /\ Entry # d => Entry \in S
  /\ \A b \in S : \A c \in graph[b] : c # d => c \in S

\* Every path from the entry to b goes through d.
Dominates(d, b) == \E S \in SUBSET Blocks : ClosedAvoiding(S, d) /\ b \notin S

\* When a block is visited, every block that dominates it has been: what a
\* block reads was defined in a block lowered before it, so that the lookups of
\* lower_operand ("VReg not found; value used before definition") cannot fail.
DominatorsFirst ==
  \A b \in visited : \A d \in Blocks : Dominates(d, b) => d \in visited
=============================================================================
