-------------------------- MODULE IselBlocksProofs --------------------------
(***************************************************************************)
(* Theorems about lower_function and lower_phi_copies (isel.rs), for every *)
(* function: the worklist implements the traversal of the control-flow     *)
(* graph, dominators are lowered first, the blocks laid out have the       *)
(* control flow of the IR, and the phi copies of an edge run on it.        *)
(***************************************************************************)
EXTENDS IselBlocks, SequenceTheorems, FiniteSetTheorems, TLAPS

Elems(s) == {s[i] : i \in DOMAIN s}

\* The blocks an edge leads to from a visited block, and the entry.
Frontier == {b \in Blocks : b = Entry \/ \E c \in visited : b \in Succ(c)}

\* What waits on the worklist may be visited, and what may be visited and has
\* not been waits on the worklist.
WorklistIsFrontier ==
  /\ Elems(worklist) \subseteq Frontier
  /\ Frontier \subseteq visited \cup Elems(worklist)

\* The loop only ends with an empty worklist.
EndsEmpty == phase \notin {"lower", "unsupported"} => worklist = <<>>

\* As long as d is not visited, everything visited is in every set that cannot
\* be left without going through d.
VisitedAvoiding ==
  \A d \in Blocks : \A S \in SUBSET Blocks :
    d \notin visited /\ Graph!ClosedAvoiding(S, d) => visited \subseteq S

\* The inductive invariant.
Inv ==
  /\ cfg \in Functions
  /\ TypeOK
  /\ WorklistIsFrontier
  /\ EndsEmpty
  /\ VisitedAvoiding
-----------------------------------------------------------------------------
(***************************************************************************)
(* Sequences and the sets of their elements.                               *)
(***************************************************************************)
LEMMA ElemsOfConcat ==
  ASSUME NEW S, NEW s \in Seq(S), NEW t \in Seq(S)
  PROVE  s \o t \in Seq(S) /\ Elems(s \o t) = Elems(s) \cup Elems(t)
<1> DEFINE c == s \o t
<1>1. /\ c \in Seq(S)
      /\ Len(c) = Len(s) + Len(t)
      /\ \A i \in 1 .. Len(s) + Len(t) : c[i] = IF i <= Len(s) THEN s[i] ELSE t[i - Len(s)]
  BY ConcatProperties
<1>2. /\ Len(s) \in Nat /\ Len(t) \in Nat
      /\ DOMAIN s = 1 .. Len(s) /\ DOMAIN t = 1 .. Len(t) /\ DOMAIN c = 1 .. Len(c)
  BY <1>1, LenProperties
<1> HIDE DEF c
<1>3. Elems(c) \subseteq Elems(s) \cup Elems(t)
  <2> SUFFICES ASSUME NEW i \in DOMAIN c
               PROVE  c[i] \in Elems(s) \cup Elems(t)
    BY DEF Elems
  <2>1. CASE i <= Len(s)
    <3>1. i \in DOMAIN s /\ c[i] = s[i]
      BY <1>1, <1>2, <2>1
    <3> QED
      BY <3>1 DEF Elems
  <2>2. CASE ~(i <= Len(s))
    <3>1. i - Len(s) \in DOMAIN t /\ c[i] = t[i - Len(s)]
      BY <1>1, <1>2, <2>2
    <3> QED
      BY <3>1 DEF Elems
  <2> QED
    BY <2>1, <2>2
<1>4. Elems(s) \subseteq Elems(c)
  BY <1>1, <1>2 DEF Elems
<1>5. Elems(t) \subseteq Elems(c)
  <2> SUFFICES ASSUME NEW j \in 1 .. Len(t)
               PROVE  t[j] \in Elems(c)
    BY <1>2 DEF Elems
  <2>1. Len(s) + j \in DOMAIN c /\ c[Len(s) + j] = t[j]
    BY <1>1, <1>2
  <2> QED
    BY <2>1 DEF Elems
<1> QED
  BY <1>1, <1>3, <1>4, <1>5 DEF c

LEMMA ElemsOfTail ==
  ASSUME NEW S, NEW s \in Seq(S), s # <<>>
  PROVE  /\ Head(s) \in S
         /\ Tail(s) \in Seq(S)
         /\ Elems(s) = {Head(s)} \cup Elems(Tail(s))
<1> DEFINE r == Tail(s)
<1>1. /\ Head(s) \in S /\ r \in Seq(S)
      /\ Len(r) = Len(s) - 1
      /\ \A i \in 1 .. Len(r) : r[i] = s[i + 1]
  BY HeadTailProperties
<1>2. /\ Len(s) \in Nat \ {0} /\ Head(s) = s[1]
      /\ DOMAIN s = 1 .. Len(s) /\ DOMAIN r = 1 .. Len(r)
  BY <1>1, LenProperties, EmptySeq
<1> HIDE DEF r
<1>3. Elems(s) \subseteq {Head(s)} \cup Elems(r)
  <2> SUFFICES ASSUME NEW i \in 1 .. Len(s), i # 1
               PROVE  s[i] \in Elems(r)
    BY <1>2 DEF Elems
  <2>1. i - 1 \in DOMAIN r /\ r[i - 1] = s[i]
    BY <1>1, <1>2
  <2> QED
    BY <2>1 DEF Elems
<1>4. Elems(r) \subseteq Elems(s)
  <2> SUFFICES ASSUME NEW i \in 1 .. Len(r)
               PROVE  r[i] \in Elems(s)
    BY <1>2 DEF Elems
  <2>1. i + 1 \in DOMAIN s /\ r[i] = s[i + 1]
    BY <1>1, <1>2
  <2> QED
    BY <2>1 DEF Elems
<1>5. Head(s) \in Elems(s)
  <2>1. 1 \in DOMAIN s
    BY <1>2
  <2> QED
    BY <1>2, <2>1 DEF Elems
<1> QED
  BY <1>1, <1>3, <1>4, <1>5 DEF r

LEMMA ElemsOfShort ==
  /\ Elems(<<>>) = {}
  /\ \A x : Elems(<<x>>) = {x}
  BY DEF Elems
-----------------------------------------------------------------------------
(***************************************************************************)
(* The control-flow graph.                                                 *)
(***************************************************************************)
LEMMA BlockRecord ==
  ASSUME cfg \in Functions, NEW b \in Blocks
  PROVE  /\ cfg[b].calls \in Nat
         /\ cfg[b].term \in {"ret", "br", "condbr", "reject"}
         /\ cfg[b].t \in Blocks
         /\ cfg[b].f \in Blocks
  BY FunctionsAssumption

LEMMA SuccIsBlocks ==
  ASSUME cfg \in Functions, NEW b \in Blocks
  PROVE  Succ(b) \subseteq Blocks
  BY BlockRecord DEF Succ

\* Enqueue adds the successors that have not been seen, and nothing else.
LEMMA EnqueueElems ==
  ASSUME cfg \in Functions, NEW b \in Blocks, NEW rest \in Seq(Blocks), NEW seen,
         cfg[b].term # "reject"
  PROVE  /\ Enqueue(b, rest, seen) \in Seq(Blocks)
         /\ Elems(Enqueue(b, rest, seen)) = Elems(rest) \cup (Succ(b) \ seen)
<1>1. FalseNext(b, seen) \in Seq(Blocks) /\ TrueNext(b, seen) \in Seq(Blocks)
  BY BlockRecord DEF FalseNext, TrueNext
<1>2. Elems(FalseNext(b, seen)) =
        IF cfg[b].term = "condbr" /\ cfg[b].f \notin seen THEN {cfg[b].f} ELSE {}
  BY ElemsOfShort, Zenon DEF FalseNext
<1>3. Elems(TrueNext(b, seen)) =
        IF cfg[b].term # "ret" /\ cfg[b].t \notin seen THEN {cfg[b].t} ELSE {}
  BY ElemsOfShort, Zenon DEF TrueNext
<1>4. Elems(FalseNext(b, seen)) \cup Elems(TrueNext(b, seen)) = Succ(b) \ seen
  BY <1>2, <1>3, BlockRecord DEF Succ
<1>5. /\ FalseNext(b, seen) \o rest \in Seq(Blocks)
      /\ Elems(FalseNext(b, seen) \o rest) = Elems(FalseNext(b, seen)) \cup Elems(rest)
  BY <1>1, ElemsOfConcat
<1>6. /\ Enqueue(b, rest, seen) \in Seq(Blocks)
      /\ Elems(Enqueue(b, rest, seen)) =
           Elems(FalseNext(b, seen) \o rest) \cup Elems(TrueNext(b, seen))
  <2> DEFINE front == FalseNext(b, seen) \o rest
             back == TrueNext(b, seen)
  <2>1. front \in Seq(Blocks) /\ back \in Seq(Blocks)
    BY <1>1, <1>5
  <2>2. Enqueue(b, rest, seen) = front \o back
    BY Zenon DEF Enqueue
  <2> HIDE DEF front, back
  <2>3. front \o back \in Seq(Blocks) /\ Elems(front \o back) = Elems(front) \cup Elems(back)
    BY <2>1, ElemsOfConcat
  <2> QED
    BY <2>2, <2>3 DEF front, back
<1> QED
  BY <1>4, <1>5, <1>6
-----------------------------------------------------------------------------
(***************************************************************************)
(* The invariant.                                                          *)
(***************************************************************************)
LEMMA InitInv == Init => Inv
<1> SUFFICES ASSUME Init
             PROVE  Inv
  OBVIOUS
<1>1. cfg \in Functions
  BY DEF Init
<1>2. TypeOK
  BY EntryAssumption DEF Init, TypeOK
<1>3. WorklistIsFrontier
  <2>1. Elems(worklist) = {Entry}
    BY ElemsOfShort DEF Init
  <2>2. Frontier = {Entry}
    BY EntryAssumption DEF Init, Frontier
  <2> QED
    BY <2>1, <2>2 DEF WorklistIsFrontier
<1>4. EndsEmpty
  BY DEF Init, EndsEmpty
<1>5. VisitedAvoiding
  BY DEF Init, VisitedAvoiding
<1> QED
  BY <1>1, <1>2, <1>3, <1>4, <1>5 DEF Inv

\* What a turn of the loop does to the two sets the invariant relates.
LEMMA LowerBlockSets ==
  ASSUME Inv, LowerBlock
  PROVE  /\ Head(worklist) \in Frontier \ visited
         /\ visited' = visited \cup {Head(worklist)}
         /\ worklist' \in Seq(Blocks)
         /\ Elems(worklist') =
              Elems(Tail(worklist)) \cup (Succ(Head(worklist)) \ visited')
         /\ Elems(worklist) = {Head(worklist)} \cup Elems(Tail(worklist))
<1>1. worklist \in Seq(Blocks) /\ worklist # <<>>
  BY DEF Inv, TypeOK, LowerBlock
<1>2. /\ Head(worklist) \in Blocks
      /\ Tail(worklist) \in Seq(Blocks)
      /\ Elems(worklist) = {Head(worklist)} \cup Elems(Tail(worklist))
  BY <1>1, ElemsOfTail
<1>3. /\ Head(worklist) \notin visited
      /\ cfg[Head(worklist)].term # "reject"
      /\ visited' = visited \cup {Head(worklist)}
      /\ worklist' = Enqueue(Head(worklist), Tail(worklist), visited')
  BY DEF LowerBlock
<1>4. /\ Enqueue(Head(worklist), Tail(worklist), visited') \in Seq(Blocks)
      /\ Elems(Enqueue(Head(worklist), Tail(worklist), visited')) =
           Elems(Tail(worklist)) \cup (Succ(Head(worklist)) \ visited')
  BY <1>2, <1>3, EnqueueElems DEF Inv
<1>5. Head(worklist) \in Frontier
  BY <1>2 DEF Inv, WorklistIsFrontier
<1> QED
  BY <1>2, <1>3, <1>4, <1>5

\* Visiting b along an edge keeps the visited blocks inside every set that
\* cannot be left around a block still unvisited.
LEMMA LowerBlockInv ==
  ASSUME Inv, LowerBlock
  PROVE  Inv'
<1> DEFINE b == Head(worklist)
<1>1. /\ b \in Frontier \ visited
      /\ visited' = visited \cup {b}
      /\ worklist' \in Seq(Blocks)
      /\ Elems(worklist') = Elems(Tail(worklist)) \cup (Succ(b) \ visited')
      /\ Elems(worklist) = {b} \cup Elems(Tail(worklist))
  BY LowerBlockSets
<1>2. cfg' = cfg /\ copies' = copies /\ phase' = phase /\ phase = "lower"
  BY DEF LowerBlock
<1>3. b \in Blocks
  BY <1>1 DEF Frontier
<1>4. \A c \in Blocks : Succ(c)' = Succ(c)
  BY <1>2 DEF Succ
<1>5. TypeOK'
  <2>1. edge_remap' \subseteq visited' \X visited'
    <3>1. edge_remap' = edge_remap \cup (IF NeedsLatch(b, visited') THEN {<<b, cfg[b].f>>} ELSE {})
      BY DEF LowerBlock
    <3>2. NeedsLatch(b, visited') => cfg[b].f \in visited'
      BY DEF NeedsLatch
    <3>3. edge_remap' \subseteq edge_remap \cup ({b} \X visited')
      BY <3>1, <3>2
    <3>4. edge_remap \subseteq visited \X visited
      BY DEF Inv, TypeOK
    <3>5. visited \subseteq visited' /\ b \in visited'
      BY <1>1
    <3> QED
      BY <3>3, <3>4, <3>5
  <2>2. call_count' \in Nat
    <3>1. call_count' = call_count + cfg[b].calls
      BY DEF LowerBlock
    <3> QED
      BY <1>3, <3>1, BlockRecord DEF Inv, TypeOK
  <2> QED
    BY <1>1, <1>2, <1>3, <2>1, <2>2 DEF Inv, TypeOK
<1>6. Frontier' = Frontier \cup Succ(b)
  BY <1>1, <1>2, <1>3, <1>4, SuccIsBlocks DEF Inv, TypeOK, Frontier
<1>7. WorklistIsFrontier'
  BY <1>1, <1>6 DEF Inv, WorklistIsFrontier
<1>8. EndsEmpty'
  BY <1>2 DEF EndsEmpty
<1>9. VisitedAvoiding'
  <2> SUFFICES ASSUME NEW d \in Blocks, NEW S \in SUBSET Blocks,
                      d \notin visited', Graph!ClosedAvoiding(S, d)'
               PROVE  visited' \subseteq S
    BY DEF VisitedAvoiding
  <2>1. Graph!ClosedAvoiding(S, d)
    BY <1>2, <1>4 DEF Graph!ClosedAvoiding
  <2>2. d \notin visited /\ d # b
    BY <1>1
  <2>3. visited \subseteq S
    BY <2>1, <2>2 DEF Inv, VisitedAvoiding
  <2>4. b \in S
    BY <1>1, <2>1, <2>2, <2>3 DEF Frontier, Graph!ClosedAvoiding
  <2> QED
    BY <1>1, <2>3, <2>4
<1> QED
  BY <1>2, <1>5, <1>7, <1>8, <1>9 DEF Inv

\* A label that was pushed twice is dropped: it has been visited.
LEMMA SkipVisitedInv ==
  ASSUME Inv, SkipVisited
  PROVE  Inv'
<1>1. worklist \in Seq(Blocks) /\ worklist # <<>>
  BY DEF Inv, TypeOK, SkipVisited
<1>2. /\ Tail(worklist) \in Seq(Blocks)
      /\ Elems(worklist) = {Head(worklist)} \cup Elems(Tail(worklist))
  BY <1>1, ElemsOfTail
<1>3. /\ worklist' = Tail(worklist) /\ Head(worklist) \in visited /\ phase = "lower"
      /\ UNCHANGED <<cfg, visited, mir_blocks, edge_remap, call_count, copies, phase>>
  BY DEF SkipVisited
<1>4. TypeOK'
  BY <1>2, <1>3 DEF Inv, TypeOK
<1>5. Frontier' = Frontier
  BY <1>3 DEF Frontier, Succ
<1>6. WorklistIsFrontier'
  BY <1>2, <1>3, <1>5 DEF Inv, WorklistIsFrontier
<1>7. VisitedAvoiding'
  BY <1>3 DEF Inv, VisitedAvoiding, Graph!ClosedAvoiding, Succ
<1> QED
  BY <1>3, <1>4, <1>6, <1>7 DEF Inv, EndsEmpty

\* The steps that leave the worklist and the visited blocks alone.
LEMMA PhaseInv ==
  ASSUME Inv, UNCHANGED <<cfg, worklist, visited, mir_blocks, edge_remap, call_count>>,
         phase' \in {"lower", "phis", "done", "unsupported", "panic"},
         EndsEmpty',
         phase' = "done" => DOMAIN copies' = DOMAIN mir_blocks
  PROVE  Inv'
<1>1. Elems(worklist)' = Elems(worklist) /\ Frontier' = Frontier
  BY DEF Elems, Frontier, Succ
<1>2. VisitedAvoiding'
  BY DEF Inv, VisitedAvoiding, Graph!ClosedAvoiding, Succ
<1> QED
  BY <1>1, <1>2 DEF Inv, TypeOK, WorklistIsFrontier

\* Every step of the worklist keeps the invariant.
LEMMA NextInv == Inv /\ [Next]_vars => Inv'
<1> SUFFICES ASSUME Inv, [Next]_vars
             PROVE  Inv'
  OBVIOUS
<1>1. CASE LowerBlock
  BY <1>1, LowerBlockInv
<1>2. CASE SkipVisited
  BY <1>2, SkipVisitedInv
<1>3. CASE RejectCall
  BY <1>3, PhaseInv DEF RejectCall, EndsEmpty
<1>4. CASE FinishLowering
  BY <1>4, PhaseInv DEF FinishLowering, EndsEmpty
<1>5. CASE PlaceCopies
  BY <1>5, PhaseInv DEF PlaceCopies, Inv, EndsEmpty
<1>6. CASE Panic
  BY <1>6, PhaseInv DEF Panic, Inv, EndsEmpty
<1>7. CASE UNCHANGED vars
  <2>1. EndsEmpty'
    BY <1>7 DEF vars, Inv, EndsEmpty
  <2> QED
    BY <1>7, <2>1, PhaseInv DEF vars, Inv, TypeOK
<1> QED
  BY <1>1, <1>2, <1>3, <1>4, <1>5, <1>6, <1>7 DEF Next, Terminated

LEMMA InvHolds == Spec => []Inv
  BY InitInv, NextInv, PTL DEF Spec
-----------------------------------------------------------------------------
(***************************************************************************)
(* Theorems.                                                               *)
(***************************************************************************)

\* The variables of the worklist loop have the values TypeOK allows; a latched
\* edge joins two lowered blocks.
THEOREM TypeCorrect == Spec => []TypeOK
  BY InvHolds, PTL DEF Inv

\* When lower_function lowers a block it has lowered all blocks that dominate
\* it, so a value is defined before it is looked up, for every function.
THEOREM LowersDominatorsFirst == Spec => []DominatorsFirst
<1>1. Inv => DominatorsFirst
  <2> SUFFICES ASSUME Inv, NEW b \in visited, NEW d \in Blocks, Graph!Dominates(d, b)
               PROVE  d \in visited
    BY DEF DominatorsFirst, Graph!DominatorsFirst
  <2>1. PICK S \in SUBSET Blocks : Graph!ClosedAvoiding(S, d) /\ b \notin S
    BY DEF Graph!Dominates
  <2> QED
    BY <2>1 DEF Inv, VisitedAvoiding
<1> QED
  BY <1>1, InvHolds, PTL

\* Every step of the worklist loop is a step of the traversal of the
\* control-flow graph or leaves it alone: a turn of the loop visits along an
\* edge, and the loop ends when no edge leads out.
THEOREM WorklistTraverses == Spec => ImplementsTraversal
<1>1. Init => Graph!Init
  <2> SUFFICES ASSUME Init
               PROVE  [b \in Blocks |-> Succ(b)] \in [Blocks -> SUBSET Blocks]
    BY DEF Graph!Init, Init
  <2> QED
    BY SuccIsBlocks DEF Init
<1>2. Inv /\ [Next]_vars => [Graph!Next]_(Graph!vars)
  <2> SUFFICES ASSUME Inv, [Next]_vars
               PROVE  Graph!Next \/ UNCHANGED Graph!vars
    OBVIOUS
  <2>1. CASE LowerBlock
    <3> DEFINE b == Head(worklist)
    <3>1. b \in Frontier \ visited /\ visited' = visited \cup {b}
      BY <2>1, LowerBlockSets
    <3>2. cfg' = cfg /\ phase' = phase /\ phase = "lower"
      BY <2>1 DEF LowerBlock
    <3>3. b \in Blocks /\ Graph!MayVisit(b)
      BY <3>1 DEF Frontier, Graph!MayVisit, Inv, TypeOK
    <3>4. Graph!Visit(b)
      BY <3>1, <3>2, <3>3 DEF Graph!Visit, Succ
    <3> QED
      BY <3>3, <3>4 DEF Graph!Next
  <2>2. CASE FinishLowering
    <3>1. Frontier \subseteq visited
      BY <2>2, ElemsOfShort DEF FinishLowering, Inv, WorklistIsFrontier
    <3>2. \A b \in Blocks : ~Graph!MayVisit(b)
      BY <3>1 DEF Frontier, Graph!MayVisit, Inv, TypeOK
    <3>3. Graph!Finish
      BY <2>2, <3>2 DEF FinishLowering, Graph!Finish, Succ
    <3> QED
      BY <3>3 DEF Graph!Next
  <2>3. CASE SkipVisited \/ RejectCall \/ PlaceCopies \/ Panic \/ UNCHANGED vars
    <3>1. UNCHANGED <<cfg, visited>>
      BY <2>3 DEF SkipVisited, RejectCall, PlaceCopies, Panic, vars
    <3>2. (phase \notin {"lower", "unsupported"})' <=> phase \notin {"lower", "unsupported"}
      BY <2>3 DEF SkipVisited, RejectCall, PlaceCopies, Panic, vars
    <3>3. [b \in Blocks |-> Succ(b)]' = [b \in Blocks |-> Succ(b)]
      BY <3>1 DEF Succ
    <3> QED
      BY <3>1, <3>2, <3>3, Zenon DEF Graph!vars
  <2> QED
    BY <2>1, <2>2, <2>3 DEF Next, Terminated
<1> QED
  BY <1>1, <1>2, InvHolds, PTL DEF Spec, ImplementsTraversal, Graph!Spec
-----------------------------------------------------------------------------
(***************************************************************************)
(* The layout of the MIR blocks.                                           *)
(***************************************************************************)

\* A sequence of anything.
IsSequence(s) ==
  Len(s) \in Nat /\ DOMAIN s = 1 .. Len(s) /\ s = [i \in 1 .. Len(s) |-> s[i]]

\* c is s with t behind it.
Joins(c, s, t) ==
  /\ IsSequence(c) /\ Len(c) = Len(s) + Len(t)
  /\ \A i \in 1 .. Len(s) : c[i] = s[i]
  /\ \A i \in 1 .. Len(t) : c[Len(s) + i] = t[i]

LEMMA ConcatJoins ==
  ASSUME NEW s, IsSequence(s), NEW t, IsSequence(t)
  PROVE  Joins(s \o t, s, t)
<1> DEFINE S == Elems(s) \cup Elems(t)
           c == s \o t
<1>1. s \in [1 .. Len(s) -> S] /\ t \in [1 .. Len(t) -> S] /\ Len(s) \in Nat /\ Len(t) \in Nat
  BY DEF IsSequence, Elems
<1> HIDE DEF S
<1>2. s \in Seq(S) /\ t \in Seq(S)
  BY <1>1, SeqDef
<1>3. /\ c \in Seq(S) /\ Len(c) = Len(s) + Len(t)
      /\ \A i \in 1 .. Len(s) + Len(t) : c[i] = IF i <= Len(s) THEN s[i] ELSE t[i - Len(s)]
  BY <1>2, ConcatProperties
<1>4. IsSequence(c)
  <2>1. Len(c) \in Nat /\ DOMAIN c = 1 .. Len(c) /\ c \in [1 .. Len(c) -> S]
    BY <1>3, LenProperties
  <2> QED
    BY <2>1 DEF IsSequence
<1> HIDE DEF c
<1>5. \A i \in 1 .. Len(s) : c[i] = s[i]
  BY <1>1, <1>3
<1>6. ASSUME NEW i \in 1 .. Len(t) PROVE c[Len(s) + i] = t[i]
  <2>1. Len(s) + i \in 1 .. Len(s) + Len(t) /\ ~(Len(s) + i <= Len(s)) /\ Len(s) + i - Len(s) = i
    BY <1>1
  <2> QED
    BY <1>3, <2>1
<1> QED
  BY <1>3, <1>4, <1>5, <1>6 DEF c, Joins

LEMMA TabulateIsSequence ==
  ASSUME NEW n \in Nat, NEW s, s = [i \in 1 .. n |-> s[i]]
  PROVE  IsSequence(s) /\ Len(s) = n
<1>1. s \in [1 .. n -> Elems(s)]
  BY DEF Elems
<1>2. s \in Seq(Elems(s)) /\ DOMAIN s = 1 .. n
  BY <1>1, SeqDef
<1>3. Len(s) \in Nat /\ DOMAIN s = 1 .. Len(s)
  BY <1>2, LenProperties
<1>4. Len(s) = n
  BY <1>2, <1>3
<1> QED
  BY <1>3, <1>4 DEF IsSequence

\* The label and the whole of the j-th piece of block b of function g, if c
\* calls came before it.
LabelAt(b, j, c) == IF j = 1 THEN Label(b) ELSE Cont(b, c + j - 2)

EndOf(g, b) ==
  CASE g[b].term = "ret"    -> Return
    [] g[b].term = "br"     -> Jump(Label(g[b].t))
    [] g[b].term = "condbr" -> Branch(VReg(0), Label(g[b].t))

PieceAt(g, b, j, c) ==
  MirBlock(LabelAt(b, j, c), <<>>,
           IF j <= g[b].calls THEN DirectCall("callee", LabelAt(b, j + 1, c)) ELSE EndOf(g, b))

PiecesAt(g, b, c) == [j \in 1 .. (g[b].calls + 1) |-> PieceAt(g, b, j, c)]

LatchAt(g, b) == MirBlock(Latch(b, g[b].f), <<>>, Jump(Label(g[b].f)))

\* What a turn of the loop makes of the blocks mir: the pieces of b are put
\* behind them, and a latch if there is one.
Lowered(new, mir, g, b, c, latched) ==
  LET n == Len(mir)
      k == g[b].calls
  IN  /\ IsSequence(new) /\ Len(new) = n + k + 1 + (IF latched THEN 1 ELSE 0)
      /\ \A i \in 1 .. n : new[i] = mir[i]
      /\ \A j \in 1 .. (k + 1) : new[n + j] = PieceAt(g, b, j, c)
      /\ latched => new[n + k + 2] = LatchAt(g, b)

\* What a turn of the loop appends: the pieces of a block and, if there is one,
\* its latch.
LEMMA LoweredFacts ==
  ASSUME NEW mir, IsSequence(mir), NEW g, NEW b, g[b].calls \in Nat, NEW c, NEW latched \in BOOLEAN
  PROVE  Lowered(mir \o PiecesAt(g, b, c) \o (IF latched THEN <<LatchAt(g, b)>> ELSE <<>>),
                 mir, g, b, c, latched)
<1> DEFINE n == Len(mir)
           k == g[b].calls
           p == PiecesAt(g, b, c)
           l == IF latched THEN <<LatchAt(g, b)>> ELSE <<>>
           first == mir \o p
           new == first \o l
<1>1. n \in Nat /\ k \in Nat
  BY DEF IsSequence
<1>2. IsSequence(p) /\ Len(p) = k + 1 /\ \A j \in 1 .. (k + 1) : p[j] = PieceAt(g, b, j, c)
  <2>1. p = [j \in 1 .. (k + 1) |-> p[j]] /\ \A j \in 1 .. (k + 1) : p[j] = PieceAt(g, b, j, c)
    BY DEF PiecesAt
  <2>2. k + 1 \in Nat
    BY <1>1
  <2> HIDE DEF p, k
  <2> QED
    BY <2>1, <2>2, TabulateIsSequence
<1>3. IsSequence(l) /\ Len(l) = (IF latched THEN 1 ELSE 0) /\ (latched => l[1] = LatchAt(g, b))
  <2> DEFINE x == LatchAt(g, b)
  <2> HIDE DEF x
  <2>1. IsSequence(<<>>) /\ Len(<<>>) = 0
    BY DEF IsSequence
  <2>2. IsSequence(<<x>>) /\ Len(<<x>>) = 1 /\ <<x>>[1] = x
    BY DEF IsSequence
  <2>3. l = IF latched THEN <<x>> ELSE <<>>
    BY DEF x
  <2> HIDE DEF l
  <2>4. CASE latched
    BY <2>2, <2>3, <2>4 DEF x
  <2>5. CASE ~latched
    BY <2>1, <2>3, <2>5
  <2> QED
    BY <2>4, <2>5
<1> HIDE DEF p, l
<1>4. Joins(first, mir, p)
  BY <1>2, ConcatJoins
<1> HIDE DEF first
<1>5. Joins(new, first, l)
  <2>1. IsSequence(first)
    BY <1>4 DEF Joins
  <2> QED
    BY <1>3, <2>1, ConcatJoins
<1> HIDE DEF new, n, k
<1>6. IsSequence(first) /\ Len(first) = n + k + 1 /\ (\A i \in 1 .. n : first[i] = mir[i])
      /\ \A j \in 1 .. (k + 1) : first[n + j] = PieceAt(g, b, j, c)
  BY <1>1, <1>2, <1>4 DEF Joins, n
<1>7. IsSequence(new) /\ Len(new) = n + k + 1 + (IF latched THEN 1 ELSE 0)
      /\ (\A i \in 1 .. (n + k + 1) : new[i] = first[i])
      /\ \A i \in 1 .. Len(l) : new[n + k + 1 + i] = l[i]
  BY <1>3, <1>5, <1>6 DEF Joins
<1>8. \A i \in 1 .. n : new[i] = mir[i]
  BY <1>1, <1>6, <1>7
<1>9. ASSUME NEW j \in 1 .. (k + 1) PROVE new[n + j] = PieceAt(g, b, j, c)
  <2>1. n + j \in 1 .. (n + k + 1)
    BY <1>1
  <2> QED
    BY <1>6, <1>7, <2>1
<1>10. ASSUME latched PROVE new[n + k + 2] = LatchAt(g, b)
  <2>1. 1 \in 1 .. Len(l) /\ n + k + 1 + 1 = n + k + 2
    BY <1>1, <1>3, <1>10
  <2> QED
    BY <1>3, <1>7, <1>10, <2>1
<1> QED
  BY <1>7, <1>8, <1>9, <1>10 DEF Lowered, new, first, p, l, n, k

LEMMA PieceFields ==
  ASSUME NEW g, NEW b, NEW j, NEW c
  PROVE  /\ PieceAt(g, b, j, c).label = LabelAt(b, j, c)
         /\ PieceAt(g, b, j, c).terminator =
              IF j <= g[b].calls THEN DirectCall("callee", LabelAt(b, j + 1, c)) ELSE EndOf(g, b)
  BY DEF PieceAt, MirBlock

\* The pieces of one block have different labels.
LEMMA LabelFields ==
  ASSUME NEW b, NEW c \in Nat
  PROVE  /\ LabelAt(b, 1, c) = Label(b)
         /\ \A j \in Nat \ {0} : LabelAt(b, j, c)[2] = b /\ LabelAt(b, j, c)[1] \in {"block", "cont"}
         /\ \A i, j \in Nat \ {0} : LabelAt(b, i, c) = LabelAt(b, j, c) => i = j
<1>1. LabelAt(b, 1, c) = Label(b)
  BY DEF LabelAt
<1>2. ASSUME NEW j \in Nat \ {0}
      PROVE  LabelAt(b, j, c)[2] = b /\ LabelAt(b, j, c)[1] \in {"block", "cont"}
  BY DEF LabelAt, Label, Cont
<1>3. ASSUME NEW i \in Nat \ {0}, NEW j \in Nat \ {0}, LabelAt(b, i, c) = LabelAt(b, j, c)
      PROVE  i = j
  <2>1. CASE i = 1 \/ j = 1
    BY <1>3, <2>1 DEF LabelAt, Label, Cont
  <2>2. CASE i # 1 /\ j # 1
    <3>1. Cont(b, c + i - 2) = Cont(b, c + j - 2)
      BY <1>3, <2>2 DEF LabelAt
    <3>2. c + i - 2 = c + j - 2
      BY <3>1 DEF Cont
    <3> QED
      BY <3>2
  <2> QED
    BY <2>1, <2>2
<1> QED
  BY <1>1, <1>2, <1>3

LEMMA LatchFields ==
  ASSUME NEW g, NEW b
  PROVE  /\ LatchAt(g, b).label = Latch(b, g[b].f)
         /\ LatchAt(g, b).terminator = Jump(Label(g[b].f))
         /\ Latch(b, g[b].f)[1] = "latch" /\ Latch(b, g[b].f)[2] = b
  BY DEF LatchAt, MirBlock, Latch

\* Block b of function g begins behind position start[b], has its pieces there
\* and ends at this position.
EndsAt(g, start, b) == start[b] + g[b].calls + 1

\* Block x comes next.
Waits(list, seen, x) == list # <<>> /\ Head(list) = x /\ x \notin seen

\* The pieces of the blocks seen, and the latches of the edges remap, are where
\* start says, and there is nothing else.  Behind a two-way branch is its latch
\* or its false target, or the latter is the next block to be lowered.
Layout(g, mir, seen, remap, list, start, base) ==
  /\ IsSequence(mir)
  /\ \A b \in seen : start[b] \in Nat /\ base[b] \in Nat /\ EndsAt(g, start, b) <= Len(mir)
  /\ \A b \in seen : \A j \in 1 .. (g[b].calls + 1) : mir[start[b] + j] = PieceAt(g, b, j, base[b])
  /\ \A e \in remap : e[1] \in seen /\ e = <<e[1], g[e[1]].f>> /\ g[e[1]].term = "condbr"
  /\ \A i \in 1 .. Len(mir) : \E b \in seen :
       \/ \E j \in 1 .. (g[b].calls + 1) : i = start[b] + j
       \/ <<b, g[b].f>> \in remap /\ i = EndsAt(g, start, b) + 1
  /\ \A b \in seen : <<b, g[b].f>> \in remap =>
       EndsAt(g, start, b) + 1 <= Len(mir) /\ mir[EndsAt(g, start, b) + 1] = LatchAt(g, b)
  /\ \A b \in seen : g[b].term = "condbr" /\ <<b, g[b].f>> \notin remap =>
       \/ /\ EndsAt(g, start, b) + 1 <= Len(mir)
          /\ mir[EndsAt(g, start, b) + 1].label = Label(g[b].f)
       \/ EndsAt(g, start, b) = Len(mir) /\ Waits(list, seen, g[b].f)

Remapped(g, remap, b, latched) == remap \cup (IF latched THEN {<<b, g[b].f>>} ELSE {})

\* A turn of the loop lowers block b, from the layout given to the blocks new.
Turn(g, mir, seen, remap, list, start, base, b, c, latched, new, next) ==
  /\ Layout(g, mir, seen, remap, list, start, base)
  /\ seen \subseteq Blocks /\ b \notin seen /\ Head(list) = b
  /\ latched \in BOOLEAN
  /\ latched <=> g[b].term = "condbr" /\ g[b].f \in seen \cup {b}
  /\ Lowered(new, mir, g, b, c, latched)
  /\ g[b].term = "condbr" /\ g[b].f \notin seen \cup {b} => next # <<>> /\ Head(next) = g[b].f

\* It keeps the layout.
LEMMA LayoutStep ==
  ASSUME NEW g \in Functions, NEW mir, NEW seen, NEW remap, NEW list, NEW start, NEW base,
         NEW b \in Blocks, NEW c \in Nat, NEW latched, NEW new, NEW next,
         Turn(g, mir, seen, remap, list, start, base, b, c, latched, new, next)
  PROVE  \E start2, base2 : Layout(g, new, seen \cup {b}, Remapped(g, remap, b, latched), next, start2, base2)
<1> SUFFICES ASSUME Layout(g, mir, seen, remap, list, start, base),
                    seen \subseteq Blocks, b \notin seen, Head(list) = b, latched \in BOOLEAN,
                    latched <=> g[b].term = "condbr" /\ g[b].f \in seen \cup {b},
                    Lowered(new, mir, g, b, c, latched),
                    g[b].term = "condbr" /\ g[b].f \notin seen \cup {b} => next # <<>> /\ Head(next) = g[b].f
             PROVE  \E start2, base2 :
                      Layout(g, new, seen \cup {b}, Remapped(g, remap, b, latched), next, start2, base2)
  BY Zenon DEF Turn
<1> DEFINE n == Len(mir)
           k == g[b].calls
           seen2 == seen \cup {b}
           remap2 == Remapped(g, remap, b, latched)
           start2 == [x \in seen2 |-> IF x = b THEN n ELSE start[x]]
           base2 == [x \in seen2 |-> IF x = b THEN c ELSE base[x]]
           m == Len(new)
<1>0. n \in Nat /\ \A x \in Blocks : g[x].calls \in Nat
  BY FunctionsAssumption DEF Layout, IsSequence
<1>1. /\ IsSequence(new) /\ m = n + k + 1 + (IF latched THEN 1 ELSE 0)
      /\ (\A i \in 1 .. n : new[i] = mir[i])
      /\ (\A j \in 1 .. (k + 1) : new[n + j] = PieceAt(g, b, j, c))
      /\ latched => new[n + k + 2] = LatchAt(g, b)
  BY Zenon DEF Lowered
<1>2. /\ \A x \in seen : start[x] \in Nat /\ base[x] \in Nat /\ EndsAt(g, start, x) <= n
      /\ \A x \in seen : \A j \in 1 .. (g[x].calls + 1) : mir[start[x] + j] = PieceAt(g, x, j, base[x])
      /\ \A e \in remap : e[1] \in seen /\ e = <<e[1], g[e[1]].f>> /\ g[e[1]].term = "condbr"
  BY DEF Layout
<1>3. /\ \A x \in seen : x # b /\ x \in seen2 /\ start2[x] = start[x] /\ base2[x] = base[x]
                          /\ EndsAt(g, start2, x) = EndsAt(g, start, x)
      /\ b \in seen2 /\ start2[b] = n /\ base2[b] = c /\ EndsAt(g, start2, b) = n + k + 1
      /\ \A x \in seen2 : x \in seen \/ x = b
  BY DEF EndsAt
<1>3a. remap2 = remap \cup (IF latched THEN {<<b, g[b].f>>} ELSE {})
  BY Zenon DEF Remapped
<1>4. /\ \A x \in seen : <<x, g[x].f>> \in remap2 <=> <<x, g[x].f>> \in remap
      /\ <<b, g[b].f>> \in remap2 <=> latched
  <2>1. <<b, g[b].f>> \notin remap
    BY <1>2
  <2>2. \A x \in seen : <<x, g[x].f>> # <<b, g[b].f>>
    OBVIOUS
  <2> QED
    BY <1>3a, <2>1, <2>2
<1>5. n + k + 1 <= m /\ n <= m /\ m \in Nat /\ k \in Nat
  BY <1>0, <1>1
<1>6. \A x \in seen : /\ EndsAt(g, start, x) \in Nat /\ EndsAt(g, start, x) <= m
                      /\ EndsAt(g, start, x) + 1 \in Nat
                      /\ (EndsAt(g, start, x) + 1 <= n => EndsAt(g, start, x) + 1 \in 1 .. n
                                                       /\ EndsAt(g, start, x) + 1 <= m)
  <2> SUFFICES ASSUME NEW x \in seen
               PROVE  /\ EndsAt(g, start, x) \in Nat /\ EndsAt(g, start, x) <= m
                      /\ EndsAt(g, start, x) + 1 \in Nat
                      /\ (EndsAt(g, start, x) + 1 <= n => EndsAt(g, start, x) + 1 \in 1 .. n
                                                       /\ EndsAt(g, start, x) + 1 <= m)
    OBVIOUS
  <2>1. g[x].calls \in Nat /\ start[x] \in Nat /\ EndsAt(g, start, x) <= n
    BY <1>0, <1>2
  <2>2. EndsAt(g, start, x) \in Nat
    BY <2>1 DEF EndsAt
  <2> HIDE DEF n, m
  <2> QED
    BY <1>0, <1>5, <2>1, <2>2
<1> HIDE DEF n, k, seen2, remap2, start2, base2, m
<1>7. \A x \in seen2 : start2[x] \in Nat /\ base2[x] \in Nat /\ EndsAt(g, start2, x) <= m
  BY <1>0, <1>2, <1>3, <1>5, <1>6
<1>8. ASSUME NEW x \in seen2, NEW j \in 1 .. (g[x].calls + 1)
      PROVE  new[start2[x] + j] = PieceAt(g, x, j, base2[x])
  <2>1. CASE x \in seen
    <3>1. mir[start[x] + j] = PieceAt(g, x, j, base[x])
      BY <1>2, <1>8, <2>1
    <3>2. start[x] + j \in 1 .. n
      <4>1. start[x] \in Nat /\ g[x].calls \in Nat /\ start[x] + g[x].calls + 1 <= n
        BY <1>0, <1>2, <2>1 DEF EndsAt
      <4> QED
        BY <1>0, <1>8, <4>1
    <3> QED
      BY <1>1, <1>3, <2>1, <3>1, <3>2
  <2>2. CASE x = b
    BY <1>1, <1>3, <1>8, <2>2 DEF k
  <2> QED
    BY <1>3, <1>8, <2>1, <2>2
<1>9. \A e \in remap2 : e[1] \in seen2 /\ e = <<e[1], g[e[1]].f>> /\ g[e[1]].term = "condbr"
  BY <1>3a, <1>2, <1>3
<1>10. ASSUME NEW i \in 1 .. m
       PROVE  \E x \in seen2 :
                \/ \E j \in 1 .. (g[x].calls + 1) : i = start2[x] + j
                \/ <<x, g[x].f>> \in remap2 /\ i = EndsAt(g, start2, x) + 1
  <2>1. CASE i <= n
    <3>1. i \in 1 .. n
      BY <1>0, <1>10, <2>1
    <3>2. PICK x \in seen : \/ \E j \in 1 .. (g[x].calls + 1) : i = start[x] + j
                            \/ <<x, g[x].f>> \in remap /\ i = EndsAt(g, start, x) + 1
      BY <3>1 DEF Layout, n
    <3> QED
      BY <1>3, <1>4, <3>2
  <2>2. CASE ~(i <= n) /\ i <= n + k + 1
    <3>1. i - n \in 1 .. (k + 1) /\ i = n + (i - n)
      BY <1>0, <1>5, <1>10, <2>2
    <3> QED
      BY <1>3, <3>1 DEF k
  <2>3. CASE ~(i <= n + k + 1)
    <3>1. latched /\ i = n + k + 1 + 1
      BY <1>0, <1>1, <1>5, <1>10, <2>3
    <3> QED
      BY <1>3, <1>4, <3>1
  <2> QED
    BY <2>1, <2>2, <2>3
<1>11. ASSUME NEW x \in seen2, <<x, g[x].f>> \in remap2
       PROVE  EndsAt(g, start2, x) + 1 <= m /\ new[EndsAt(g, start2, x) + 1] = LatchAt(g, x)
  <2>1. CASE x \in seen
    <3>1. EndsAt(g, start, x) + 1 <= n /\ mir[EndsAt(g, start, x) + 1] = LatchAt(g, x)
      BY <1>4, <1>11, <2>1 DEF Layout, n
    <3> QED
      BY <1>1, <1>3, <1>6, <2>1, <3>1
  <2>2. CASE x = b
    <3>1. latched
      BY <1>4, <1>11, <2>2
    <3>2. n + k + 1 + 1 = n + k + 2 /\ n + k + 2 <= m
      BY <1>0, <1>1, <1>5, <3>1
    <3> QED
      BY <1>1, <1>3, <2>2, <3>1, <3>2
  <2> QED
    BY <1>3, <2>1, <2>2
<1>12. ASSUME NEW x \in seen2, g[x].term = "condbr", <<x, g[x].f>> \notin remap2
       PROVE  \/ /\ EndsAt(g, start2, x) + 1 <= m
                 /\ new[EndsAt(g, start2, x) + 1].label = Label(g[x].f)
              \/ EndsAt(g, start2, x) = m /\ Waits(next, seen2, g[x].f)
  <2>1. CASE x \in seen
    <3>1. \/ /\ EndsAt(g, start, x) + 1 <= n
             /\ mir[EndsAt(g, start, x) + 1].label = Label(g[x].f)
          \/ EndsAt(g, start, x) = n /\ Waits(list, seen, g[x].f)
      BY <1>4, <1>12, <2>1 DEF Layout, n
    <3>2. CASE EndsAt(g, start, x) + 1 <= n /\ mir[EndsAt(g, start, x) + 1].label = Label(g[x].f)
      BY <1>1, <1>3, <1>6, <2>1, <3>2
    <3>3. CASE EndsAt(g, start, x) = n /\ Waits(list, seen, g[x].f)
      <4>1. g[x].f = b
        BY <3>3 DEF Waits
      <4>2. 1 \in 1 .. (k + 1) /\ n + 1 <= m
        BY <1>0, <1>5
      <4>3. new[n + 1].label = Label(b)
        <5>1. new[n + 1] = PieceAt(g, b, 1, c)
          BY <1>1, <4>2
        <5> QED
          BY <5>1, PieceFields, LabelFields
      <4> QED
        BY <1>3, <2>1, <3>3, <4>1, <4>2, <4>3
    <3> QED
      BY <3>1, <3>2, <3>3
  <2>2. CASE x = b
    <3>1. ~latched
      BY <1>4, <1>12, <2>2
    <3>2. m = n + k + 1
      BY <1>0, <1>1, <1>5, <3>1
    <3>3. g[b].f \notin seen2
      BY <1>12, <2>2, <3>1 DEF seen2
    <3>4. Waits(next, seen2, g[b].f)
      BY <1>12, <2>2, <3>3 DEF Waits, seen2
    <3> QED
      BY <1>3, <2>2, <3>2, <3>4
  <2> QED
    BY <1>3, <2>1, <2>2
<1>13. Layout(g, new, seen2, remap2, next, start2, base2)
  BY <1>1, <1>7, <1>8, <1>9, <1>10, <1>11, <1>12 DEF Layout, m
<1> QED
  BY <1>13 DEF seen2, remap2

\* Every position of the layout is a piece of a block seen or its latch.
Places(g, mir, seen, remap, start, base) ==
  /\ DOMAIN mir = 1 .. Len(mir) /\ Len(mir) \in Nat
  /\ \A b \in seen : \A j \in 1 .. (g[b].calls + 1) :
       /\ start[b] + j \in DOMAIN mir
       /\ mir[start[b] + j] = PieceAt(g, b, j, base[b])
       /\ mir[start[b] + j].label = LabelAt(b, j, base[b])
  /\ \A b \in seen : <<b, g[b].f>> \in remap =>
       /\ EndsAt(g, start, b) + 1 \in DOMAIN mir
       /\ mir[EndsAt(g, start, b) + 1] = LatchAt(g, b)
  /\ \A b \in seen : /\ g[b].calls \in Nat /\ start[b] \in Nat /\ base[b] \in Nat
                     /\ EndsAt(g, start, b) \in Nat
  /\ \A i \in DOMAIN mir : \E b \in seen :
       \/ \E j \in 1 .. (g[b].calls + 1) : i = start[b] + j /\ mir[i].label = LabelAt(b, j, base[b])
       \/ /\ <<b, g[b].f>> \in remap /\ i = EndsAt(g, start, b) + 1
          /\ mir[i].label = Latch(b, g[b].f)

\* The pieces and latches laid out are those of the visited blocks, each where
\* its block starts.
LEMMA LayoutPlaces ==
  ASSUME NEW g \in Functions, NEW mir, NEW seen, seen \subseteq Blocks, NEW remap, NEW list, NEW start, NEW base,
         Layout(g, mir, seen, remap, list, start, base)
  PROVE  Places(g, mir, seen, remap, start, base)
<1>1. DOMAIN mir = 1 .. Len(mir) /\ Len(mir) \in Nat
  BY DEF Layout, IsSequence
<1>2. \A b \in seen : /\ g[b].calls \in Nat /\ start[b] \in Nat /\ base[b] \in Nat
                      /\ EndsAt(g, start, b) \in Nat
  <2> SUFFICES ASSUME NEW b \in seen
               PROVE  /\ g[b].calls \in Nat /\ start[b] \in Nat /\ base[b] \in Nat
                      /\ EndsAt(g, start, b) \in Nat
    OBVIOUS
  <2>1. g[b].calls \in Nat
    BY FunctionsAssumption
  <2>2. start[b] \in Nat /\ base[b] \in Nat
    BY DEF Layout
  <2> QED
    BY <2>1, <2>2 DEF EndsAt
<1>3. ASSUME NEW b \in seen, NEW j \in 1 .. (g[b].calls + 1)
      PROVE  /\ start[b] + j \in DOMAIN mir
             /\ mir[start[b] + j] = PieceAt(g, b, j, base[b])
             /\ mir[start[b] + j].label = LabelAt(b, j, base[b])
  <2>1. mir[start[b] + j] = PieceAt(g, b, j, base[b]) /\ start[b] + g[b].calls + 1 <= Len(mir)
    BY <1>3 DEF Layout, EndsAt
  <2>2. start[b] + j \in 1 .. Len(mir)
    BY <1>1, <1>2, <1>3, <2>1
  <2> QED
    BY <1>1, <2>1, <2>2, PieceFields
<1>4. ASSUME NEW b \in seen, <<b, g[b].f>> \in remap
      PROVE  EndsAt(g, start, b) + 1 \in DOMAIN mir /\ mir[EndsAt(g, start, b) + 1] = LatchAt(g, b)
  <2>1. EndsAt(g, start, b) + 1 <= Len(mir) /\ mir[EndsAt(g, start, b) + 1] = LatchAt(g, b)
    BY <1>4 DEF Layout
  <2> QED
    BY <1>1, <1>2, <2>1
<1>5. ASSUME NEW i \in DOMAIN mir
      PROVE  \E b \in seen :
              \/ \E j \in 1 .. (g[b].calls + 1) : i = start[b] + j /\ mir[i].label = LabelAt(b, j, base[b])
              \/ /\ <<b, g[b].f>> \in remap /\ i = EndsAt(g, start, b) + 1
                 /\ mir[i].label = Latch(b, g[b].f)
  <2>1. PICK b \in seen : \/ \E j \in 1 .. (g[b].calls + 1) : i = start[b] + j
                          \/ <<b, g[b].f>> \in remap /\ i = EndsAt(g, start, b) + 1
    BY <1>1, <1>5 DEF Layout
  <2>2. CASE \E j \in 1 .. (g[b].calls + 1) : i = start[b] + j
    BY <1>3, <2>2
  <2>3. CASE <<b, g[b].f>> \in remap /\ i = EndsAt(g, start, b) + 1
    <3>1. mir[i] = LatchAt(g, b)
      BY <1>4, <2>3
    <3>2. mir[i].label = Latch(b, g[b].f)
      BY <3>1, LatchFields
    <3> QED
      BY <2>3, <3>2
  <2> QED
    BY <2>1, <2>2, <2>3
<1> QED
  BY <1>1, <1>2, <1>3, <1>4, <1>5 DEF Places

\* No label is used twice, and the pieces of a block are where start says.
Labelled(g, mir, seen, start) ==
  /\ \A i, k \in DOMAIN mir : mir[i].label = mir[k].label => i = k
  /\ \A b \in seen : {i \in DOMAIN mir : mir[i].label[2] = b /\ mir[i].label[1] # "latch"}
                       = (start[b] + 1) .. EndsAt(g, start, b)

\* A label is that of one piece only.
LEMMA LayoutLabels ==
  ASSUME NEW g \in Functions, NEW mir, NEW seen, seen \subseteq Blocks, NEW remap, NEW list, NEW start, NEW base,
         Layout(g, mir, seen, remap, list, start, base)
  PROVE  Labelled(g, mir, seen, start)
<1>0. /\ \A b \in seen : \A j \in 1 .. (g[b].calls + 1) :
           start[b] + j \in DOMAIN mir /\ mir[start[b] + j].label = LabelAt(b, j, base[b])
      /\ \A b \in seen : g[b].calls \in Nat /\ start[b] \in Nat /\ base[b] \in Nat
      /\ \A i \in DOMAIN mir : \E b \in seen :
           \/ \E j \in 1 .. (g[b].calls + 1) : i = start[b] + j /\ mir[i].label = LabelAt(b, j, base[b])
           \/ /\ <<b, g[b].f>> \in remap /\ i = EndsAt(g, start, b) + 1
              /\ mir[i].label = Latch(b, g[b].f)
  <2>1. Places(g, mir, seen, remap, start, base)
    BY LayoutPlaces
  <2> QED
    BY <2>1 DEF Places
<1>1. ASSUME NEW i \in DOMAIN mir, NEW b \in seen, NEW j \in 1 .. (g[b].calls + 1),
             mir[i].label = LabelAt(b, j, base[b])
      PROVE  mir[i].label[2] = b /\ mir[i].label[1] \in {"block", "cont"} /\ j \in Nat \ {0}
  <2>1. g[b].calls \in Nat /\ base[b] \in Nat
    BY <1>0
  <2>2. j \in Nat \ {0}
    BY <2>1
  <2>3. LabelAt(b, j, base[b])[2] = b /\ LabelAt(b, j, base[b])[1] \in {"block", "cont"}
    BY <2>1, <2>2, LabelFields
  <2> QED
    BY <1>1, <2>2, <2>3
<1>2. ASSUME NEW i \in DOMAIN mir, NEW b \in seen, mir[i].label = Latch(b, g[b].f)
      PROVE  mir[i].label[2] = b /\ mir[i].label[1] = "latch"
  BY <1>2, LatchFields
<1>3. ASSUME NEW i \in DOMAIN mir, NEW k \in DOMAIN mir, mir[i].label = mir[k].label
      PROVE  i = k
  <2>1. PICK b \in seen :
          \/ \E j \in 1 .. (g[b].calls + 1) : i = start[b] + j /\ mir[i].label = LabelAt(b, j, base[b])
          \/ /\ <<b, g[b].f>> \in remap /\ i = EndsAt(g, start, b) + 1
             /\ mir[i].label = Latch(b, g[b].f)
    BY <1>0, <1>3
  <2>2. PICK d \in seen :
          \/ \E j \in 1 .. (g[d].calls + 1) : k = start[d] + j /\ mir[k].label = LabelAt(d, j, base[d])
          \/ /\ <<d, g[d].f>> \in remap /\ k = EndsAt(g, start, d) + 1
             /\ mir[k].label = Latch(d, g[d].f)
    BY <1>0, <1>3
  <2>3. b = d
    BY <1>1, <1>2, <1>3, <2>1, <2>2
  <2>4. CASE mir[i].label[1] = "latch"
    BY <1>1, <1>2, <1>3, <2>1, <2>2, <2>3, <2>4
  <2>5. CASE mir[i].label[1] # "latch"
    <3>1. PICK j \in 1 .. (g[b].calls + 1) : i = start[b] + j /\ mir[i].label = LabelAt(b, j, base[b])
      BY <1>2, <2>1, <2>5
    <3>2. PICK l \in 1 .. (g[b].calls + 1) : k = start[b] + l /\ mir[k].label = LabelAt(b, l, base[b])
      BY <1>2, <1>3, <2>2, <2>3, <2>5
    <3>3. j \in Nat \ {0} /\ l \in Nat \ {0} /\ base[b] \in Nat
      BY <1>0, <1>1, <3>1, <3>2
    <3>4. LabelAt(b, j, base[b]) = LabelAt(b, l, base[b])
      BY <1>3, <3>1, <3>2
    <3>5. j = l
      BY <3>3, <3>4, LabelFields
    <3> QED
      BY <3>1, <3>2, <3>5
  <2> QED
    BY <2>4, <2>5
<1>4. ASSUME NEW b \in seen
      PROVE  {i \in DOMAIN mir : mir[i].label[2] = b /\ mir[i].label[1] # "latch"}
               = (start[b] + 1) .. EndsAt(g, start, b)
  <2>0. start[b] \in Nat /\ g[b].calls \in Nat /\ EndsAt(g, start, b) = start[b] + g[b].calls + 1
    BY <1>0 DEF EndsAt
  <2>1. ASSUME NEW i \in DOMAIN mir, mir[i].label[2] = b, mir[i].label[1] # "latch"
        PROVE  i \in (start[b] + 1) .. EndsAt(g, start, b)
    <3>1. PICK d \in seen :
            \/ \E j \in 1 .. (g[d].calls + 1) : i = start[d] + j /\ mir[i].label = LabelAt(d, j, base[d])
            \/ /\ <<d, g[d].f>> \in remap /\ i = EndsAt(g, start, d) + 1
               /\ mir[i].label = Latch(d, g[d].f)
      BY <1>0, <2>1
    <3>2. d = b
      BY <1>1, <1>2, <2>1, <3>1
    <3>3. PICK j \in 1 .. (g[b].calls + 1) : i = start[b] + j
      BY <1>2, <2>1, <3>1, <3>2
    <3> QED
      BY <2>0, <3>3
  <2>2. ASSUME NEW i \in (start[b] + 1) .. EndsAt(g, start, b)
        PROVE  i \in DOMAIN mir /\ mir[i].label[2] = b /\ mir[i].label[1] # "latch"
    <3>1. i - start[b] \in 1 .. (g[b].calls + 1) /\ i = start[b] + (i - start[b])
      BY <2>0, <2>2
    <3>2. i \in DOMAIN mir /\ mir[i].label = LabelAt(b, i - start[b], base[b])
      BY <1>0, <3>1
    <3> QED
      BY <1>1, <3>1, <3>2
  <2> QED
    BY <2>1, <2>2
<1> QED
  BY <1>3, <1>4 DEF Labelled
-----------------------------------------------------------------------------
(***************************************************************************)
(* The layout is an invariant of the loop.                                 *)
(***************************************************************************)
LaidOut == \E start, base : Layout(cfg, mir_blocks, visited, edge_remap, worklist, start, base)

NoneRejected == \A b \in visited : cfg[b].term # "reject"

CopiesPlaced ==
  phase = "done" =>
    copies = [i \in DOMAIN mir_blocks |-> {e \in PhiEdges : i \in Position(ActualPred(e))}]

\* The inductive invariant, on top of Inv.
LayoutInv == NoneRejected /\ LaidOut /\ CopiesPlaced /\ PanicOnlyUnreachable

LEMMA InitLayout == Init => LayoutInv
<1> SUFFICES ASSUME Init
             PROVE  LayoutInv
  OBVIOUS
<1>1. mir_blocks = <<>> /\ visited = {} /\ edge_remap = {} /\ phase = "lower"
  BY DEF Init
<1>2. Layout(cfg, <<>>, {}, {}, worklist, <<>>, <<>>)
  <2>1. IsSequence(<<>>) /\ Len(<<>>) = 0
    BY DEF IsSequence
  <2>2. 1 .. Len(<<>>) = {}
    BY <2>1
  <2> QED
    BY <2>1, <2>2 DEF Layout
<1>3. LaidOut
  BY <1>1, <1>2 DEF LaidOut
<1> QED
  BY <1>1, <1>3 DEF LayoutInv, NoneRejected, CopiesPlaced, PanicOnlyUnreachable

\* The false target of a two-way branch comes to the front.
LEMMA FalseTargetNext ==
  ASSUME cfg \in Functions, NEW b \in Blocks, NEW rest \in Seq(Blocks), NEW seen,
         cfg[b].term = "condbr", cfg[b].f \notin seen
  PROVE  Enqueue(b, rest, seen) # <<>> /\ Head(Enqueue(b, rest, seen)) = cfg[b].f
<1> DEFINE x == cfg[b].f
           back == TrueNext(b, seen)
           front == <<x>> \o rest
           all == front \o back
<1>1. x \in Blocks /\ back \in Seq(Blocks)
  BY BlockRecord DEF TrueNext
<1>2. Enqueue(b, rest, seen) = all
  BY DEF Enqueue, FalseNext
<1> HIDE DEF x, back
<1>3. front \in Seq(Blocks) /\ Len(front) = 1 + Len(rest) /\ front[1] = x /\ Len(rest) \in Nat
  BY <1>1
<1> HIDE DEF front
<1>4. all \in Seq(Blocks) /\ Len(all) = Len(front) + Len(back) /\ all[1] = front[1] /\ Len(back) \in Nat
  BY <1>1, <1>3
<1> HIDE DEF all
<1>5. all # <<>> /\ Head(all) = all[1]
  BY <1>3, <1>4
<1> QED
  BY <1>2, <1>3, <1>4, <1>5 DEF x

\* A turn of the worklist loop lays its block out behind the others.
LEMMA LowerBlockLayout ==
  ASSUME Inv, LayoutInv, LowerBlock
  PROVE  LayoutInv'
<1> DEFINE b == Head(worklist)
           latched == NeedsLatch(b, visited \cup {b})
<1>1. /\ b \notin visited /\ cfg[b].term # "reject" /\ phase = "lower" /\ phase' = "lower" /\ cfg' = cfg
      /\ visited' = visited \cup {b}
      /\ worklist' = Enqueue(b, Tail(worklist), visited \cup {b})
      /\ edge_remap' = edge_remap \cup (IF latched THEN {<<b, cfg[b].f>>} ELSE {})
  BY DEF LowerBlock
<1>2. b \in Blocks /\ Tail(worklist) \in Seq(Blocks) /\ visited \subseteq Blocks /\ call_count \in Nat
      /\ cfg \in Functions
  <2>1. worklist \in Seq(Blocks) /\ worklist # <<>>
    BY DEF Inv, TypeOK, LowerBlock
  <2> QED
    BY <2>1, ElemsOfTail DEF Inv, TypeOK
<1>3. PICK start, base : Layout(cfg, mir_blocks, visited, edge_remap, worklist, start, base)
  BY DEF LayoutInv, LaidOut
<1>4. latched \in BOOLEAN /\ (latched <=> cfg[b].term = "condbr" /\ cfg[b].f \in visited \cup {b})
  BY DEF NeedsLatch
<1>5. mir_blocks' = mir_blocks \o PiecesAt(cfg, b, call_count)
                      \o (IF latched THEN <<LatchAt(cfg, b)>> ELSE <<>>)
  <2>1. Pieces(b) = PiecesAt(cfg, b, call_count)
    BY DEF Pieces, PiecesAt, PieceAt, PieceLabel, LabelAt, MirTerminator, EndOf
  <2> QED
    BY <2>1 DEF LowerBlock, LatchAt
<1>6. Lowered(mir_blocks', mir_blocks, cfg, b, call_count, latched)
  <2>1. IsSequence(mir_blocks)
    BY <1>3 DEF Layout
  <2>2. cfg[b].calls \in Nat
    BY <1>2, BlockRecord
  <2> HIDE DEF b, latched
  <2> QED
    BY <1>4, <1>5, <2>1, <2>2, LoweredFacts
<1>7. cfg[b].term = "condbr" /\ cfg[b].f \notin visited \cup {b} => worklist' # <<>> /\ Head(worklist') = cfg[b].f
  BY <1>1, <1>2, FalseTargetNext
<1>8. LaidOut'
  <2> HIDE DEF b, latched
  <2>1. Head(worklist) = b
    BY DEF b
  <2>2. \E start2, base2 : Layout(cfg, mir_blocks', visited \cup {b},
                                  Remapped(cfg, edge_remap, b, latched), worklist', start2, base2)
    <3>1. Turn(cfg, mir_blocks, visited, edge_remap, worklist, start, base,
               b, call_count, latched, mir_blocks', worklist')
      BY <1>1, <1>2, <1>3, <1>4, <1>6, <1>7, <2>1, Zenon DEF Turn
    <3> QED
      BY <1>2, <3>1, LayoutStep
  <2> QED
    BY <1>1, <2>2 DEF LaidOut, Remapped
<1>9. NoneRejected'
  BY <1>1 DEF LayoutInv, NoneRejected
<1> QED
  BY <1>1, <1>8, <1>9 DEF LayoutInv, CopiesPlaced, PanicOnlyUnreachable

LEMMA SkipVisitedLayout ==
  ASSUME Inv, LayoutInv, SkipVisited
  PROVE  LayoutInv'
<1>1. /\ Head(worklist) \in visited /\ phase = "lower"
      /\ UNCHANGED <<cfg, visited, mir_blocks, edge_remap, call_count, copies, phase>>
  BY DEF SkipVisited
<1>2. PICK start, base : Layout(cfg, mir_blocks, visited, edge_remap, worklist, start, base)
  BY DEF LayoutInv, LaidOut
<1>3. \A x : ~Waits(worklist, visited, x)
  BY <1>1 DEF Waits
<1>4. Layout(cfg, mir_blocks, visited, edge_remap, worklist', start, base)
  BY <1>2, <1>3 DEF Layout
<1>5. LaidOut'
  BY <1>1, <1>4 DEF LaidOut
<1> QED
  BY <1>1, <1>5 DEF LayoutInv, NoneRejected, CopiesPlaced, PanicOnlyUnreachable

\* A block that has been lowered has a place where its copies go.
LEMMA LoweredIsFound ==
  ASSUME Inv, LayoutInv, NEW e \in PhiEdges, e[1] \in visited
  PROVE  Position(ActualPred(e)) # {}
<1>1. PICK start, base : Layout(cfg, mir_blocks, visited, edge_remap, worklist, start, base)
  BY DEF LayoutInv, LaidOut
<1>2. cfg \in Functions /\ visited \subseteq Blocks
  BY DEF Inv, TypeOK
<1>3. \A i, k \in DOMAIN mir_blocks : mir_blocks[i].label = mir_blocks[k].label => i = k
  <2>1. Labelled(cfg, mir_blocks, visited, start)
    BY <1>1, <1>2, LayoutLabels
  <2> QED
    BY <2>1, Zenon DEF Labelled
<1>4. Places(cfg, mir_blocks, visited, edge_remap, start, base)
  BY <1>1, <1>2, LayoutPlaces
<1>5. \E i \in DOMAIN mir_blocks : mir_blocks[i].label = ActualPred(e)
  <2>1. CASE e \in edge_remap
    <3>1. e = <<e[1], cfg[e[1]].f>>
      BY <1>1, <2>1 DEF Layout
    <3>2. /\ EndsAt(cfg, start, e[1]) + 1 \in DOMAIN mir_blocks
          /\ mir_blocks[EndsAt(cfg, start, e[1]) + 1] = LatchAt(cfg, e[1])
      BY <1>4, <2>1, <3>1 DEF Places
    <3>3. ActualPred(e) = Latch(e[1], cfg[e[1]].f)
      <4>1. e[2] = cfg[e[1]].f
        BY <3>1
      <4> QED
        BY <2>1, <4>1 DEF ActualPred
    <3> QED
      BY <3>2, <3>3, LatchFields
  <2>2. CASE e \notin edge_remap
    <3>1. ActualPred(e) = Label(e[1])
      BY <2>2 DEF ActualPred
    <3>2. cfg[e[1]].calls \in Nat /\ base[e[1]] \in Nat
      BY <1>4 DEF Places
    <3>3. 1 \in 1 .. (cfg[e[1]].calls + 1)
      BY <3>2
    <3>4. start[e[1]] + 1 \in DOMAIN mir_blocks
          /\ mir_blocks[start[e[1]] + 1].label = LabelAt(e[1], 1, base[e[1]])
      BY <1>4, <3>3 DEF Places
    <3> QED
      BY <3>1, <3>2, <3>4, LabelFields
  <2> QED
    BY <2>1, <2>2
<1>6. PICK i \in DOMAIN mir_blocks : mir_blocks[i].label = ActualPred(e)
  BY <1>5
<1>7. DOMAIN mir_blocks = 1 .. Len(mir_blocks) /\ Len(mir_blocks) \in Nat
  BY <1>4 DEF Places
<1>8. ASSUME NEW j \in 1 .. (i - 1)
      PROVE  mir_blocks[j].label # ActualPred(e)
  <2>1. j \in DOMAIN mir_blocks /\ j # i
    BY <1>7
  <2> QED
    BY <1>3, <1>6, <2>1
<1>9. i \in Position(ActualPred(e))
  BY <1>6, <1>8 DEF Position
<1> QED
  BY <1>9

\* Every step keeps the layout.
LEMMA NextLayout == Inv /\ LayoutInv /\ [Next]_vars => LayoutInv'
<1> SUFFICES ASSUME Inv, LayoutInv, [Next]_vars
             PROVE  LayoutInv'
  OBVIOUS
<1>1. CASE LowerBlock
  BY <1>1, LowerBlockLayout
<1>2. CASE SkipVisited
  BY <1>2, SkipVisitedLayout
<1>3. ASSUME UNCHANGED <<cfg, worklist, visited, mir_blocks, edge_remap>>
      PROVE  LaidOut' /\ NoneRejected'
  BY <1>3 DEF LayoutInv, LaidOut, NoneRejected
<1>4. CASE RejectCall \/ FinishLowering
  BY <1>3, <1>4 DEF RejectCall, FinishLowering, LayoutInv, CopiesPlaced, PanicOnlyUnreachable
<1>5. CASE PlaceCopies
  <2>1. CopiesPlaced'
    BY <1>5 DEF PlaceCopies, CopiesPlaced, PhiEdges, Position, ActualPred, Succ
  <2> QED
    BY <1>3, <1>5, <2>1 DEF PlaceCopies, LayoutInv, PanicOnlyUnreachable
<1>6. CASE Panic
  <2>1. PICK e \in PhiEdges : Position(ActualPred(e)) = {}
    BY <1>6 DEF Panic
  <2>2. e[1] \in Blocks /\ e[1] \notin visited
    BY <2>1, LoweredIsFound DEF PhiEdges
  <2>3. e[2] \in Succ(e[1]) \cap visited
    BY DEF PhiEdges
  <2>4. PanicOnlyUnreachable'
    <3>1. Succ(e[1])' = Succ(e[1]) /\ visited' = visited
      BY <1>6 DEF Panic, Succ
    <3> QED
      BY <2>2, <2>3, <3>1 DEF PanicOnlyUnreachable
  <2> QED
    BY <1>3, <1>6, <2>4 DEF Panic, LayoutInv, CopiesPlaced
<1>7. CASE UNCHANGED vars
  <2>1. CopiesPlaced'
    <3> DEFINE placed == [i \in DOMAIN mir_blocks |-> {e \in PhiEdges : i \in Position(ActualPred(e))}]
    <3>1. placed' = placed
      BY <1>7 DEF vars, PhiEdges, Position, ActualPred, Succ
    <3>2. phase = "done" => copies = placed
      BY DEF LayoutInv, CopiesPlaced
    <3>3. phase' = "done" => copies' = placed'
      BY <1>7, <3>1, <3>2 DEF vars
    <3> QED
      BY <3>3 DEF CopiesPlaced
  <2>2. PanicOnlyUnreachable'
    <3>1. \A b \in Blocks : Succ(b)' = Succ(b)
      BY <1>7 DEF vars, Succ
    <3> QED
      BY <1>7, <3>1 DEF vars, LayoutInv, PanicOnlyUnreachable
  <2> QED
    BY <1>3, <1>7, <2>1, <2>2 DEF vars, LayoutInv
<1> QED
  BY <1>1, <1>2, <1>4, <1>5, <1>6, <1>7 DEF Next, Terminated

LEMMA LayoutHolds == Spec => [](Inv /\ LayoutInv)
<1>1. Init => Inv /\ LayoutInv
  BY InitInv, InitLayout
<1>2. (Inv /\ LayoutInv) /\ [Next]_vars => (Inv /\ LayoutInv)'
  BY NextInv, NextLayout
<1> QED
  BY <1>1, <1>2, PTL DEF Spec

\* The lookup of lower_phi_copies panics only for a predecessor that control
\* cannot reach, for every function: each lowered block, and each latch, is
\* found under the label the copies ask for.
THEOREM PanicsForUnreachableOnly == Spec => []PanicOnlyUnreachable
  BY LayoutHolds, PTL DEF LayoutInv

\* The layout once the worklist is empty.
LEMMA LayoutAtTheEnd ==
  ASSUME Inv, LayoutInv, phase \in {"phis", "done"}
  PROVE  \E start, base :
           /\ Layout(cfg, mir_blocks, visited, edge_remap, worklist, start, base)
           /\ Places(cfg, mir_blocks, visited, edge_remap, start, base)
           /\ \A i, k \in DOMAIN mir_blocks : mir_blocks[i].label = mir_blocks[k].label => i = k
           /\ \A b \in visited : /\ PiecesOf(b) = (start[b] + 1) .. EndsAt(cfg, start, b)
                                 /\ LastPiece(b) = EndsAt(cfg, start, b)
                                 /\ Cardinality(PiecesOf(b)) = cfg[b].calls + 1
           /\ \A b \in visited : cfg[b].term = "condbr" /\ <<b, cfg[b].f>> \notin edge_remap =>
                /\ EndsAt(cfg, start, b) + 1 \in DOMAIN mir_blocks
                /\ mir_blocks[EndsAt(cfg, start, b) + 1].label = Label(cfg[b].f)
<1>1. PICK start, base : Layout(cfg, mir_blocks, visited, edge_remap, worklist, start, base)
  BY DEF LayoutInv, LaidOut
<1>2. cfg \in Functions /\ visited \subseteq Blocks /\ worklist = <<>>
  BY DEF Inv, TypeOK, EndsEmpty
<1>3. Places(cfg, mir_blocks, visited, edge_remap, start, base)
  BY <1>1, <1>2, LayoutPlaces
<1>4. /\ \A i, k \in DOMAIN mir_blocks : mir_blocks[i].label = mir_blocks[k].label => i = k
      /\ \A b \in visited : {i \in DOMAIN mir_blocks : mir_blocks[i].label[2] = b /\ mir_blocks[i].label[1] # "latch"}
                              = (start[b] + 1) .. EndsAt(cfg, start, b)
  <2>1. Labelled(cfg, mir_blocks, visited, start)
    BY <1>1, <1>2, LayoutLabels
  <2> QED
    BY <2>1, Zenon DEF Labelled
<1>5. ASSUME NEW b \in visited
      PROVE  /\ PiecesOf(b) = (start[b] + 1) .. EndsAt(cfg, start, b)
             /\ LastPiece(b) = EndsAt(cfg, start, b)
             /\ Cardinality(PiecesOf(b)) = cfg[b].calls + 1
  <2> DEFINE lo == start[b] + 1
             hi == EndsAt(cfg, start, b)
  <2>1. PiecesOf(b) = lo .. hi
    BY <1>4, Zenon DEF PiecesOf
  <2>2. cfg[b].calls \in Nat /\ start[b] \in Nat
    BY <1>3 DEF Places
  <2>3. lo \in Int /\ hi \in Int /\ lo <= hi /\ hi - lo + 1 = cfg[b].calls + 1
    BY <2>2 DEF EndsAt
  <2> HIDE DEF lo, hi
  <2>4. hi \in lo .. hi /\ \A j \in lo .. hi : j <= hi
    BY <2>3
  <2>5. \A i \in lo .. hi : (\A j \in lo .. hi : j <= i) => i = hi
    BY <2>3, <2>4
  <2>6. LastPiece(b) = hi
    BY <2>1, <2>4, <2>5 DEF LastPiece
  <2>7. Cardinality(lo .. hi) = hi - lo + 1
    BY <2>3, FS_Interval
  <2> QED
    BY <2>1, <2>3, <2>6, <2>7 DEF lo, hi
<1>6. ASSUME NEW b \in visited, cfg[b].term = "condbr", <<b, cfg[b].f>> \notin edge_remap
      PROVE  /\ EndsAt(cfg, start, b) + 1 \in DOMAIN mir_blocks
             /\ mir_blocks[EndsAt(cfg, start, b) + 1].label = Label(cfg[b].f)
  <2>1. ~Waits(worklist, visited, cfg[b].f)
    BY <1>2 DEF Waits
  <2>2. /\ EndsAt(cfg, start, b) + 1 <= Len(mir_blocks)
        /\ mir_blocks[EndsAt(cfg, start, b) + 1].label = Label(cfg[b].f)
    BY <1>1, <1>6, <2>1 DEF Layout
  <2>3. EndsAt(cfg, start, b) \in Nat /\ DOMAIN mir_blocks = 1 .. Len(mir_blocks) /\ Len(mir_blocks) \in Nat
    BY <1>3 DEF Places
  <2>4. EndsAt(cfg, start, b) + 1 \in 1 .. Len(mir_blocks)
    BY <2>2, <2>3
  <2> QED
    BY <2>2, <2>3, <2>4
<1> QED
  BY <1>1, <1>3, <1>4, <1>5, <1>6

\* Once lowering has ended, every label is used once, every call is followed by
\* its continuation, and behind every two-way branch is its false target or a
\* latch that jumps to it: the MIR of lower_function has the control flow of
\* the LLVM function, for every function.
THEOREM LayoutKeepsControlFlow == Spec => []ControlFlowKept
<1>1. Inv /\ LayoutInv => ControlFlowKept
  <2> SUFFICES ASSUME Inv, LayoutInv, phase \in {"phis", "done"}
               PROVE  ControlFlowKept
    BY DEF ControlFlowKept
  <2>1. PICK start, base :
           /\ Layout(cfg, mir_blocks, visited, edge_remap, worklist, start, base)
           /\ Places(cfg, mir_blocks, visited, edge_remap, start, base)
           /\ \A i, k \in DOMAIN mir_blocks : mir_blocks[i].label = mir_blocks[k].label => i = k
           /\ \A b \in visited : /\ PiecesOf(b) = (start[b] + 1) .. EndsAt(cfg, start, b)
                                 /\ LastPiece(b) = EndsAt(cfg, start, b)
                                 /\ Cardinality(PiecesOf(b)) = cfg[b].calls + 1
           /\ \A b \in visited : cfg[b].term = "condbr" /\ <<b, cfg[b].f>> \notin edge_remap =>
                /\ EndsAt(cfg, start, b) + 1 \in DOMAIN mir_blocks
                /\ mir_blocks[EndsAt(cfg, start, b) + 1].label = Label(cfg[b].f)
    BY LayoutAtTheEnd
  <2>2. \A b \in visited : cfg[b].term \in {"ret", "br", "condbr"}
    BY BlockRecord DEF Inv, TypeOK, LayoutInv, NoneRejected
  <2>3. ASSUME NEW i \in DOMAIN mir_blocks, mir_blocks[i].terminator.op = "call"
        PROVE  i + 1 \in DOMAIN mir_blocks /\ mir_blocks[i + 1].label = mir_blocks[i].terminator.label
    <3>1. PICK b \in visited :
            \/ \E j \in 1 .. (cfg[b].calls + 1) : i = start[b] + j
            \/ <<b, cfg[b].f>> \in edge_remap /\ i = EndsAt(cfg, start, b) + 1
      BY <2>1, <2>3 DEF Places
    <3>2. ~(<<b, cfg[b].f>> \in edge_remap /\ i = EndsAt(cfg, start, b) + 1)
      <4> SUFFICES ASSUME <<b, cfg[b].f>> \in edge_remap, i = EndsAt(cfg, start, b) + 1
                   PROVE  FALSE
        OBVIOUS
      <4>1. mir_blocks[i] = LatchAt(cfg, b)
        BY <2>1 DEF Places
      <4>2. mir_blocks[i].terminator = Jump(Label(cfg[b].f))
        BY <4>1, LatchFields
      <4>3. mir_blocks[i].terminator.op = "jmp"
        BY <4>2 DEF Jump
      <4> QED
        BY <2>3, <4>3
    <3>3. PICK j \in 1 .. (cfg[b].calls + 1) : i = start[b] + j
      BY <3>1, <3>2
    <3>4. mir_blocks[i] = PieceAt(cfg, b, j, base[b]) /\ cfg[b].calls \in Nat /\ start[b] \in Nat
      BY <2>1, <3>3 DEF Places
    <3>5. EndOf(cfg, b).op # "call"
      BY <2>2 DEF EndOf, Return, Jump, Branch
    <3>6. mir_blocks[i].terminator =
            IF j <= cfg[b].calls THEN DirectCall("callee", LabelAt(b, j + 1, base[b])) ELSE EndOf(cfg, b)
      BY <3>4, PieceFields
    <3>7. j <= cfg[b].calls
      BY <2>3, <3>5, <3>6
    <3>8. mir_blocks[i].terminator.label = LabelAt(b, j + 1, base[b])
      BY <3>6, <3>7 DEF DirectCall
    <3>9. j + 1 \in 1 .. (cfg[b].calls + 1) /\ i + 1 = start[b] + (j + 1)
      BY <3>3, <3>4, <3>7
    <3>10. i + 1 \in DOMAIN mir_blocks /\ mir_blocks[i + 1].label = LabelAt(b, j + 1, base[b])
      BY <2>1, <3>9 DEF Places
    <3> QED
      BY <3>8, <3>10
  <2>4. ASSUME NEW b \in visited
        PROVE  mir_blocks[LastPiece(b)].terminator = MirTerminator(b)
    <3>1. cfg[b].calls \in Nat /\ start[b] \in Nat
      BY <2>1 DEF Places
    <3>2. /\ cfg[b].calls + 1 \in 1 .. (cfg[b].calls + 1) /\ ~(cfg[b].calls + 1 <= cfg[b].calls)
          /\ EndsAt(cfg, start, b) = start[b] + (cfg[b].calls + 1)
      BY <3>1 DEF EndsAt
    <3>3. mir_blocks[EndsAt(cfg, start, b)] = PieceAt(cfg, b, cfg[b].calls + 1, base[b])
      BY <2>1, <3>2 DEF Places
    <3>4. mir_blocks[EndsAt(cfg, start, b)].terminator = EndOf(cfg, b)
      BY <3>2, <3>3, PieceFields
    <3>5. EndOf(cfg, b) = MirTerminator(b)
      BY DEF EndOf, MirTerminator
    <3> QED
      BY <2>1, <3>4, <3>5
  <2>5. ASSUME NEW b \in visited, cfg[b].term = "condbr"
        PROVE  LastPiece(b) + 1 \in DOMAIN mir_blocks /\ Reaches(LastPiece(b) + 1) = Label(cfg[b].f)
    <3> DEFINE k == EndsAt(cfg, start, b) + 1
    <3>1. LastPiece(b) + 1 = k
      BY <2>1
    <3>2. CASE <<b, cfg[b].f>> \in edge_remap
      <4>1. k \in DOMAIN mir_blocks /\ mir_blocks[k] = LatchAt(cfg, b)
        BY <2>1, <3>2 DEF Places
      <4> HIDE DEF k
      <4>2. /\ mir_blocks[k].label = Latch(b, cfg[b].f) /\ Latch(b, cfg[b].f)[1] = "latch"
            /\ mir_blocks[k].terminator = Jump(Label(cfg[b].f))
        BY <4>1, LatchFields
      <4>3. mir_blocks[k].label[1] = "latch" /\ mir_blocks[k].terminator.label = Label(cfg[b].f)
        BY <4>2 DEF Jump
      <4> QED
        BY <3>1, <4>1, <4>3 DEF Reaches
    <3>3. CASE <<b, cfg[b].f>> \notin edge_remap
      <4>1. k \in DOMAIN mir_blocks /\ mir_blocks[k].label = Label(cfg[b].f)
        BY <2>1, <2>5, <3>3
      <4> HIDE DEF k
      <4>2. Label(cfg[b].f)[1] # "latch"
        BY DEF Label
      <4> QED
        BY <3>1, <4>1, <4>2 DEF Reaches
    <3> QED
      BY <3>2, <3>3
  <2> QED
    BY <2>1, <2>3, <2>4, <2>5 DEF ControlFlowKept
<1> QED
  BY <1>1, LayoutHolds, PTL

\* A MIR block has the copies that ask for its label.
LEMMA CopiesOfLabel ==
  ASSUME Inv, LayoutInv, phase = "done", NEW i \in DOMAIN mir_blocks
  PROVE  copies[i] = {d \in PhiEdges : mir_blocks[i].label = ActualPred(d)}
<1>1. PICK start, base :
        /\ Places(cfg, mir_blocks, visited, edge_remap, start, base)
        /\ \A j, k \in DOMAIN mir_blocks : mir_blocks[j].label = mir_blocks[k].label => j = k
  BY LayoutAtTheEnd
<1>2. DOMAIN mir_blocks = 1 .. Len(mir_blocks) /\ Len(mir_blocks) \in Nat
  BY <1>1 DEF Places
<1>3. \A j \in 1 .. (i - 1) : j \in DOMAIN mir_blocks /\ j # i
  BY <1>2
<1>4. \A l : i \in Position(l) <=> mir_blocks[i].label = l
  BY <1>1, <1>3 DEF Position
<1>5. copies[i] = {d \in PhiEdges : i \in Position(ActualPred(d))}
  BY DEF LayoutInv, CopiesPlaced
<1> QED
  BY <1>4, <1>5

\* At the end the targets of lowered blocks have been lowered.
LEMMA TargetsLowered ==
  ASSUME Inv, LayoutInv, phase = "done", NEW b \in visited
  PROVE  /\ cfg[b].term \in {"ret", "br", "condbr"}
         /\ cfg[b].term # "ret" => <<b, cfg[b].t>> \in PhiEdges
         /\ cfg[b].term = "condbr" => <<b, cfg[b].f>> \in PhiEdges
<1>1. b \in Blocks /\ cfg[b].term # "reject"
  BY DEF Inv, TypeOK, LayoutInv, NoneRejected
<1>2. cfg[b].term \in {"ret", "br", "condbr"}
  BY <1>1, BlockRecord DEF Inv
<1>3. Frontier \subseteq visited
  BY ElemsOfShort DEF Inv, EndsEmpty, WorklistIsFrontier
<1>4. Succ(b) \subseteq visited
  BY <1>1, <1>3, SuccIsBlocks DEF Frontier, Inv
<1>5. \A c \in Succ(b) : <<b, c>> \in PhiEdges
  BY <1>1, <1>4 DEF PhiEdges
<1>6. (cfg[b].term # "ret" => cfg[b].t \in Succ(b)) /\ (cfg[b].term = "condbr" => cfg[b].f \in Succ(b))
  BY <1>2 DEF Succ
<1> QED
  BY <1>2, <1>5, <1>6

\* When the copies have been placed, no edge of a lowered block has lost its
\* copies (unless both sides of the branch go to one latched block), a latch
\* keeps them off the other side, and an unconditional edge has its own copies
\* and no others, for every function.
THEOREM CopiesOnTheirEdge == Spec => []CopiesReachTheirEdge
<1>1. Inv /\ LayoutInv => CopiesReachTheirEdge
  <2> SUFFICES ASSUME Inv, LayoutInv, phase = "done", NEW e \in Edges
               PROVE
      /\ ~(SameTargets(e[1]) /\ e[2] = "t" /\ <<e[1], Target(e)>> \in edge_remap) =>
           CopiesOf(e) \in CopiesOn(e)
      /\ (Latched(e) /\ ~SameTargets(e[1])) => CopiesOf(e) \notin CopiesOn(<<e[1], "t">>)
      /\ cfg[e[1]].term = "br" => CopiesOn(e) = {CopiesOf(e)}
    BY DEF CopiesReachTheirEdge
  <2>1. PICK start, base :
           /\ Layout(cfg, mir_blocks, visited, edge_remap, worklist, start, base)
           /\ Places(cfg, mir_blocks, visited, edge_remap, start, base)
           /\ \A b \in visited : /\ PiecesOf(b) = (start[b] + 1) .. EndsAt(cfg, start, b)
                                 /\ LastPiece(b) = EndsAt(cfg, start, b)
    BY LayoutAtTheEnd
  <2> DEFINE b == e[1]
             d == <<b, Target(e)>>
  <2>2. /\ b \in visited /\ cfg[b].term \in {"br", "condbr"}
        /\ e[2] \in {"t", "f"} /\ (e[2] = "f" => cfg[b].term = "condbr")
        /\ e[2] = "t" => Target(e) = cfg[b].t
        /\ e[2] = "f" => Target(e) = cfg[b].f
    <3>1. /\ b \in visited /\ cfg[b].term # "ret"
          /\ e[2] \in {"t", "f"} /\ (e[2] = "f" => cfg[b].term = "condbr")
      BY DEF Edges
    <3> QED
      BY <3>1, TargetsLowered DEF Target
  <2>3. d \in PhiEdges
    BY <2>2, TargetsLowered
  <2>4. d[1] = b /\ d[2] = Target(e) /\ CopiesOf(e) = d
    BY DEF CopiesOf
  <2>5. cfg[b].calls \in Nat /\ start[b] \in Nat /\ base[b] \in Nat
    BY <2>1, <2>2 DEF Places
  <2>6. \A x \in edge_remap : x = <<x[1], cfg[x[1]].f>> /\ cfg[x[1]].term = "condbr"
    BY <2>1 DEF Layout
  <2>7. d \in edge_remap => Target(e) = cfg[b].f /\ cfg[b].term = "condbr"
    BY <2>4, <2>6
  <2> HIDE DEF b, d
  <2>8. \A i \in PiecesOf(b) : i \in DOMAIN mir_blocks /\ mir_blocks[i].label[2] = b /\ mir_blocks[i].label[1] # "latch"
    BY DEF PiecesOf
  <2>9. \A i \in PiecesOf(b) : copies[i] = {x \in PhiEdges : mir_blocks[i].label = ActualPred(x)}
    BY <2>8, CopiesOfLabel
  <2>10. ASSUME d \notin edge_remap
         PROVE  d \in UNION {copies[i] : i \in PiecesOf(b)}
    <3>1. 1 \in 1 .. (cfg[b].calls + 1) /\ start[b] + 1 \in (start[b] + 1) .. EndsAt(cfg, start, b)
      BY <2>5 DEF EndsAt
    <3>2. start[b] + 1 \in PiecesOf(b)
      BY <2>1, <2>2, <3>1
    <3>3. mir_blocks[start[b] + 1].label = LabelAt(b, 1, base[b])
      BY <2>1, <2>2, <3>1 DEF Places
    <3>4. mir_blocks[start[b] + 1].label = Label(b)
      BY <2>5, <3>3, LabelFields
    <3>5. ActualPred(d) = Label(b)
      BY <2>4, <2>10 DEF ActualPred
    <3>6. d \in copies[start[b] + 1]
      BY <2>3, <2>9, <3>2, <3>4, <3>5
    <3> QED
      BY <3>2, <3>6
  <2>11. ASSUME d \in edge_remap
         PROVE  d \in copies[LastPiece(b) + 1]
    <3> DEFINE k == EndsAt(cfg, start, b) + 1
    <3>1. d = <<b, cfg[b].f>>
      BY <2>7, <2>11 DEF d
    <3>2. k \in DOMAIN mir_blocks /\ mir_blocks[k] = LatchAt(cfg, b)
      BY <2>1, <2>2, <2>11, <3>1 DEF Places
    <3>3. LastPiece(b) + 1 = k
      BY <2>1, <2>2
    <3> HIDE DEF k
    <3>4. mir_blocks[k].label = Latch(b, cfg[b].f)
      BY <3>2, LatchFields
    <3>5. ActualPred(d) = Latch(b, cfg[b].f)
      BY <2>4, <2>7, <2>11 DEF ActualPred
    <3>6. copies[k] = {x \in PhiEdges : mir_blocks[k].label = ActualPred(x)}
      BY <3>2, CopiesOfLabel
    <3> QED
      BY <2>3, <3>3, <3>4, <3>5, <3>6
  <2>12. CopiesOn(e) = (UNION {copies[i] : i \in PiecesOf(b)})
                         \cup (IF e[2] = "f" /\ d \in edge_remap THEN copies[LastPiece(b) + 1] ELSE {})
    BY DEF CopiesOn, Latched, b, d
  <2>13. CopiesOn(<<b, "t">>) = UNION {copies[i] : i \in PiecesOf(b)}
    <3>1. <<b, "t">>[1] = b /\ <<b, "t">>[2] = "t"
      OBVIOUS
    <3>2. ~Latched(<<b, "t">>)
      BY <3>1 DEF Latched
    <3> QED
      BY <3>1, <3>2, Zenon DEF CopiesOn
  <2>14. ASSUME ~(SameTargets(b) /\ e[2] = "t" /\ d \in edge_remap)
         PROVE  d \in CopiesOn(e)
    <3>1. CASE d \notin edge_remap
      BY <2>10, <2>12, <3>1
    <3>2. CASE d \in edge_remap
      <4>1. e[2] # "t"
        BY <2>2, <2>7, <2>14, <3>2 DEF SameTargets
      <4>2. e[2] = "f"
        BY <2>2, <4>1
      <4> QED
        BY <2>11, <2>12, <3>2, <4>2
    <3> QED
      BY <3>1, <3>2
  <2>15. ASSUME Latched(e)
         PROVE  d \notin CopiesOn(<<b, "t">>)
    <3>1. d \in edge_remap
      BY <2>15 DEF Latched, b, d
    <3>2. ActualPred(d)[1] = "latch"
      BY <3>1 DEF ActualPred, Latch
    <3>3. \A i \in PiecesOf(b) : d \notin copies[i]
      BY <2>8, <2>9, <3>2
    <3> QED
      BY <2>13, <3>3
  <2>16. ASSUME cfg[b].term = "br"
         PROVE  CopiesOn(e) = {d}
    <3>1. e[2] = "t" /\ Target(e) = cfg[b].t /\ d \notin edge_remap
      BY <2>2, <2>7, <2>16
    <3>2. CopiesOn(e) = UNION {copies[i] : i \in PiecesOf(b)}
      BY <2>12, <3>1
    <3>3. ASSUME NEW i \in PiecesOf(b), NEW x \in copies[i]
          PROVE  x = d
      <4>1. x \in PhiEdges /\ mir_blocks[i].label = ActualPred(x) /\ mir_blocks[i].label[2] = b
        BY <2>8, <2>9, <3>3
      <4>2. ActualPred(x)[2] = x[1]
        BY DEF ActualPred, Label, Latch
      <4>3. x[1] = b
        BY <4>1, <4>2
      <4>4. x[2] \in Succ(b) /\ x = <<x[1], x[2]>>
        BY <4>1, <4>3 DEF PhiEdges
      <4>5. Succ(b) = {cfg[b].t}
        BY <2>16 DEF Succ
      <4> QED
        BY <3>1, <4>3, <4>4, <4>5 DEF d
    <3> QED
      BY <2>10, <3>1, <3>2, <3>3
  <2> QED
    BY <2>4, <2>14, <2>15, <2>16 DEF b, d
<1> QED
  BY <1>1, LayoutHolds, PTL
=============================================================================
