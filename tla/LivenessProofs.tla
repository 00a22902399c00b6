--------------------------- MODULE LivenessProofs ---------------------------
(***************************************************************************)
(* Theorems about the dataflow iteration of liveness.rs, for every         *)
(* function and every width of a LiveSet: the sets only grow, stay below   *)
(* every solution of the dataflow equations, and are one at the end.       *)
(***************************************************************************)
EXTENDS Liveness, FiniteSetTheorems, WellFoundedInduction, TLAPS

\* The values the variables may have.
TypeOK ==
  /\ func \in Functions
  /\ use_before_def \in [Blocks -> LiveSet]
  /\ def \in [Blocks -> LiveSet]
  /\ live_in \in [Blocks -> LiveSet]
  /\ live_out \in [Blocks -> LiveSet]
  /\ successors \in [Blocks -> SUBSET Blocks]
  /\ i \in 0 .. Len(func)
  /\ changed \in BOOLEAN
  /\ phase \in {"local", "sweep", "done"}

NothingYet == phase = "local" => live_in = NoneLive /\ live_out = NoneLive /\ i = Len(func)

\* Evaluating the equations again can only add registers.
BelowNext ==
  \A b \in Blocks : live_in[b] \subseteq LiveInOf(live_in, b) /\ live_out[b] \subseteq LiveOutOf(live_in, b)

\* The equations add nothing to S; a solution is one such family.
IsClosed(S) == \A b \in Blocks : LiveInOf(S, b) \subseteq S[b]

\* The sets are below every closed family.
BelowClosed ==
  \A S \in [Blocks -> LiveSet] : IsClosed(S) => \A b \in Blocks : live_in[b] \subseteq S[b]

\* What pass 1 computed.
LocalSets ==
  phase # "local" =>
    /\ use_before_def = [b \in Blocks |-> UseBeforeDef(b)]
    /\ def = [b \in Blocks |-> DefAfter(b, Len(func[b].syllables))]
    /\ successors = [b \in Blocks |-> Successors(b)]

\* The equations hold for the blocks visited in a sweep without a change.
Settled ==
  ~changed => \A b \in Blocks :
    b > i => live_in[b] = LiveInOf(live_in, b) /\ live_out[b] = LiveOutOf(live_in, b)

EndsSettled == phase = "done" => i = 0 /\ ~changed

\* The inductive invariant.
Inv ==
  TypeOK /\ NothingYet /\ LocalSets /\ BelowNext /\ BelowClosed /\ Settled /\ EndsSettled
-----------------------------------------------------------------------------
(***************************************************************************)
(* The equations.                                                          *)
(***************************************************************************)
LEMMA BitType == \A v \in Nat : Bit(v) \in 0 .. (LiveSetBits - 1)
  BY LiveSetBitsAssumption DEF Bit

\* Pass 1 computes sets of bits, and successors that are blocks.
LEMMA LocalTypes ==
  ASSUME func \in Functions, NEW b \in Blocks
  PROVE  /\ UseBeforeDef(b) \in LiveSet
         /\ DefAfter(b, Len(func[b].syllables)) \in LiveSet
         /\ Successors(b) \subseteq Blocks
<1>1. /\ Len(func[b].syllables) \in Nat
      /\ DOMAIN func[b].syllables = 1 .. Len(func[b].syllables)
      /\ \A k \in DOMAIN func[b].syllables :
           Uses(func[b].syllables[k]) \subseteq Nat /\ Defs(func[b].syllables[k]) \subseteq Nat
      /\ TermUses(func[b].terminator) \subseteq Nat
  BY FunctionsAssumption DEF Blocks
<1>2. DefAfter(b, Len(func[b].syllables)) \in LiveSet
  <2> SUFFICES ASSUME NEW x \in DefAfter(b, Len(func[b].syllables))
               PROVE  x \in 0 .. (LiveSetBits - 1)
    BY DEF LiveSet
  <2>1. PICK j \in 1 .. Len(func[b].syllables) : \E v \in Defs(func[b].syllables[j]) : x = Bit(v)
    BY DEF DefAfter
  <2> QED
    BY <1>1, <2>1, BitType
<1>3. UseBeforeDef(b) \in LiveSet
  <2> SUFFICES ASSUME NEW x \in UseBeforeDef(b)
               PROVE  x \in 0 .. (LiveSetBits - 1)
    BY DEF LiveSet
  <2>1. \A used, n : \A y \in NotYetDefined(b, used, n) : \E v \in used : y = Bit(v)
    BY DEF NotYetDefined
  <2>2. CASE x \in NotYetDefined(b, TermUses(func[b].terminator), Len(func[b].syllables))
    <3>1. PICK v \in TermUses(func[b].terminator) : x = Bit(v)
      BY <2>1, <2>2
    <3> QED
      BY <1>1, <3>1, BitType
  <2>3. CASE \E k \in DOMAIN func[b].syllables :
               x \in NotYetDefined(b, Uses(func[b].syllables[k]), k - 1)
    <3>1. PICK k \in DOMAIN func[b].syllables :
            x \in NotYetDefined(b, Uses(func[b].syllables[k]), k - 1)
      BY <2>3
    <3>2. PICK v \in Uses(func[b].syllables[k]) : x = Bit(v)
      BY <2>1, <3>1
    <3> QED
      BY <1>1, <3>2, BitType
  <2> QED
    BY <2>2, <2>3 DEF UseBeforeDef
<1>4. Successors(b) \subseteq Blocks
  BY DEF Successors, BlockAt, Blocks
<1> QED
  BY <1>2, <1>3, <1>4

\* They are functions of func alone.
LEMMA LocalKept ==
  ASSUME func' = func
  PROVE  /\ Blocks' = Blocks
         /\ [b \in Blocks |-> UseBeforeDef(b)]' = [b \in Blocks |-> UseBeforeDef(b)]
         /\ [b \in Blocks |-> DefAfter(b, Len(func[b].syllables))]'
              = [b \in Blocks |-> DefAfter(b, Len(func[b].syllables))]
         /\ [b \in Blocks |-> Successors(b)]' = [b \in Blocks |-> Successors(b)]
  BY DEF Blocks, UseBeforeDef, NotYetDefined, DefAfter, Contains, Bit, Successors, BlockAt

LEMMA EquationTypes ==
  ASSUME TypeOK, NEW S \in [Blocks -> LiveSet], NEW b \in Blocks
  PROVE  LiveOutOf(S, b) \in LiveSet /\ LiveInOf(S, b) \in LiveSet
<1>1. successors[b] \subseteq Blocks /\ use_before_def[b] \in LiveSet /\ def[b] \in LiveSet
  BY DEF TypeOK
<1>2. LiveOutOf(S, b) \in LiveSet
  BY <1>1 DEF LiveOutOf, LiveSet
<1>3. LiveInOf(S, b) \in LiveSet
  BY <1>1, <1>2 DEF LiveInOf, Union, Difference, LiveSet
<1> QED
  BY <1>2, <1>3

\* The right-hand sides are monotone.
LEMMA Monotone ==
  ASSUME TypeOK, NEW S, NEW T, \A c \in Blocks : S[c] \subseteq T[c], NEW b \in Blocks
  PROVE  LiveOutOf(S, b) \subseteq LiveOutOf(T, b) /\ LiveInOf(S, b) \subseteq LiveInOf(T, b)
<1>1. successors[b] \subseteq Blocks
  BY DEF TypeOK
<1>2. LiveOutOf(S, b) \subseteq LiveOutOf(T, b)
  BY <1>1 DEF LiveOutOf
<1> QED
  BY <1>2 DEF LiveInOf, Union, Difference
-----------------------------------------------------------------------------
(***************************************************************************)
(* The invariant.                                                          *)
(***************************************************************************)
LEMMA InitInv == Init => Inv
<1> SUFFICES ASSUME Init
             PROVE  Inv
  OBVIOUS
<1>1. func \in Functions /\ Len(func) \in Nat /\ Blocks = 1 .. Len(func)
  BY FunctionsAssumption DEF Init, Blocks
<1>2. TypeOK
  <2>1. NoneLive \in [Blocks -> LiveSet] /\ NoneLive \in [Blocks -> SUBSET Blocks]
    BY DEF NoneLive, LiveSet
  <2>2. changed \in BOOLEAN
    BY Zenon DEF Init
  <2>3. i \in 0 .. Len(func)
    BY <1>1 DEF Init
  <2> QED
    BY <1>1, <2>1, <2>2, <2>3 DEF Init, TypeOK
<1>3. NothingYet /\ LocalSets /\ EndsSettled
  BY DEF Init, NothingYet, LocalSets, EndsSettled
<1>4. \A b \in Blocks : live_in[b] = {} /\ live_out[b] = {}
  BY DEF Init, NoneLive
<1>5. BelowNext /\ BelowClosed
  BY <1>4 DEF BelowNext, BelowClosed
<1>6. Settled
  BY <1>1 DEF Init, Settled
<1> QED
  BY <1>2, <1>3, <1>5, <1>6 DEF Inv

\* The sets of a block before the first sweep are empty, below every solution.
LEMMA ComputeLocalInv ==
  ASSUME Inv, ComputeLocal
  PROVE  Inv'
<1>1. func' = func /\ live_in' = live_in /\ live_out' = live_out /\ i' = i /\ changed' = changed
      /\ phase' = "sweep" /\ phase = "local"
  BY DEF ComputeLocal
<1>2. Blocks' = Blocks /\ func \in Functions /\ Len(func) \in Nat /\ Blocks = 1 .. Len(func)
  BY <1>1, FunctionsAssumption DEF Inv, TypeOK, Blocks
<1>3. TypeOK'
  <2>1. use_before_def' \in [Blocks -> LiveSet] /\ def' \in [Blocks -> LiveSet]
    BY <1>2, LocalTypes DEF ComputeLocal
  <2>2. successors' \in [Blocks -> SUBSET Blocks]
    BY <1>2, LocalTypes DEF ComputeLocal
  <2> QED
    BY <1>1, <1>2, <2>1, <2>2 DEF Inv, TypeOK
<1>4. i = Len(func) /\ \A b \in Blocks : live_in[b] = {} /\ live_out[b] = {}
  BY <1>1 DEF Inv, NothingYet, NoneLive
<1>5. BelowNext' /\ BelowClosed'
  BY <1>1, <1>2, <1>4 DEF BelowNext, BelowClosed
<1>6. Settled' /\ NothingYet' /\ EndsSettled'
  BY <1>1, <1>2, <1>4 DEF Settled, NothingYet, EndsSettled
<1>7. LocalSets'
  BY <1>1, LocalKept DEF LocalSets, ComputeLocal
<1> QED
  BY <1>3, <1>5, <1>6, <1>7 DEF Inv

\* A visit evaluates the equations of block i and adds registers to its sets.
LEMMA VisitGrows ==
  ASSUME Inv, VisitBlock
  PROVE  /\ i \in Blocks
         /\ live_in' = [live_in EXCEPT ![i] = LiveInOf(live_in, i)]
         /\ live_out' = [live_out EXCEPT ![i] = LiveOutOf(live_in, i)]
         /\ live_in' \in [Blocks -> LiveSet] /\ live_out' \in [Blocks -> LiveSet]
         /\ \A b \in Blocks : live_in[b] \subseteq live_in'[b] /\ live_out[b] \subseteq live_out'[b]
<1>1. i \in Blocks
  <2>1. Len(func) \in Nat /\ Blocks = 1 .. Len(func)
    BY FunctionsAssumption DEF Inv, TypeOK, Blocks
  <2> QED
    BY <2>1 DEF Inv, TypeOK, VisitBlock
<1>2. /\ live_in' = [live_in EXCEPT ![i] = LiveInOf(live_in, i)]
      /\ live_out' = [live_out EXCEPT ![i] = LiveOutOf(live_in, i)]
  BY DEF VisitBlock
<1>3. LiveOutOf(live_in, i) \in LiveSet /\ LiveInOf(live_in, i) \in LiveSet
  BY <1>1, EquationTypes DEF Inv, TypeOK
<1>4. live_in \in [Blocks -> LiveSet] /\ live_out \in [Blocks -> LiveSet]
  BY DEF Inv, TypeOK
<1>5. live_in[i] \subseteq LiveInOf(live_in, i) /\ live_out[i] \subseteq LiveOutOf(live_in, i)
  BY <1>1 DEF Inv, BelowNext
<1>6. live_in' \in [Blocks -> LiveSet] /\ live_out' \in [Blocks -> LiveSet]
  BY <1>2, <1>3, <1>4
<1>7. \A b \in Blocks : live_in[b] \subseteq live_in'[b] /\ live_out[b] \subseteq live_out'[b]
  BY <1>1, <1>2, <1>4, <1>5
<1> QED
  BY <1>1, <1>2, <1>6, <1>7

\* A turn of a sweep raises sets to at most what the equations give.
LEMMA VisitBlockInv ==
  ASSUME Inv, VisitBlock
  PROVE  Inv'
<1>1. /\ i \in Blocks
      /\ live_in' = [live_in EXCEPT ![i] = LiveInOf(live_in, i)]
      /\ live_out' = [live_out EXCEPT ![i] = LiveOutOf(live_in, i)]
      /\ live_in' \in [Blocks -> LiveSet] /\ live_out' \in [Blocks -> LiveSet]
      /\ \A b \in Blocks : live_in[b] \subseteq live_in'[b] /\ live_out[b] \subseteq live_out'[b]
  BY VisitGrows
<1>2. /\ func' = func /\ use_before_def' = use_before_def /\ def' = def
      /\ successors' = successors /\ phase' = phase /\ i' = i - 1 /\ phase = "sweep" /\ i > 0
  BY DEF VisitBlock, local
<1>3. Blocks' = Blocks /\ Len(func) \in Nat /\ Blocks = 1 .. Len(func)
  BY <1>2, FunctionsAssumption DEF Inv, TypeOK, Blocks
<1>4. changed' = (changed \/ LiveOutOf(live_in, i) # live_out[i] \/ LiveInOf(live_in, i) # live_in[i])
  BY DEF VisitBlock
<1>5. TypeOK'
  <2>1. changed' \in BOOLEAN
    BY <1>4, Zenon
  <2>2. i' \in 0 .. Len(func)
    BY <1>2, <1>3 DEF Inv, TypeOK
  <2> QED
    BY <1>1, <1>2, <1>3, <2>1, <2>2 DEF Inv, TypeOK
<1>6. BelowNext'
  <2> SUFFICES ASSUME NEW b \in Blocks
               PROVE  /\ live_in'[b] \subseteq LiveInOf(live_in', b)
                      /\ live_out'[b] \subseteq LiveOutOf(live_in', b)
    BY <1>2, <1>3 DEF BelowNext, LiveInOf, LiveOutOf, Union, Difference
  <2>1. live_in'[b] \subseteq LiveInOf(live_in, b) /\ live_out'[b] \subseteq LiveOutOf(live_in, b)
    BY <1>1 DEF Inv, TypeOK, BelowNext
  <2>2. /\ LiveInOf(live_in, b) \subseteq LiveInOf(live_in', b)
        /\ LiveOutOf(live_in, b) \subseteq LiveOutOf(live_in', b)
    BY <1>1, Monotone DEF Inv
  <2> QED
    BY <2>1, <2>2
<1>7. BelowClosed'
  <2> SUFFICES ASSUME NEW S \in [Blocks -> LiveSet], IsClosed(S), NEW b \in Blocks
               PROVE  live_in'[b] \subseteq S[b]
    BY <1>2, <1>3 DEF BelowClosed, IsClosed, LiveInOf, LiveOutOf, Union, Difference
  <2>1. \A c \in Blocks : live_in[c] \subseteq S[c]
    BY DEF Inv, BelowClosed
  <2>2. LiveInOf(live_in, i) \subseteq LiveInOf(S, i)
    BY <1>1, <2>1, Monotone DEF Inv
  <2>3. LiveInOf(S, i) \subseteq S[i]
    BY <1>1 DEF IsClosed
  <2> QED
    BY <1>1, <2>1, <2>2, <2>3 DEF Inv, TypeOK
<1>8. Settled'
  <2> SUFFICES ASSUME ~changed', NEW b \in Blocks, b > i'
               PROVE  live_in'[b] = LiveInOf(live_in', b) /\ live_out'[b] = LiveOutOf(live_in', b)
    BY <1>2, <1>3 DEF Settled, LiveInOf, LiveOutOf, Union, Difference
  <2>1. ~changed /\ LiveOutOf(live_in, i) = live_out[i] /\ LiveInOf(live_in, i) = live_in[i]
    BY <1>4, Zenon
  <2>2. live_in' = live_in /\ live_out' = live_out
    BY <1>1, <2>1 DEF Inv, TypeOK
  <2>3. b = i \/ b > i
    BY <1>2, <1>3, <1>1
  <2> QED
    BY <2>1, <2>2, <2>3 DEF Inv, Settled
<1>9. NothingYet' /\ EndsSettled'
  BY <1>2 DEF NothingYet, EndsSettled
<1>10. LocalSets'
  BY <1>2, LocalKept DEF Inv, LocalSets
<1> QED
  BY <1>5, <1>6, <1>7, <1>8, <1>9, <1>10 DEF Inv

\* The steps that leave the sets alone.
LEMMA SetsKeptInv ==
  ASSUME Inv, UNCHANGED <<local, live_in, live_out>>,
         i' \in 0 .. Len(func), changed' \in BOOLEAN, phase' \in {"local", "sweep", "done"},
         phase = "local" => phase' = "local",
         NothingYet', Settled', EndsSettled'
  PROVE  Inv'
<1>1. Blocks' = Blocks /\ func' = func
  BY DEF local, Blocks
<1>2. BelowNext' /\ BelowClosed'
  BY <1>1 DEF Inv, local, BelowNext, BelowClosed, IsClosed, LiveInOf, LiveOutOf, Union, Difference
<1>3. LocalSets'
  BY <1>1, LocalKept DEF Inv, TypeOK, local, LocalSets
<1> QED
  BY <1>1, <1>2, <1>3 DEF Inv, TypeOK, local

\* Every step of Liveness::compute keeps the invariant.
LEMMA NextInv == Inv /\ [Next]_vars => Inv'
<1> SUFFICES ASSUME Inv, [Next]_vars
             PROVE  Inv'
  OBVIOUS
<1>0. Len(func) \in Nat /\ Blocks = 1 .. Len(func)
  BY FunctionsAssumption DEF Inv, TypeOK, Blocks
<1>1. CASE ComputeLocal
  BY <1>1, ComputeLocalInv
<1>2. CASE VisitBlock
  BY <1>2, VisitBlockInv
<1>3. CASE NextSweep
  <2>1. i' = Len(func) /\ func' = func /\ phase' = "sweep" /\ changed' \in BOOLEAN
    BY <1>3 DEF NextSweep, local
  <2>2. Settled'
    BY <1>0, <2>1 DEF Settled, Blocks
  <2> QED
    BY <1>0, <1>3, <2>1, <2>2, SetsKeptInv DEF NextSweep, NothingYet, EndsSettled
<1>4. CASE Finish
  <2>1. Settled'
    BY <1>4 DEF Finish, local, Inv, Settled, LiveInOf, LiveOutOf, Union, Difference, Blocks
  <2> QED
    BY <1>4, <2>1, SetsKeptInv DEF Finish, Inv, TypeOK, NothingYet, EndsSettled
<1>5. CASE UNCHANGED vars
  <2>1. Settled' /\ NothingYet' /\ EndsSettled'
    BY <1>5 DEF vars, local, Inv, Settled, NothingYet, EndsSettled, LiveInOf, LiveOutOf, Union, Difference, Blocks, NoneLive
  <2> QED
    BY <1>5, <2>1, SetsKeptInv DEF vars, Inv, TypeOK
<1> QED
  BY <1>1, <1>2, <1>3, <1>4, <1>5 DEF Next, Terminated

LEMMA InvHolds == Spec => []Inv
  BY InitInv, NextInv, PTL DEF Spec
-----------------------------------------------------------------------------
(***************************************************************************)
(* Paths.  LiveAtStart looks at paths no longer than the function; a       *)
(* longer one visits a block twice and can be cut short.                   *)
(***************************************************************************)

\* Block path[len] reads v, and no block before it on the path writes it.
Chain(v, len, path) ==
  /\ Exposes(func, path[len], v)
  /\ \A k \in 1 .. (len - 1) :
       Follows(func, path[k], path[k + 1]) /\ ~Writes(func, path[k], v)

\* A path that passes a block twice can be cut short.
LEMMA Shortcut ==
  ASSUME NEW v, NEW len \in Nat \ {0}, NEW path \in [1 .. len -> Blocks], Chain(v, len, path),
         NEW p \in 1 .. len, NEW q \in 1 .. len, p < q, path[p] = path[q]
  PROVE  \E m \in 1 .. (len - 1) : \E short \in [1 .. m -> Blocks] :
           short[1] = path[1] /\ Chain(v, m, short)
<1> DEFINE d == q - p
           m == len - d
           short == [k \in 1 .. m |-> IF k <= p THEN path[k] ELSE path[k + d]]
<1>1. m \in 1 .. (len - 1) /\ d \in Nat /\ p <= m
  OBVIOUS
<1>2. \A k \in 1 .. m : k > p => k + d \in 1 .. len
  BY <1>1
<1>3. short \in [1 .. m -> Blocks]
  BY <1>1, <1>2
<1>4. short[1] = path[1]
  BY <1>1
<1>5. short[m] = path[len]
  BY <1>1
<1>6. ASSUME NEW k \in 1 .. (m - 1)
      PROVE  Follows(func, short[k], short[k + 1]) /\ ~Writes(func, short[k], v)
  <2>1. CASE k < p
    <3>1. short[k] = path[k] /\ short[k + 1] = path[k + 1] /\ k \in 1 .. (len - 1)
      BY <1>1, <2>1
    <3> QED
      BY <3>1 DEF Chain
  <2>2. CASE k >= p
    <3>1. short[k] = path[k + d] /\ short[k + 1] = path[(k + d) + 1] /\ k + d \in 1 .. (len - 1)
      BY <1>1, <2>2
    <3> QED
      BY <3>1 DEF Chain
  <2> QED
    BY <1>1, <2>1, <2>2
<1>7. Chain(v, m, short)
  BY <1>5, <1>6 DEF Chain
<1> HIDE DEF short, m
<1> QED
  BY <1>1, <1>3, <1>4, <1>7

\* A non-empty set of natural numbers has a least element.
LEMMA LeastElement ==
  ASSUME NEW T \in SUBSET Nat, T # {}
  PROVE  \E x \in T : \A y \in T : x <= y
<1> DEFINE Less == {pair \in Nat \X Nat : pair[1] < pair[2]}
<1>1. IsWellFoundedOn(Less, Nat)
  BY NatLessThanWellFounded DEF OpToRel
<1>2. PICK x \in T : \A y \in T : <<y, x>> \notin Less
  <2> HIDE DEF Less
  <2> QED
    BY <1>1, WFMin
<1>3. ASSUME NEW y \in T PROVE x <= y
  <2>1. x \in Nat /\ y \in Nat
    OBVIOUS
  <2>2. y < x => <<y, x>> \in Less
    BY <2>1
  <2> QED
    BY <1>2, <2>1, <2>2
<1> QED
  BY <1>3

\* So a register live on some path is live on one no longer than the function.
LEMMA BoundedPath ==
  ASSUME TypeOK, NEW v, NEW len \in Nat \ {0}, NEW path \in [1 .. len -> Blocks],
         Chain(v, len, path)
  PROVE  LiveAtStart(func, path[1], v)
<1> DEFINE T == {m \in Nat \ {0} : \E p \in [1 .. m -> Blocks] : p[1] = path[1] /\ Chain(v, m, p)}
<1>1. len \in T /\ T \in SUBSET Nat
  OBVIOUS
<1>2. PICK m \in T : \A y \in T : m <= y
  <2> HIDE DEF T
  <2> QED
    BY <1>1, LeastElement
<1>3. PICK p \in [1 .. m -> Blocks] : p[1] = path[1] /\ Chain(v, m, p)
  BY <1>2
<1>4. Len(func) \in Nat /\ Blocks = 1 .. Len(func)
  BY FunctionsAssumption DEF TypeOK, Blocks
<1>5. m <= Len(func)
  <2> SUFFICES ASSUME m > Len(func)
               PROVE  FALSE
    BY <1>2, <1>4
  <2>1. /\ IsFiniteSet(1 .. m) /\ Cardinality(1 .. m) = m
        /\ IsFiniteSet(Blocks) /\ Cardinality(Blocks) = Len(func)
    <3>1. m \in Nat \ {0} /\ m \in Int /\ 1 \in Int /\ Len(func) \in Int
      BY <1>2, <1>4
    <3>2. IsFiniteSet(1 .. m) /\ Cardinality(1 .. m) = IF 1 > m THEN 0 ELSE m - 1 + 1
      BY <3>1, FS_Interval
    <3>3. /\ IsFiniteSet(1 .. Len(func))
          /\ Cardinality(1 .. Len(func)) = IF 1 > Len(func) THEN 0 ELSE Len(func) - 1 + 1
      BY <3>1, FS_Interval
    <3> QED
      BY <1>4, <3>1, <3>2, <3>3
  <2>2. PICK x \in 1 .. m, y \in 1 .. m : x # y /\ p[x] = p[y]
    BY <1>3, <2>1, FS_PigeonHole
  <2>3. \E n \in 1 .. (m - 1) : \E short \in [1 .. n -> Blocks] :
          short[1] = p[1] /\ Chain(v, n, short)
    <3>1. m \in Nat \ {0}
      BY <1>2
    <3>2. CASE x < y
      BY <1>3, <2>2, <3>1, <3>2, Shortcut
    <3>3. CASE y < x
      BY <1>3, <2>2, <3>1, <3>3, Shortcut
    <3> QED
      BY <2>2, <3>1, <3>2, <3>3
  <2>4. PICK n \in 1 .. (m - 1) : n \in T
    BY <1>2, <1>3, <2>3
  <2> QED
    BY <1>2, <2>4
<1>6. m \in DOMAIN func
  BY <1>2, <1>4, <1>5 DEF Blocks
<1> HIDE DEF T
<1> QED
  BY <1>3, <1>6 DEF LiveAtStart, Chain, Blocks

\* The successor lists are what may follow.
LEMMA SuccessorsFollow ==
  ASSUME TypeOK, NEW b \in Blocks, NEW c \in Blocks
  PROVE  c \in Successors(b) <=> Follows(func, b, c)
<1>1. /\ \A x, y \in Blocks : func[x].label = func[y].label => x = y
      /\ func[b].terminator.op \in {"br", "jmp", "ret", "call"}
      /\ func[b].terminator.op = "call" =>
           \A x \in Blocks : func[x].label = func[b].terminator.label <=> x = b + 1
  BY LayoutAssumption DEF TypeOK, Blocks
<1>2. Len(func) \in Nat /\ Blocks = 1 .. Len(func)
  BY FunctionsAssumption DEF TypeOK, Blocks
<1>3. c \in BlockAt(func[b].terminator.label) <=> func[c].label = func[b].terminator.label
  BY <1>1, <1>2 DEF BlockAt, Blocks
<1> QED
  BY <1>1, <1>3 DEF Successors, Follows, Blocks

\* When every register has a bit, the local sets say what the block does.
LEMMA LocalExact ==
  ASSUME TypeOK, Mentioned \subseteq 0 .. (LiveSetBits - 1),
         NEW b \in Blocks, NEW v \in 0 .. (LiveSetBits - 1)
  PROVE  /\ v \in UseBeforeDef(b) <=> Exposes(func, b, v)
         /\ v \in DefAfter(b, Len(func[b].syllables)) <=> Writes(func, b, v)
<1> DEFINE syls == func[b].syllables
<1>1. /\ Len(syls) \in Nat /\ DOMAIN syls = 1 .. Len(syls)
      /\ \A k \in DOMAIN syls :
           /\ Uses(syls[k]) \subseteq 0 .. (LiveSetBits - 1)
           /\ Defs(syls[k]) \subseteq 0 .. (LiveSetBits - 1)
      /\ TermUses(func[b].terminator) \subseteq 0 .. (LiveSetBits - 1)
  <2>1. Len(syls) \in Nat /\ DOMAIN syls = 1 .. Len(syls)
    BY FunctionsAssumption DEF TypeOK, Blocks
  <2>2. \A k \in DOMAIN syls : Uses(syls[k]) \subseteq Mentioned /\ Defs(syls[k]) \subseteq Mentioned
    BY DEF Mentioned
  <2>3. TermUses(func[b].terminator) \subseteq Mentioned
    BY DEF Mentioned
  <2> QED
    BY <2>1, <2>2, <2>3
<1>2. \A x \in 0 .. (LiveSetBits - 1) : Bit(x) = x
  BY LiveSetBitsAssumption DEF Bit
<1>3. ASSUME NEW n \in 0 .. Len(syls)
      PROVE  /\ v \in DefAfter(b, n) <=> \E j \in 1 .. n : v \in Defs(syls[j])
             /\ DefAfter(b, n) \subseteq 0 .. (LiveSetBits - 1)
  <2>1. \A j \in 1 .. n : j \in DOMAIN syls
    BY <1>1
  <2>2. \A j \in 1 .. n : {Bit(x) : x \in Defs(syls[j])} = Defs(syls[j])
    BY <1>1, <1>2, <2>1
  <2>3. DefAfter(b, n) = UNION {Defs(syls[j]) : j \in 1 .. n}
    BY <2>2 DEF DefAfter
  <2> QED
    BY <1>1, <2>1, <2>3
<1>4. ASSUME NEW n \in 0 .. Len(syls), NEW used \in SUBSET (0 .. (LiveSetBits - 1))
      PROVE  v \in NotYetDefined(b, used, n) <=>
               v \in used /\ ~\E j \in 1 .. n : v \in Defs(syls[j])
  <2>1. \A u \in used : Contains(DefAfter(b, n), u) <=> u \in DefAfter(b, n)
    BY LiveSetBitsAssumption DEF Contains
  <2>2. v \in NotYetDefined(b, used, n) <=> v \in used /\ v \notin DefAfter(b, n)
    BY <1>2, <2>1 DEF NotYetDefined
  <2> QED
    BY <1>3, <2>2
<1>5. v \in DefAfter(b, Len(syls)) <=> Writes(func, b, v)
  <2>1. Len(syls) \in 0 .. Len(syls)
    BY <1>1
  <2>2. v \in DefAfter(b, Len(syls)) <=> \E j \in 1 .. Len(syls) : v \in Defs(syls[j])
    <3> HIDE DEF syls
    <3> QED
      BY <1>3, <2>1
  <2> QED
    BY <1>1, <2>2 DEF Writes
<1>6. ASSUME NEW k \in DOMAIN syls
      PROVE  v \in NotYetDefined(b, Uses(syls[k]), k - 1) <=>
               v \in Uses(syls[k]) /\ ~\E j \in 1 .. (k - 1) : v \in Defs(syls[j])
  <2>1. k - 1 \in 0 .. Len(syls) /\ Uses(syls[k]) \in SUBSET (0 .. (LiveSetBits - 1))
    BY <1>1
  <2> HIDE DEF syls
  <2> QED
    BY <1>4, <2>1
<1>7. v \in NotYetDefined(b, TermUses(func[b].terminator), Len(syls)) <=>
        v \in TermUses(func[b].terminator) /\ ~\E j \in 1 .. Len(syls) : v \in Defs(syls[j])
  <2>1. /\ Len(syls) \in 0 .. Len(syls)
        /\ TermUses(func[b].terminator) \in SUBSET (0 .. (LiveSetBits - 1))
    BY <1>1
  <2> HIDE DEF syls
  <2> QED
    BY <1>4, <2>1
<1>8. (Len(syls) + 1) - 1 = Len(syls)
  BY <1>1
<1>9. v \in UseBeforeDef(b) <=>
        \/ \E k \in DOMAIN syls : v \in NotYetDefined(b, Uses(syls[k]), k - 1)
        \/ v \in NotYetDefined(b, TermUses(func[b].terminator), Len(syls))
  BY DEF UseBeforeDef
<1>10. Exposes(func, b, v) <=>
         \/ \E k \in DOMAIN syls :
               v \in Uses(syls[k]) /\ ~\E j \in 1 .. (k - 1) : v \in Defs(syls[j])
         \/ /\ v \in TermUses(func[b].terminator)
            /\ ~\E j \in 1 .. ((Len(syls) + 1) - 1) : v \in Defs(syls[j])
  BY DEF Exposes
<1> QED
  BY <1>5, <1>6, <1>7, <1>8, <1>9, <1>10
-----------------------------------------------------------------------------
(***************************************************************************)
(* Theorems.                                                               *)
(***************************************************************************)

\* The sets of Liveness::compute hold bits of a LiveSet, the successor lists
\* hold blocks of the function.
THEOREM LivenessTypeCorrect == Spec => []TypeOK
  BY InvHolds, PTL DEF Inv

\* Liveness::compute returns the least solution of its dataflow equations, for
\* every function.
THEOREM LivenessLeastSolution == Spec => []LeastSolution
<1>1. Inv => LeastSolution
  <2> SUFFICES ASSUME Inv
               PROVE  LeastSolution
    OBVIOUS
  <2>1. phase = "sweep" =>
          \A S \in [Blocks -> LiveSet] : IsSolution(S) => \A b \in Blocks : live_in[b] \subseteq S[b]
    BY DEF Inv, BelowClosed, IsClosed, IsSolution
  <2>2. ASSUME phase = "done"
        PROVE  \A b \in Blocks :
                 live_in[b] = LiveInOf(live_in, b) /\ live_out[b] = LiveOutOf(live_in, b)
    BY <2>2, FunctionsAssumption DEF Inv, TypeOK, Settled, EndsSettled, Blocks
  <2> QED
    BY <2>1, <2>2 DEF LeastSolution, IsSolution
<1> QED
  BY <1>1, InvHolds, PTL

\* A solution of the equations that is below every closed family has the
\* registers of a block that some path reads before it writes them.
LEMMA SolutionIsLive ==
  ASSUME Inv, phase = "done", Mentioned \subseteq 0 .. (LiveSetBits - 1),
         NEW b \in Blocks, NEW v \in 0 .. (LiveSetBits - 1)
  PROVE  v \in live_in[b] <=> LiveAtStart(func, b, v)
<1>1. TypeOK /\ Len(func) \in Nat /\ Blocks = 1 .. Len(func)
  BY FunctionsAssumption DEF Inv, TypeOK, Blocks
<1>2. \A c \in Blocks : live_in[c] = LiveInOf(live_in, c)
  BY <1>1 DEF Inv, Settled, EndsSettled
<1>3. \A S : \A c \in Blocks : \A x \in 0 .. (LiveSetBits - 1) :
        x \in LiveInOf(S, c) <=>
          \/ Exposes(func, c, x)
          \/ ~Writes(func, c, x) /\ \E d \in Blocks : Follows(func, c, d) /\ x \in S[d]
  <2> SUFFICES ASSUME NEW S, NEW c \in Blocks, NEW x \in 0 .. (LiveSetBits - 1)
               PROVE  x \in LiveInOf(S, c) <=>
                        \/ Exposes(func, c, x)
                        \/ ~Writes(func, c, x) /\ \E d \in Blocks : Follows(func, c, d) /\ x \in S[d]
    OBVIOUS
  <2>1. /\ use_before_def[c] = UseBeforeDef(c)
        /\ def[c] = DefAfter(c, Len(func[c].syllables))
        /\ successors[c] = Successors(c)
    BY DEF Inv, LocalSets
  <2>2. Successors(c) \subseteq Blocks
    BY <1>1, LocalTypes DEF TypeOK
  <2>3. x \in LiveOutOf(S, c) <=> \E d \in Blocks : Follows(func, c, d) /\ x \in S[d]
    BY <1>1, <2>1, <2>2, SuccessorsFollow DEF LiveOutOf
  <2> QED
    BY <1>1, <2>1, <2>3, LocalExact DEF LiveInOf, Union, Difference
<1>4. ASSUME LiveAtStart(func, b, v)
      PROVE  v \in live_in[b]
  <2>1. PICK len \in Blocks : \E path \in [1 .. len -> Blocks] : path[1] = b /\ Chain(v, len, path)
    BY <1>4 DEF LiveAtStart, Chain, Blocks
  <2>2. PICK path \in [1 .. len -> Blocks] : path[1] = b /\ Chain(v, len, path)
    BY <2>1
  <2>3. len \in Nat \ {0}
    BY <1>1
  <2> DEFINE T == {n \in 0 .. (len - 1) : v \notin live_in[path[len - n]]}
  <2>4. SUFFICES ASSUME T # {}
                 PROVE  FALSE
    <3>1. len - 1 \in 0 .. (len - 1) /\ len - (len - 1) = 1
      BY <2>3
    <3> QED
      BY <2>2, <3>1
  <2>5. PICK n \in T : \A y \in T : n <= y
    <3>1. T \in SUBSET Nat
      OBVIOUS
    <3> HIDE DEF T
    <3> QED
      BY <2>4, <3>1, LeastElement
  <2>6. len - n \in 1 .. len /\ path[len - n] \in Blocks
    BY <2>3, <2>5, <2>2
  <2>7. CASE n = 0
    <3>1. len - n = len
      BY <2>3, <2>7
    <3>2. Exposes(func, path[len - n], v)
      BY <2>2, <3>1 DEF Chain
    <3>3. v \in LiveInOf(live_in, path[len - n])
      BY <1>3, <2>6, <3>2
    <3> QED
      BY <1>2, <2>5, <2>6, <3>3
  <2>8. CASE n > 0
    <3>1. n - 1 \in 0 .. (len - 1) /\ n - 1 \notin T
      BY <2>3, <2>5, <2>8
    <3>2. v \in live_in[path[len - (n - 1)]] /\ len - (n - 1) = (len - n) + 1
      BY <2>3, <2>5, <3>1
    <3>3. len - n \in 1 .. (len - 1) /\ (len - n) + 1 \in 1 .. len
      BY <2>3, <2>5, <2>8
    <3>4. /\ Follows(func, path[len - n], path[(len - n) + 1])
          /\ ~Writes(func, path[len - n], v) /\ path[(len - n) + 1] \in Blocks
      BY <2>2, <3>3 DEF Chain
    <3>5. v \in LiveInOf(live_in, path[len - n])
      BY <1>3, <2>6, <3>2, <3>4
    <3> QED
      BY <1>2, <2>5, <2>6, <3>5
  <2>9. n = 0 \/ n > 0
    BY <2>3, <2>5
  <2> QED
    BY <2>7, <2>8, <2>9
<1>5. ASSUME v \in live_in[b]
      PROVE  LiveAtStart(func, b, v)
  <2> DEFINE S == [c \in Blocks |-> {x \in 0 .. (LiveSetBits - 1) : LiveAtStart(func, c, x)}]
  <2>1. S \in [Blocks -> LiveSet]
    BY DEF LiveSet
  <2>2. IsClosed(S)
    <3> SUFFICES ASSUME NEW c \in Blocks, NEW x \in LiveInOf(S, c)
                 PROVE  LiveAtStart(func, c, x) /\ x \in 0 .. (LiveSetBits - 1)
      BY DEF IsClosed
    <3>1. x \in 0 .. (LiveSetBits - 1)
      BY <1>1, <2>1, EquationTypes DEF LiveSet
    <3>2. CASE Exposes(func, c, x)
      <4> DEFINE path == [n \in 1 .. 1 |-> c]
      <4>1. path \in [1 .. 1 -> Blocks] /\ path[1] = c /\ Chain(x, 1, path)
        BY <3>2 DEF Chain
      <4> HIDE DEF path
      <4>2. 1 \in Nat \ {0}
        OBVIOUS
      <4>3. LiveAtStart(func, path[1], x)
        BY <1>1, <4>1, <4>2, BoundedPath
      <4> QED
        BY <3>1, <4>1, <4>3
    <3>3. CASE ~Writes(func, c, x) /\ \E d \in Blocks : Follows(func, c, d) /\ x \in S[d]
      <4>1. PICK d \in Blocks : Follows(func, c, d) /\ LiveAtStart(func, d, x)
        BY <3>3
      <4>2. PICK len \in Blocks : \E path \in [1 .. len -> Blocks] : path[1] = d /\ Chain(x, len, path)
        BY <4>1 DEF LiveAtStart, Chain, Blocks
      <4>3. PICK path \in [1 .. len -> Blocks] : path[1] = d /\ Chain(x, len, path)
        BY <4>2
      <4>4. len \in Nat \ {0}
        BY <1>1
      <4> DEFINE longer == [n \in 1 .. (len + 1) |-> IF n = 1 THEN c ELSE path[n - 1]]
      <4>5. longer \in [1 .. (len + 1) -> Blocks] /\ longer[1] = c /\ longer[len + 1] = path[len]
        BY <4>3, <4>4
      <4>6. ASSUME NEW n \in 1 .. ((len + 1) - 1)
            PROVE  Follows(func, longer[n], longer[n + 1]) /\ ~Writes(func, longer[n], x)
        <5>1. CASE n = 1
          BY <3>3, <4>1, <4>3, <4>4, <5>1
        <5>2. CASE n # 1
          <6>1. n - 1 \in 1 .. (len - 1) /\ longer[n] = path[n - 1] /\ longer[n + 1] = path[(n - 1) + 1]
            BY <4>4, <5>2
          <6> QED
            BY <4>3, <6>1 DEF Chain
        <5> QED
          BY <5>1, <5>2
      <4>7. Chain(x, len + 1, longer)
        BY <4>3, <4>5, <4>6 DEF Chain
      <4> HIDE DEF longer
      <4>8. len + 1 \in Nat \ {0}
        BY <4>4
      <4> QED
        BY <1>1, <3>1, <4>5, <4>7, <4>8, BoundedPath
    <3> HIDE DEF S
    <3> QED
      BY <1>3, <3>1, <3>2, <3>3
  <2>3. live_in[b] \subseteq S[b]
    BY <2>1, <2>2 DEF Inv, BelowClosed
  <2> QED
    BY <1>5, <2>3
<1> QED
  BY <1>4, <1>5

\* live_out.contains(v) is true exactly when some path from the end of the block
\* reads v before it writes it, for every function whose registers all have a
\* bit.
THEOREM LivenessIsExact == Spec => []ExactLiveness
<1>1. Inv => ExactLiveness
  <2> SUFFICES ASSUME Inv, phase = "done", Mentioned \subseteq 0 .. (LiveSetBits - 1),
                      NEW b \in Blocks, NEW v \in Mentioned
               PROVE  Contains(live_out[b], v) <=> LiveAtEnd(func, b, v)
    BY DEF ExactLiveness
  <2>1. TypeOK /\ Len(func) \in Nat /\ Blocks = 1 .. Len(func)
    BY FunctionsAssumption DEF Inv, TypeOK, Blocks
  <2>2. live_out[b] = LiveOutOf(live_in, b)
    BY <2>1 DEF Inv, Settled, EndsSettled
  <2>3. successors[b] = Successors(b) /\ Successors(b) \subseteq Blocks
    BY <2>1, LocalTypes DEF Inv, LocalSets, TypeOK
  <2>4. v \in 0 .. (LiveSetBits - 1)
    OBVIOUS
  <2>5. v \in live_out[b] <=> \E c \in Blocks : Follows(func, b, c) /\ v \in live_in[c]
    BY <2>1, <2>2, <2>3, SuccessorsFollow DEF LiveOutOf
  <2>6. Contains(live_out[b], v) <=> v \in live_out[b]
    BY <2>4, LiveSetBitsAssumption DEF Contains
  <2> QED
    BY <2>4, <2>5, <2>6, SolutionIsLive DEF LiveAtEnd, Blocks
<1> QED
  BY <1>1, InvHolds, PTL

\* No step of the iteration takes a register out of a set, for every function.
THEOREM LivenessSetsOnlyGrow == Spec => SetsOnlyGrow
<1> DEFINE Grow == \A b \in Blocks : live_in[b] \subseteq live_in'[b] /\ live_out[b] \subseteq live_out'[b]
<1>1. Inv /\ [Next]_vars => [Grow]_vars
  <2> SUFFICES ASSUME Inv, Next
               PROVE  Grow
    OBVIOUS
  <2>1. CASE VisitBlock
    BY <2>1, VisitGrows
  <2>2. CASE live_in' = live_in /\ live_out' = live_out
    BY <2>2
  <2> QED
    BY <2>1, <2>2 DEF Next, ComputeLocal, NextSweep, Finish, Terminated, vars
<1> QED
  BY <1>1, InvHolds, PTL DEF Spec, SetsOnlyGrow
=============================================================================
