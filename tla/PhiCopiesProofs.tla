-------------------------- MODULE PhiCopiesProofs --------------------------
(***************************************************************************)
(* Theorems about PhiCopies: for every set of blocks, every number of      *)
(* registers and copies, and every order of the blocks, the serialised     *)
(* moves compute the parallel copy, a temporary is made for each cycle of  *)
(* copies only, and blocks share no temporary.                             *)
(***************************************************************************)
EXTENDS PhiCopies, FiniteSetTheorems, TLAPS

\* A source names a register that exists, so no later temporary is mistaken
\* for it.
Allocated(src) == src.kind = "VReg" => src.n < next_vreg

\* Every pending copy can still deliver its value ...
PendingSound ==
  \A i \in DOMAIN remaining :
    Allocated(remaining[i]) /\ ValueOf(remaining[i]) = Copies[i].src

\* ... every other copy has delivered it ...
DeliveredSound ==
  \A i \in DOMAIN Copies \ DOMAIN remaining :
    env[Copies[i].dst] = Copies[i].src

\* ... and a register that is no destination is as it was.
OthersKept ==
  \A v \in 0 .. (VRegs - 1) :
    (\A i \in DOMAIN Copies : Copies[i].dst # v) => env[v] = VReg(v)

IInv ==
  /\ TypeOK
  /\ label # NoLabel => PendingSound /\ DeliveredSound /\ OthersKept

\* A list of copies is a function from positions to copies whose dst and src
\* are registers of the function (or immediates), and it is well formed.
LEMMA CopyListFacts ==
  ASSUME NEW copies \in CopyLists
  PROVE  /\ DOMAIN copies \subseteq 1 .. MaxCopies
         /\ \A i \in DOMAIN copies :
              /\ copies[i].dst \in 0 .. (VRegs - 1)
              /\ copies[i].src \in InputSrc
         /\ WellFormed(copies)
<1>1. PICK n \in 0 .. MaxCopies : copies \in [1 .. n -> PhiCopy]
  BY DEF CopyLists
<1>2. WellFormed(copies)
  BY DEF CopyLists
<1>3. DOMAIN copies = 1 .. n
  BY <1>1
<1>4. \A i \in 1 .. n : copies[i] \in PhiCopy
  BY <1>1
<1>5. \A i \in 1 .. n : copies[i].dst \in 0 .. (VRegs - 1) /\ copies[i].src \in InputSrc
  BY <1>4 DEF PhiCopy
<1>6. 1 .. n \subseteq 1 .. MaxCopies
  BY MaxCopiesAssumption
<1> QED
  BY <1>2, <1>3, <1>5, <1>6

\* The sources of the input are sources, and name registers below VRegs.
LEMMA InputSrcFacts ==
  /\ InputSrc \subseteq CopySrc
  /\ \A s \in InputSrc : s.kind = "VReg" => s.n < VRegs /\ s.n \in Nat /\ s = VReg(s.n)
  /\ \A s \in CopySrc : s.kind = "VReg" => s.n \in Nat /\ s = VReg(s.n)
  /\ \A v \in Nat : VReg(v) \in CopySrc
BY VRegsAssumption, ConstsAssumption DEF InputSrc, CopySrc, VReg

\* The initial states satisfy the inductive invariant.
LEMMA InitIInv == Init => IInv
<1> SUFFICES ASSUME Init PROVE IInv
  OBVIOUS
<1>1. label = NoLabel /\ next_vreg = VRegs /\ env = StartEnv(VRegs)
  BY DEF Init
<1>2. env \in [0 .. (next_vreg - 1) -> CopySrc]
  BY <1>1, InputSrcFacts, VRegsAssumption DEF StartEnv
<1>3. blocks \in [Labels -> Seq(Move)]
  BY DEF Init
<1> QED
  BY <1>1, <1>2, <1>3, VRegsAssumption, InputsAssumption DEF Init, IInv, TypeOK

\* Starting a block: every source still holds its own value.
LEMMA StartBlockStep ==
  ASSUME IInv, NEW l \in Labels, StartBlock(l)
  PROVE  IInv'
<1> DEFINE C == copies_per_block[l]
<1>1. C \in CopyLists
  BY DEF IInv, TypeOK
<1>2. /\ label' = l /\ l # NoLabel /\ next_vreg' = next_vreg
      /\ copies_per_block' = copies_per_block /\ blocks' = blocks
      /\ todo' \subseteq Labels
      /\ remaining' = [i \in NotSelfCopy(C) |-> C[i].src]
      /\ env' = StartEnv(next_vreg)
  BY LabelsAssumption DEF StartBlock, IInv, TypeOK, NoLabel
<1>3. Copies' = C /\ DOMAIN remaining' = NotSelfCopy(C)
  BY <1>2 DEF Copies
<1>4. /\ NotSelfCopy(C) \subseteq DOMAIN C
      /\ \A i \in NotSelfCopy(C) : remaining'[i] = C[i].src
      /\ \A i \in DOMAIN C \ NotSelfCopy(C) : C[i].src = VReg(C[i].dst)
  BY <1>2 DEF NotSelfCopy
<1>5. next_vreg \in Nat /\ next_vreg >= VRegs
  BY DEF IInv, TypeOK
<1>6. /\ \A v \in 0 .. (next_vreg - 1) : env'[v] = VReg(v)
      /\ env' \in [0 .. (next_vreg - 1) -> CopySrc]
  BY <1>2, <1>5, InputSrcFacts DEF StartEnv
<1>7. \A i \in DOMAIN C : /\ C[i].dst \in 0 .. (VRegs - 1)
                          /\ C[i].src \in InputSrc /\ C[i].src \in CopySrc
  BY <1>1, CopyListFacts, InputSrcFacts
<1>8. TypeOK'
  BY <1>2, <1>3, <1>4, <1>5, <1>6, <1>7 DEF IInv, TypeOK
<1>9. PendingSound'
  <2> SUFFICES ASSUME NEW i \in NotSelfCopy(C)
               PROVE  Allocated(remaining[i])' /\ ValueOf(remaining[i])' = C[i].src
    BY <1>3 DEF PendingSound
  <2>1. remaining'[i] = C[i].src /\ C[i].src \in InputSrc
    BY <1>4, <1>7
  <2>2. C[i].src.kind = "VReg" =>
          C[i].src.n \in 0 .. (next_vreg - 1) /\ C[i].src = VReg(C[i].src.n)
    BY <2>1, <1>5, InputSrcFacts, VRegsAssumption
  <2>3. Allocated(remaining[i])'
    BY <2>1, <2>2, <1>2, <1>5 DEF Allocated
  <2>4. ValueOf(remaining[i])' = C[i].src
    BY <2>1, <2>2, <1>6 DEF ValueOf
  <2> QED
    BY <2>3, <2>4
<1>10. DeliveredSound'
  BY <1>3, <1>4, <1>5, <1>6, <1>7, VRegsAssumption DEF DeliveredSound
<1>11. OthersKept'
  BY <1>3, <1>5, <1>6, VRegsAssumption DEF OthersKept
<1> QED
  BY <1>8, <1>9, <1>10, <1>11 DEF IInv

\* The facts about the block in progress that the two loop steps share.
LEMMA InBlockFacts ==
  ASSUME IInv, label # NoLabel
  PROVE  /\ label \in Labels
         /\ next_vreg \in Nat /\ next_vreg >= VRegs
         /\ DOMAIN remaining \subseteq DOMAIN Copies
         /\ \A i \in DOMAIN Copies : /\ Copies[i].dst \in 0 .. (next_vreg - 1)
                                     /\ Copies[i].dst \in 0 .. (VRegs - 1)
                                     /\ Copies[i].src \in CopySrc
         /\ \A i, j \in DOMAIN Copies :
              Copies[i].dst = Copies[j].dst => Copies[i].src = Copies[j].src
         /\ \A i \in DOMAIN remaining :
              /\ remaining[i] \in CopySrc
              /\ remaining[i].kind = "VReg" =>
                   /\ remaining[i].n \in 0 .. (next_vreg - 1)
                   /\ remaining[i] = VReg(remaining[i].n)
<1>1. label \in Labels /\ Copies \in CopyLists
  BY DEF IInv, TypeOK, Copies
<1>2. next_vreg \in Nat /\ next_vreg >= VRegs /\ DOMAIN remaining \subseteq DOMAIN Copies
  BY DEF IInv, TypeOK
<1>3. \A i \in DOMAIN Copies : Copies[i].dst \in 0 .. (VRegs - 1) /\ Copies[i].src \in CopySrc
  BY <1>1, CopyListFacts, InputSrcFacts
<1>4. \A i, j \in DOMAIN Copies :
        Copies[i].dst = Copies[j].dst => Copies[i].src = Copies[j].src
  BY <1>1, CopyListFacts DEF WellFormed
<1>5. \A i \in DOMAIN remaining : remaining[i] \in CopySrc /\ Allocated(remaining[i])
  BY DEF IInv, TypeOK, PendingSound
<1>6. \A i \in DOMAIN remaining :
        remaining[i].kind = "VReg" =>
          remaining[i].n \in 0 .. (next_vreg - 1) /\ remaining[i] = VReg(remaining[i].n)
  BY <1>2, <1>5, InputSrcFacts DEF Allocated
<1> QED
  BY <1>1, <1>2, <1>3, <1>4, <1>5, <1>6, VRegsAssumption

\* A value that a source of the block names is a symbolic value.
LEMMA ValueType ==
  ASSUME IInv, label # NoLabel, NEW i \in DOMAIN remaining
  PROVE  ValueOf(remaining[i]) \in CopySrc
<1>1. env \in [0 .. (next_vreg - 1) -> CopySrc]
  BY DEF IInv, TypeOK
<1> QED
  BY <1>1, InBlockFacts DEF ValueOf

\* Emitting a ready copy overwrites no register a pending copy reads.
LEMMA EmitReadyStep ==
  ASSUME IInv, NEW i \in 1 .. MaxCopies, EmitReady(i)
  PROVE  IInv'
<1> DEFINE d == Copies[i].dst
<1>1. /\ label # NoLabel /\ i \in DOMAIN remaining
      /\ \A j \in DOMAIN remaining : remaining[j] # VReg(d)
      /\ label' = label /\ next_vreg' = next_vreg /\ todo' = todo
      /\ copies_per_block' = copies_per_block
      /\ env' = [env EXCEPT ![d] = ValueOf(remaining[i])]
      /\ remaining' = [j \in DOMAIN remaining \ {i} |-> remaining[j]]
      /\ blocks' = [blocks EXCEPT ![label] =
                      Append(@, [dst |-> d, src |-> remaining[i]])]
  BY DEF EmitReady, FirstReady, Ready, Emit
<1>2. Copies' = Copies
  BY <1>1 DEF Copies
<1>3. /\ env \in [0 .. (next_vreg - 1) -> CopySrc]
      /\ ValueOf(remaining[i]) = Copies[i].src
      /\ ValueOf(remaining[i]) \in CopySrc
  BY <1>1, ValueType DEF IInv, TypeOK, PendingSound
<1>4. /\ d \in 0 .. (next_vreg - 1)
      /\ env' \in [0 .. (next_vreg - 1) -> CopySrc]
      /\ env'[d] = Copies[i].src
      /\ \A v \in 0 .. (next_vreg - 1) : v # d => env'[v] = env[v]
  BY <1>1, <1>3, InBlockFacts
<1>5. /\ DOMAIN remaining' = DOMAIN remaining \ {i}
      /\ \A j \in DOMAIN remaining \ {i} : remaining'[j] = remaining[j]
  BY <1>1
<1>6. TypeOK'
  <2>1. blocks' \in [Labels -> Seq(Move)]
    <3>1. [dst |-> d, src |-> remaining[i]] \in Move
      BY <1>1, InBlockFacts DEF Move
    <3> QED
      BY <3>1, <1>1, InBlockFacts DEF IInv, TypeOK
  <2> QED
    BY <2>1, <1>1, <1>2, <1>4, <1>5 DEF IInv, TypeOK
<1>7. PendingSound'
  <2> SUFFICES ASSUME NEW j \in DOMAIN remaining \ {i}
               PROVE  Allocated(remaining[j])' /\ ValueOf(remaining[j])' = Copies[j].src
    BY <1>2, <1>5 DEF PendingSound
  <2>1. /\ remaining'[j] = remaining[j] /\ Allocated(remaining[j])
        /\ ValueOf(remaining[j]) = Copies[j].src
    BY <1>1, <1>5 DEF IInv, PendingSound
  <2>2. remaining[j].kind = "VReg" =>
          remaining[j].n \in 0 .. (next_vreg - 1) /\ remaining[j].n # d
    BY <1>1, InBlockFacts
  <2> QED
    BY <2>1, <2>2, <1>1, <1>4 DEF Allocated, ValueOf
<1>8. DeliveredSound'
  <2> SUFFICES ASSUME NEW k \in DOMAIN Copies, k \notin DOMAIN remaining \/ k = i
               PROVE  env'[Copies[k].dst] = Copies[k].src
    BY <1>2, <1>5 DEF DeliveredSound
  <2>1. CASE Copies[k].dst = d
    BY <2>1, <1>1, <1>4, InBlockFacts
  <2>2. CASE Copies[k].dst # d
    BY <2>2, <1>1, <1>4, InBlockFacts DEF IInv, DeliveredSound
  <2> QED
    BY <2>1, <2>2
<1>9. OthersKept'
  <2>1. i \in DOMAIN Copies
    BY <1>1, InBlockFacts
  <2> QED
    BY <2>1, <1>1, <1>2, <1>4, InBlockFacts DEF IInv, OthersKept
<1> QED
  BY <1>6, <1>7, <1>8, <1>9 DEF IInv

\* Saving a source in a fresh register changes no register that exists.
LEMMA BreakCycleStep ==
  ASSUME IInv, NEW i \in 1 .. MaxCopies, BreakCycle(i)
  PROVE  IInv'
<1>1. /\ label # NoLabel /\ i \in DOMAIN remaining /\ remaining[i].kind = "VReg"
      /\ label' = label /\ next_vreg' = next_vreg + 1 /\ todo' = todo
      /\ copies_per_block' = copies_per_block
      /\ env' = [v \in 0 .. next_vreg |->
                   IF v = next_vreg THEN ValueOf(remaining[i]) ELSE env[v]]
      /\ remaining' = [j \in DOMAIN remaining |->
                         IF remaining[j] = remaining[i]
                           THEN VReg(next_vreg) ELSE remaining[j]]
      /\ blocks' = [blocks EXCEPT ![label] =
                      Append(@, [dst |-> next_vreg, src |-> remaining[i]])]
  BY DEF BreakCycle, FirstRegSource, Emit
<1>2. Copies' = Copies
  BY <1>1 DEF Copies
<1>3. /\ env \in [0 .. (next_vreg - 1) -> CopySrc]
      /\ ValueOf(remaining[i]) \in CopySrc
  BY <1>1, ValueType DEF IInv, TypeOK
<1>4. /\ env' \in [0 .. next_vreg -> CopySrc]
      /\ env'[next_vreg] = ValueOf(remaining[i])
      /\ \A v \in 0 .. (next_vreg - 1) : env'[v] = env[v]
  BY <1>1, <1>3, InBlockFacts
<1>5. /\ DOMAIN remaining' = DOMAIN remaining
      /\ \A j \in DOMAIN remaining :
           remaining'[j] = IF remaining[j] = remaining[i]
                             THEN VReg(next_vreg) ELSE remaining[j]
  BY <1>1
<1>6. TypeOK'
  <2>1. blocks' \in [Labels -> Seq(Move)]
    <3>1. [dst |-> next_vreg, src |-> remaining[i]] \in Move
      BY <1>1, InBlockFacts DEF Move
    <3> QED
      BY <3>1, <1>1, InBlockFacts DEF IInv, TypeOK
  <2>2. next_vreg + 1 \in Nat /\ next_vreg + 1 >= VRegs /\ (next_vreg + 1) - 1 = next_vreg
    BY <1>1, InBlockFacts, VRegsAssumption
  <2>3. \A j \in DOMAIN remaining : remaining'[j] \in CopySrc
    BY <1>1, <1>5, InBlockFacts, InputSrcFacts
  <2> QED
    BY <2>1, <2>2, <2>3, <1>1, <1>2, <1>4, <1>5 DEF IInv, TypeOK
<1>7. PendingSound'
  <2> SUFFICES ASSUME NEW j \in DOMAIN remaining
               PROVE  Allocated(remaining[j])' /\ ValueOf(remaining[j])' = Copies[j].src
    BY <1>2, <1>5 DEF PendingSound
  <2>1. ValueOf(remaining[j]) = Copies[j].src
    BY <1>1 DEF IInv, PendingSound
  <2>2. next_vreg \in Nat
    BY <1>1, InBlockFacts
  <2>3. CASE remaining[j] = remaining[i]
    <3>1. remaining'[j] = VReg(next_vreg)
      BY <2>3, <1>5
    <3>2. VReg(next_vreg).kind = "VReg" /\ VReg(next_vreg).n = next_vreg
      BY DEF VReg
    <3>3. Allocated(remaining[j])'
      BY <3>1, <3>2, <2>2, <1>1 DEF Allocated
    <3>4. ValueOf(remaining[j])' = env'[next_vreg]
      BY <3>1, <3>2 DEF ValueOf
    <3> QED
      BY <3>3, <3>4, <2>1, <2>3, <1>4
  <2>4. CASE remaining[j] # remaining[i]
    <3>1. remaining'[j] = remaining[j]
      BY <2>4, <1>5
    <3>2. remaining[j].kind = "VReg" => remaining[j].n \in 0 .. (next_vreg - 1)
      BY <1>1, InBlockFacts
    <3>3. Allocated(remaining[j])'
      BY <3>1, <3>2, <2>2, <1>1 DEF Allocated
    <3>4. ValueOf(remaining[j])' = ValueOf(remaining[j])
      BY <3>1, <3>2, <1>4 DEF ValueOf
    <3> QED
      BY <3>3, <3>4, <2>1
  <2> QED
    BY <2>3, <2>4
<1>8. DeliveredSound'
  BY <1>1, <1>2, <1>4, <1>5, InBlockFacts DEF IInv, DeliveredSound
<1>9. OthersKept'
  BY <1>1, <1>2, <1>4, InBlockFacts, VRegsAssumption DEF IInv, OthersKept
<1> QED
  BY <1>6, <1>7, <1>8, <1>9 DEF IInv

\* Every step of the specification preserves the inductive invariant.
LEMMA NextIInv == IInv /\ [Next]_vars => IInv'
<1> SUFFICES ASSUME IInv, [Next]_vars PROVE IInv'
  OBVIOUS
<1>1. ASSUME NEW l \in Labels, StartBlock(l) PROVE IInv'
  BY <1>1, StartBlockStep
<1>2. ASSUME NEW i \in 1 .. MaxCopies, EmitReady(i) PROVE IInv'
  BY <1>2, EmitReadyStep
<1>3. ASSUME NEW i \in 1 .. MaxCopies, BreakCycle(i) PROVE IInv'
  BY <1>3, BreakCycleStep
<1>4. CASE FinishBlock
  BY <1>4 DEF FinishBlock, IInv, TypeOK, Copies
<1>5. CASE Terminated \/ UNCHANGED vars
  <2>1. UNCHANGED vars
    BY <1>5 DEF Terminated
  <2> QED
    BY <2>1 DEF vars, IInv, TypeOK, Copies, PendingSound, DeliveredSound,
                OthersKept, Allocated, ValueOf
<1> QED
  BY <1>1, <1>2, <1>3, <1>4, <1>5 DEF Next

\* The inductive invariant gives the semantics once no copy is pending.
LEMMA IInvSemantics == IInv => ParallelSemantics
<1> SUFFICES ASSUME IInv, label # NoLabel, DOMAIN remaining = {},
                    NEW v \in 0 .. (VRegs - 1)
             PROVE  IF \E i \in DOMAIN Copies : Copies[i].dst = v
                      THEN \A i \in DOMAIN Copies :
                             Copies[i].dst = v => env[v] = Copies[i].src
                      ELSE env[v] = VReg(v)
  BY DEF ParallelSemantics
<1> QED
  BY DEF IInv, DeliveredSound, OthersKept

\* The variables of phi lowering keep their types.
THEOREM PhiTypeCorrect == Spec => []TypeOK
<1>1. IInv => TypeOK
  BY DEF IInv
<1> QED
  BY <1>1, InitIInv, NextIInv, PTL DEF Spec

\* serialize_parallel_copies is correct for any number of copies, registers
\* and blocks: the emitted moves compute the parallel copy.
THEOREM PhiParallelSemantics == Spec => []ParallelSemantics
BY InitIInv, NextIInv, IInvSemantics, PTL DEF Spec

-----------------------------------------------------------------------------
\* Temporaries: every register the blocks' moves write is below the counter,
\* so the next temporary is new to all of them.
BelowCounter ==
  \A l \in Labels : \A k \in DOMAIN blocks[l] : blocks[l][k].dst < next_vreg

TInv == BelowCounter /\ TempsUnshared

\* What a block's moves write after one more move is appended.
LEMMA TempsAppend ==
  ASSUME IInv, label # NoLabel, label' = label,
         NEW d \in Nat, NEW s \in CopySrc, Emit(d, s)
  PROVE  /\ \A l \in Labels : l # label => blocks'[l] = blocks[l]
         /\ TempsOf(label)' = TempsOf(label) \cup ({d} \ 0 .. (VRegs - 1))
         /\ \A k \in DOMAIN blocks'[label] :
              \/ blocks'[label][k].dst = d
              \/ k \in DOMAIN blocks[label] /\ blocks'[label][k] = blocks[label][k]
<1> DEFINE m == [dst |-> d, src |-> s]
           b == blocks[label]
<1>1. label \in Labels /\ blocks \in [Labels -> Seq(Move)] /\ m \in Move
  BY InBlockFacts DEF IInv, TypeOK, Move
<1>2. b \in Seq(Move) /\ blocks'[label] = Append(b, m)
  BY <1>1 DEF Emit
<1>3. \A l \in Labels : l # label => blocks'[l] = blocks[l]
  BY <1>1 DEF Emit
<1>4. /\ DOMAIN b = 1 .. Len(b) /\ Len(b) \in Nat
      /\ DOMAIN Append(b, m) = 1 .. (Len(b) + 1)
      /\ Append(b, m)[Len(b) + 1] = m
      /\ \A k \in 1 .. Len(b) : Append(b, m)[k] = b[k]
  BY <1>1, <1>2
<1>5. m.dst = d
  OBVIOUS
<1> HIDE DEF b, m
<1>6. {Append(b, m)[k].dst : k \in DOMAIN Append(b, m)}
        = {b[k].dst : k \in DOMAIN b} \cup {d}
  <2>1. ASSUME NEW x \in {Append(b, m)[k].dst : k \in DOMAIN Append(b, m)}
        PROVE  x \in {b[k].dst : k \in DOMAIN b} \cup {d}
    <3>1. PICK k \in DOMAIN Append(b, m) : x = Append(b, m)[k].dst
      BY <2>1
    <3> QED
      BY <3>1, <1>4, <1>5
  <2>2. ASSUME NEW x \in {b[k].dst : k \in DOMAIN b} \cup {d}
        PROVE  x \in {Append(b, m)[k].dst : k \in DOMAIN Append(b, m)}
    <3>1. CASE x = d
      BY <3>1, <1>4, <1>5
    <3>2. CASE x \in {b[k].dst : k \in DOMAIN b}
      <4>1. PICK k \in DOMAIN b : x = b[k].dst
        BY <3>2
      <4> QED
        BY <4>1, <1>4
    <3> QED
      BY <2>2, <3>1, <3>2
  <2> QED
    BY <2>1, <2>2
<1>7. TempsOf(label)' = {Append(b, m)[k].dst : k \in DOMAIN Append(b, m)} \ 0 .. (VRegs - 1)
  <2>1. (blocks[label])' = Append(b, m)
    BY <1>2
  <2> QED
    BY <2>1 DEF TempsOf
<1>8. TempsOf(label) = {b[k].dst : k \in DOMAIN b} \ 0 .. (VRegs - 1)
  BY DEF TempsOf, b
<1>9. TempsOf(label)' = TempsOf(label) \cup ({d} \ 0 .. (VRegs - 1))
  BY <1>6, <1>7, <1>8
<1>10. \A k \in DOMAIN blocks'[label] :
         \/ blocks'[label][k].dst = d
         \/ k \in DOMAIN blocks[label] /\ blocks'[label][k] = blocks[label][k]
  BY <1>2, <1>4, <1>5 DEF b
<1> QED
  BY <1>3, <1>9, <1>10

\* Every step keeps the blocks' temporaries below the counter and apart.
LEMMA NextTInv == IInv /\ TInv /\ [Next]_vars => TInv'
<1> SUFFICES ASSUME IInv, TInv, [Next]_vars PROVE TInv'
  OBVIOUS
<1> USE DEF TInv
<1>1. ASSUME blocks' = blocks, next_vreg' = next_vreg PROVE TInv'
  BY <1>1 DEF BelowCounter, TempsUnshared, TempsOf
<1>2. ASSUME NEW i \in 1 .. MaxCopies, EmitReady(i) PROVE TInv'
  <2> DEFINE d == Copies[i].dst
  <2>1. /\ label # NoLabel /\ i \in DOMAIN remaining /\ label' = label
        /\ next_vreg' = next_vreg /\ Emit(d, remaining[i])
    BY <1>2 DEF EmitReady, FirstReady
  <2>2. /\ d \in 0 .. (VRegs - 1) /\ d \in Nat /\ d < next_vreg
        /\ remaining[i] \in CopySrc /\ label \in Labels
    BY <2>1, InBlockFacts, VRegsAssumption
  <2>3. {d} \ 0 .. (VRegs - 1) = {}
    BY <2>2
  <2>4. /\ \A l \in Labels : l # label => blocks'[l] = blocks[l]
        /\ TempsOf(label)' = TempsOf(label)
        /\ \A k \in DOMAIN blocks'[label] :
             \/ blocks'[label][k].dst = d
             \/ k \in DOMAIN blocks[label] /\ blocks'[label][k] = blocks[label][k]
    BY <2>1, <2>2, <2>3, TempsAppend
  <2>5. BelowCounter'
    BY <2>1, <2>2, <2>4 DEF BelowCounter
  <2>6. \A l \in Labels : TempsOf(l)' = TempsOf(l)
    BY <2>1, <2>4 DEF TempsOf
  <2> QED
    BY <2>5, <2>6 DEF TempsUnshared
<1>3. ASSUME NEW i \in 1 .. MaxCopies, BreakCycle(i) PROVE TInv'
  <2>1. /\ label # NoLabel /\ i \in DOMAIN remaining /\ label' = label
        /\ next_vreg' = next_vreg + 1 /\ Emit(next_vreg, remaining[i])
    BY <1>3 DEF BreakCycle, FirstRegSource
  <2>2. next_vreg \in Nat /\ remaining[i] \in CopySrc /\ label \in Labels
    BY <2>1, InBlockFacts
  <2>3. /\ \A l \in Labels : l # label => blocks'[l] = blocks[l]
        /\ TempsOf(label)' \subseteq TempsOf(label) \cup {next_vreg}
        /\ \A k \in DOMAIN blocks'[label] :
             \/ blocks'[label][k].dst = next_vreg
             \/ k \in DOMAIN blocks[label] /\ blocks'[label][k] = blocks[label][k]
    BY <2>1, <2>2, TempsAppend
  <2>4. blocks \in [Labels -> Seq(Move)]
    BY DEF IInv, TypeOK
  <2>5. \A l \in Labels : \A k \in DOMAIN blocks[l] :
          blocks[l][k].dst \in Nat /\ blocks[l][k].dst < next_vreg
    <3> SUFFICES ASSUME NEW l \in Labels, NEW k \in DOMAIN blocks[l]
                 PROVE  blocks[l][k].dst \in Nat /\ blocks[l][k].dst < next_vreg
      OBVIOUS
    <3>1. blocks[l] \in Seq(Move)
      BY <2>4
    <3>2. blocks[l][k] \in Move
      BY <3>1
    <3> QED
      BY <3>2 DEF BelowCounter, Move
  <2>6. BelowCounter'
    BY <2>1, <2>2, <2>3, <2>5 DEF BelowCounter
  <2>7. \A l \in Labels : next_vreg \notin TempsOf(l)
    BY <2>2, <2>5 DEF TempsOf
  <2>8. /\ \A l \in Labels : l # label => TempsOf(l)' = TempsOf(l)
        /\ \A l \in Labels : l = label => TempsOf(l)' = TempsOf(label)'
    BY <2>1, <2>3 DEF TempsOf
  <2>9. ASSUME NEW l \in Labels, NEW m \in Labels, l # m
        PROVE  TempsOf(l)' \cap TempsOf(m)' = {}
    <3>1. TempsOf(l) \cap TempsOf(m) = {}
      BY <2>9 DEF TempsUnshared
    <3>2. CASE l = label
      BY <3>1, <3>2, <2>3, <2>7, <2>8, <2>9
    <3>3. CASE m = label
      BY <3>1, <3>3, <2>3, <2>7, <2>8, <2>9
    <3>4. CASE l # label /\ m # label
      BY <3>1, <3>4, <2>8
    <3> QED
      BY <3>2, <3>3, <3>4
  <2> QED
    BY <2>6, <2>9 DEF TempsUnshared
<1>4. CASE (\E l \in Labels : StartBlock(l)) \/ FinishBlock \/ Terminated \/ UNCHANGED vars
  BY <1>1, <1>4 DEF StartBlock, FinishBlock, Terminated, vars
<1> QED
  BY <1>2, <1>3, <1>4 DEF Next

\* Whatever order the HashMap yields the blocks in, no two of them share a
\* temporary.
THEOREM PhiTempsUnshared == Spec => []TempsUnshared
<1>1. Init => TInv
  BY DEF Init, TInv, BelowCounter, TempsUnshared, TempsOf
<1>2. TInv => TempsUnshared
  BY DEF TInv
<1> QED
  BY <1>1, <1>2, InitIInv, NextIInv, NextTInv, PTL DEF Spec
-----------------------------------------------------------------------------
(***************************************************************************)
(* One temporary for each register cycle.  When no copy is ready, every    *)
(* destination that is pending is the source of a pending copy.  There are *)
(* no more sources than destinations, so the sources permute them: what is *)
(* pending is a union of cycles, and the copy that is broken up lies on    *)
(* one that has not been broken before.                                    *)
(***************************************************************************)

\* A function on a finite set that reaches all of the set permutes it.
LEMMA CoverIsPermutation ==
  ASSUME NEW D, IsFiniteSet(D), NEW f, DOMAIN f = D, f = [v \in D |-> f[v]], D \subseteq {f[v] : v \in D}
  PROVE  /\ \A v \in D : f[v] \in D
         /\ \A v, w \in D : f[v] = f[w] => v = w
<1> DEFINE R == {f[v] : v \in D}
<1>1. f \in [D -> R] /\ \A t \in R : \E v \in D : f[v] = t
  OBVIOUS
<1> HIDE DEF R
<1>2. f \in Surjection(D, R)
  BY <1>1 DEF Surjection
<1>3. /\ IsFiniteSet(R) /\ Cardinality(R) <= Cardinality(D)
      /\ Cardinality(R) = Cardinality(D) <=> f \in Injection(D, R)
  BY <1>2, FS_Surjection
<1>4. D \in SUBSET R
  BY DEF R
<1>5. Cardinality(D) <= Cardinality(R) /\ (Cardinality(R) = Cardinality(D) => R = D)
  BY <1>3, <1>4, FS_Subset
<1>6. Cardinality(D) \in Nat /\ Cardinality(R) \in Nat
  BY <1>3, FS_CardinalityType
<1>7. Cardinality(R) = Cardinality(D)
  BY <1>3, <1>5, <1>6
<1>8. R = D /\ f \in Injection(D, R)
  BY <1>3, <1>5, <1>7
<1> QED
  BY <1>1, <1>8 DEF Injection, IsInjective

\* E is a union of cycles of f.
Stable(f, E) == \A v \in E : f[v] \in E /\ \E d \in E : f[d] = v

Permutation(f, D) ==
  /\ \A v \in D : f[v] \in D
  /\ \A v, w \in D : f[v] = f[w] => v = w
  /\ \A v \in D : \E d \in D : f[d] = v

\* C is the cycle of f that s is on.
Orbit(f, D, s, C) ==
  /\ C \in SUBSET D /\ s \in C /\ Stable(f, C)
  /\ \A E \in SUBSET D : Stable(f, E) /\ s \in E => C \subseteq E
  /\ \A E \in SUBSET C : E # {} /\ Stable(f, E) => E = C

\* Every element of a permuted set is on a cycle.
LEMMA OrbitExists ==
  ASSUME NEW D, NEW f, NEW s \in D, Permutation(f, D)
  PROVE  \E C : Orbit(f, D, s, C)
<1>0. /\ \A v \in D : f[v] \in D
      /\ \A v, w \in D : f[v] = f[w] => v = w
      /\ \A v \in D : \E d \in D : f[d] = v
  BY DEF Permutation
<1> DEFINE C == {v \in D : \A E \in SUBSET D : Stable(f, E) /\ s \in E => v \in E}
<1>1. C \in SUBSET D /\ s \in C /\ \A E \in SUBSET D : Stable(f, E) /\ s \in E => C \subseteq E
  OBVIOUS
<1>2. ASSUME NEW v \in C PROVE f[v] \in C
  <2>1. \A E \in SUBSET D : Stable(f, E) /\ s \in E => f[v] \in E
    BY <1>2 DEF Stable
  <2> QED
    BY <1>0, <2>1
<1>3. ASSUME NEW v \in C PROVE \E d \in C : f[d] = v
  <2>1. PICK d \in D : f[d] = v
    BY <1>0
  <2>2. ASSUME NEW E \in SUBSET D, Stable(f, E), s \in E PROVE d \in E
    <3>1. v \in E
      BY <1>3, <2>2
    <3>2. PICK u \in E : f[u] = v
      BY <2>2, <3>1 DEF Stable
    <3> QED
      BY <1>0, <2>1, <3>2
  <2> QED
    BY <2>1, <2>2
<1>4. Stable(f, C)
  BY <1>2, <1>3 DEF Stable
<1> HIDE DEF C
<1>5. ASSUME NEW E \in SUBSET C, E # {}, Stable(f, E) PROVE E = C
  <2>1. CASE s \in E
    BY <1>1, <1>5, <2>1
  <2>2. CASE s \notin E
    <3> DEFINE F == C \ E
    <3>1. ASSUME NEW v \in F PROVE f[v] \in F
      <4>1. f[v] \in C
        BY <1>2
      <4>2. f[v] \notin E
        <5> SUFFICES ASSUME f[v] \in E PROVE FALSE
          OBVIOUS
        <5>1. PICK d \in E : f[d] = f[v]
          BY <1>5 DEF Stable
        <5> QED
          BY <1>0, <1>1, <5>1
      <4> QED
        BY <4>1, <4>2
    <3>2. ASSUME NEW v \in F PROVE \E d \in F : f[d] = v
      <4>1. PICK d \in C : f[d] = v
        BY <1>3
      <4>2. d \notin E
        BY <1>5, <4>1 DEF Stable
      <4> QED
        BY <4>1, <4>2
    <3>3. Stable(f, F) /\ s \in F /\ F \in SUBSET D
      BY <1>1, <2>2, <3>1, <3>2 DEF Stable
    <3> QED
      BY <1>1, <1>5, <3>3
  <2> QED
    BY <2>1, <2>2
<1> QED
  BY <1>1, <1>4, <1>5 DEF Orbit

\* Register d is copied from register s.
CopiedIn(list, d, s) == \E i \in DOMAIN list : list[i].dst = d /\ list[i].src = VReg(s)

Closed(list, C) ==
  \A v \in C : (\E s \in C \ {v} : CopiedIn(list, v, s)) /\ (\E d \in C \ {v} : CopiedIn(list, d, v))

\* A cycle is a least nonempty set of registers closed under the copies.
LEMMA CyclesFacts ==
  ASSUME NEW list
  PROVE  \A C : C \in Cycles(list) <=>
           /\ C \in SUBSET (0 .. (VRegs - 1)) /\ C # {} /\ Closed(list, C)
           /\ \A E \in SUBSET C : E # {} /\ Closed(list, E) => E = C
<1> DEFINE Regs == 0 .. (VRegs - 1)
           Sets == {C \in SUBSET Regs : C # {} /\ Closed(list, C)}
<1>1. Cycles(list) = {C \in Sets : \A E \in Sets : E \subseteq C => E = C}
  BY Zenon DEF Cycles, Closed, CopiedIn
<1> HIDE DEF Regs
<1>2. ASSUME NEW C
      PROVE  C \in Cycles(list) <=>
               /\ C \in SUBSET Regs /\ C # {} /\ Closed(list, C)
               /\ \A E \in SUBSET C : E # {} /\ Closed(list, E) => E = C
  BY <1>1
<1> QED
  BY <1>2 DEF Regs

\* The pending copies are copies of the list that are not self copies, their
\* sources as in the list or temporaries, and depend on the dst only.
Sources(list, rem) ==
  /\ DOMAIN rem \subseteq DOMAIN list
  /\ \A i \in DOMAIN rem : /\ list[i].src # VReg(list[i].dst)
                           /\ rem[i] \in CopySrc
                           /\ rem[i] = list[i].src \/ \E t \in Nat : t >= VRegs /\ rem[i] = VReg(t)
  /\ \A i, j \in DOMAIN rem : list[i].dst = list[j].dst => rem[i] = rem[j]

\* All copies into cycle C are pending as they were.
Intact(list, rem, C) ==
  \A i \in DOMAIN list : list[i].dst \in C => i \in DOMAIN rem /\ rem[i] = list[i].src

\* Some register of C is no longer copied from a register of the function.
Opened(list, rem, C) ==
  \E v \in C : \A i \in DOMAIN rem : list[i].dst = v => \A s \in 0 .. (VRegs - 1) : rem[i] # VReg(s)

PendingDsts(list, rem) == {list[i].dst : i \in DOMAIN rem}

\* The sources are those of the list, and f, which permutes D, gives them.
Permutes(list, rem, D, f) ==
  /\ D \subseteq 0 .. (VRegs - 1)
  /\ \A i \in DOMAIN rem : rem[i] = VReg(f[list[i].dst]) /\ rem[i] = list[i].src
  /\ \A v \in D : f[v] \in D /\ f[v] # v
  /\ \A v, w \in D : f[v] = f[w] => v = w
  /\ \A v \in D : \E d \in D : f[d] = v

\* When no copy is ready, the pending sources permute the pending destinations.
LEMMA StuckPermutes ==
  ASSUME NEW list \in CopyLists, NEW rem, Sources(list, rem),
         \A i \in DOMAIN rem : \E j \in DOMAIN rem : rem[j] = VReg(list[i].dst)
  PROVE  \E f : Permutes(list, rem, PendingDsts(list, rem), f)
<1> DEFINE D == {list[i].dst : i \in DOMAIN rem}
           At(v) == CHOOSE i \in DOMAIN rem : list[i].dst = v
           RegOf(x) == IF x.kind = "VReg" THEN x.n ELSE -1
           f == [v \in D |-> RegOf(rem[At(v)])]
<1>1. \A i \in DOMAIN list : list[i].dst \in 0 .. (VRegs - 1) /\ list[i].src \in InputSrc
  BY CopyListFacts
<1>2. D \subseteq 0 .. (VRegs - 1) /\ IsFiniteSet(D)
  <2>1. D \subseteq 0 .. (VRegs - 1)
    BY <1>1 DEF Sources
  <2>2. IsFiniteSet(0 .. (VRegs - 1))
    BY VRegsAssumption, FS_Interval
  <2> HIDE DEF D
  <2> QED
    BY <2>1, <2>2, FS_Subset
<1>3. \A v \in D : At(v) \in DOMAIN rem /\ list[At(v)].dst = v
  OBVIOUS
<1> HIDE DEF At
<1>4. \A i \in DOMAIN rem : f[list[i].dst] = RegOf(rem[i])
  <2> SUFFICES ASSUME NEW i \in DOMAIN rem PROVE f[list[i].dst] = RegOf(rem[i])
    OBVIOUS
  <2>1. list[i].dst \in D
    OBVIOUS
  <2>2. rem[At(list[i].dst)] = rem[i]
    BY <1>3, <2>1 DEF Sources
  <2> QED
    BY <2>1, <2>2
<1>5. D \subseteq {f[v] : v \in D}
  <2> SUFFICES ASSUME NEW i \in DOMAIN rem PROVE \E v \in D : f[v] = list[i].dst
    OBVIOUS
  <2>1. PICK j \in DOMAIN rem : rem[j] = VReg(list[i].dst)
    OBVIOUS
  <2>2. RegOf(rem[j]) = list[i].dst
    BY <2>1 DEF VReg
  <2> QED
    BY <1>4, <2>2
<1>6. DOMAIN f = D /\ f = [v \in D |-> f[v]]
  OBVIOUS
<1> HIDE DEF D, f
<1>7. (\A v \in D : f[v] \in D) /\ (\A v, w \in D : f[v] = f[w] => v = w)
  BY <1>2, <1>5, <1>6, CoverIsPermutation
<1>8. ASSUME NEW i \in DOMAIN rem
      PROVE  rem[i] = VReg(f[list[i].dst]) /\ rem[i] = list[i].src /\ f[list[i].dst] # list[i].dst
  <2>1. list[i].dst \in D /\ i \in DOMAIN list /\ list[i].src # VReg(list[i].dst)
    BY DEF D, Sources
  <2>2. f[list[i].dst] \in 0 .. (VRegs - 1)
    BY <1>2, <1>7, <2>1
  <2>3. RegOf(rem[i]) \in 0 .. (VRegs - 1) /\ f[list[i].dst] = RegOf(rem[i])
    BY <1>4, <2>2
  <2>4. rem[i].kind = "VReg" /\ rem[i].n \in 0 .. (VRegs - 1) /\ RegOf(rem[i]) = rem[i].n
    BY <2>3, VRegsAssumption
  <2>5. rem[i] = VReg(rem[i].n)
    BY <2>4, InputSrcFacts DEF Sources
  <2>6. ~ \E t \in Nat : t >= VRegs /\ rem[i] = VReg(t)
    BY <2>4, VRegsAssumption DEF VReg
  <2>7. rem[i] = list[i].src
    BY <2>6 DEF Sources
  <2> QED
    BY <2>1, <2>3, <2>4, <2>5, <2>7
<1>9. \A v \in D : f[v] # v
  BY <1>8 DEF D
<1>10. \A v \in D : \E d \in D : f[d] = v
  BY <1>5
<1>11. Permutes(list, rem, D, f)
  BY <1>2, <1>7, <1>8, <1>9, <1>10 DEF Permutes
<1>12. D = PendingDsts(list, rem)
  BY DEF D, PendingDsts
<1> QED
  BY <1>11, <1>12

\* The source s of a stuck copy is on the cycle C, which has not been opened
\* and opens when s is replaced; no other intact cycle has s on it.
OnCycle(list, rem, s, C) ==
  /\ C \in Cycles(list) /\ s \in C
  /\ ~Opened(list, rem, C)
  /\ \A E \in Cycles(list) : Intact(list, rem, E) /\ s \in E => E = C
  /\ \E v \in C : \A i \in DOMAIN rem : list[i].dst = v => rem[i] = VReg(s)

\* When no copy is ready, the source of every pending one is on a cycle of
\* register copies.
LEMMA StuckOnCycle ==
  ASSUME NEW list \in CopyLists, NEW rem, Sources(list, rem),
         \A i \in DOMAIN rem : \E j \in DOMAIN rem : rem[j] = VReg(list[i].dst),
         NEW k \in DOMAIN rem
  PROVE  \E C : rem[k].n \in C /\ rem[k] = VReg(rem[k].n) /\ OnCycle(list, rem, rem[k].n, C)
<1> DEFINE D == PendingDsts(list, rem)
<1>1. PICK f : Permutes(list, rem, D, f)
  BY StuckPermutes
<1>2. /\ D \subseteq 0 .. (VRegs - 1)
      /\ \A i \in DOMAIN rem : rem[i] = VReg(f[list[i].dst]) /\ rem[i] = list[i].src
      /\ \A v \in D : f[v] \in D /\ f[v] # v
      /\ \A v, w \in D : f[v] = f[w] => v = w
      /\ \A v \in D : \E d \in D : f[d] = v
  BY <1>1, Zenon DEF Permutes
<1>3. /\ DOMAIN rem \subseteq DOMAIN list
      /\ \A i \in DOMAIN rem : list[i].dst \in D
      /\ \A v \in D : \E i \in DOMAIN rem : list[i].dst = v
      /\ \A i, j \in DOMAIN list : list[i].dst = list[j].dst => list[i].src = list[j].src
  BY CopyListFacts DEF PendingDsts, Sources, WellFormed
<1> HIDE DEF D
<1>4. \A v, w : VReg(v) = VReg(w) => v = w
  BY DEF VReg
<1>5. ASSUME NEW v \in D, NEW w PROVE CopiedIn(list, v, w) <=> w = f[v]
  <2>1. PICK i \in DOMAIN rem : list[i].dst = v
    BY <1>3
  <2>2. list[i].src = VReg(f[v]) /\ i \in DOMAIN list
    BY <1>2, <1>3, <2>1
  <2>3. w = f[v] => CopiedIn(list, v, w)
    BY <2>1, <2>2 DEF CopiedIn
  <2>4. CopiedIn(list, v, w) => w = f[v]
    BY <1>3, <1>4, <2>1, <2>2 DEF CopiedIn
  <2> QED
    BY <2>3, <2>4
<1>6. ASSUME NEW E \in SUBSET D PROVE Closed(list, E) <=> Stable(f, E)
  <2>1. Closed(list, E) => Stable(f, E)
    BY <1>5, <1>6 DEF Closed, Stable
  <2>2. Stable(f, E) => Closed(list, E)
    <3> SUFFICES ASSUME Stable(f, E), NEW v \in E
                 PROVE  (\E w \in E \ {v} : CopiedIn(list, v, w)) /\ (\E d \in E \ {v} : CopiedIn(list, d, v))
      BY DEF Closed
    <3>1. f[v] \in E \ {v} /\ CopiedIn(list, v, f[v])
      BY <1>2, <1>5, <1>6 DEF Stable
    <3>2. PICK d \in E : f[d] = v
      BY DEF Stable
    <3>3. d \in E \ {v} /\ CopiedIn(list, d, v)
      BY <1>2, <1>5, <1>6, <3>2
    <3> QED
      BY <3>1, <3>3
  <2> QED
    BY <2>1, <2>2
<1> DEFINE s == f[list[k].dst]
<1>7. rem[k] = VReg(s) /\ s \in D /\ rem[k].n = s
  <2>1. rem[k] = VReg(s) /\ s \in D
    BY <1>2, <1>3
  <2> QED
    BY <2>1 DEF VReg
<1> HIDE DEF s
<1>8. PICK C \in SUBSET D :
        /\ s \in C /\ Stable(f, C)
        /\ \A E \in SUBSET D : Stable(f, E) /\ s \in E => C \subseteq E
        /\ \A E \in SUBSET C : E # {} /\ Stable(f, E) => E = C
  <2>1. Permutation(f, D)
    BY <1>2 DEF Permutation
  <2>2. PICK C : Orbit(f, D, s, C)
    BY <1>7, <2>1, OrbitExists
  <2> QED
    BY <2>2 DEF Orbit
<1>9. C \in Cycles(list)
  <2>1. C \in SUBSET (0 .. (VRegs - 1)) /\ C # {} /\ Closed(list, C)
    BY <1>2, <1>6, <1>8
  <2>2. \A E \in SUBSET C : E # {} /\ Closed(list, E) => E = C
    BY <1>6, <1>8
  <2> QED
    BY <2>1, <2>2, CyclesFacts
<1>10. ~Opened(list, rem, C)
  <2> SUFFICES ASSUME NEW v \in C
               PROVE  \E i \in DOMAIN rem : list[i].dst = v /\ \E w \in 0 .. (VRegs - 1) : rem[i] = VReg(w)
    BY DEF Opened
  <2>1. PICK i \in DOMAIN rem : list[i].dst = v
    BY <1>3
  <2>2. v \in D /\ rem[i] = VReg(f[v])
    BY <1>2, <2>1
  <2>3. f[v] \in 0 .. (VRegs - 1)
    BY <1>2, <2>2
  <2> QED
    BY <2>1, <2>2, <2>3
<1>11. ASSUME NEW E \in Cycles(list), Intact(list, rem, E), s \in E PROVE E = C
  <2>1. /\ E # {} /\ Closed(list, E)
        /\ \A F \in SUBSET E : F # {} /\ Closed(list, F) => F = E
    BY CyclesFacts
  <2>2. ASSUME NEW v \in E PROVE v \in D
    <3>1. PICK w \in E : CopiedIn(list, v, w)
      BY <2>1, <2>2 DEF Closed
    <3>2. PICK i \in DOMAIN list : list[i].dst = v
      BY <3>1 DEF CopiedIn
    <3>3. i \in DOMAIN rem
      BY <1>11, <2>2, <3>2 DEF Intact
    <3> QED
      BY <1>3, <3>2, <3>3
  <2>3. C \subseteq E
    BY <1>6, <1>8, <1>11, <2>1, <2>2
  <2>4. Closed(list, C)
    BY <1>6, <1>8
  <2> QED
    BY <1>8, <2>1, <2>3, <2>4
<1>12. \E v \in C : \A i \in DOMAIN rem : list[i].dst = v => rem[i] = VReg(s)
  <2>1. PICK v \in C : f[v] = s
    BY <1>8 DEF Stable
  <2> QED
    BY <1>2, <2>1
<1> QED
  BY <1>7, <1>8, <1>9, <1>10, <1>11, <1>12 DEF OnCycle

\* The cycles in broken have been opened, at the price of a temporary each, and
\* the others are intact.
Counted(list, rem, temps, broken) ==
  /\ broken \subseteq Cycles(list)
  /\ \A C \in Cycles(list) \ broken : Intact(list, rem, C)
  /\ \A C \in broken : Opened(list, rem, C)
  /\ IsFiniteSet(temps) /\ IsFiniteSet(broken) /\ Cardinality(temps) = Cardinality(broken)

\* Each register of a cycle is copied from another one, of the cycle.
LEMMA OnCycleCopied ==
  ASSUME NEW list \in CopyLists, NEW C \in Cycles(list), NEW i \in DOMAIN list, list[i].dst \in C
  PROVE  \E s \in C : s # list[i].dst /\ list[i].src = VReg(s)
<1>1. Closed(list, C)
  BY CyclesFacts
<1>2. PICK s \in C : s # list[i].dst /\ CopiedIn(list, list[i].dst, s)
  BY <1>1 DEF Closed
<1>3. PICK j \in DOMAIN list : list[j].dst = list[i].dst /\ list[j].src = VReg(s)
  BY <1>2 DEF CopiedIn
<1>4. list[i].src = list[j].src
  BY <1>3, CopyListFacts DEF WellFormed
<1> QED
  BY <1>2, <1>3, <1>4

\* When a block starts no cycle is open.
LEMMA CountStart ==
  ASSUME NEW list \in CopyLists, NEW rem, rem = [i \in NotSelfCopy(list) |-> list[i].src]
  PROVE  Sources(list, rem) /\ Counted(list, rem, {}, {})
<1>1. /\ DOMAIN rem = NotSelfCopy(list) /\ NotSelfCopy(list) \subseteq DOMAIN list
      /\ \A i \in NotSelfCopy(list) : rem[i] = list[i].src /\ list[i].src # VReg(list[i].dst)
      /\ \A i \in DOMAIN list : list[i].src # VReg(list[i].dst) => i \in NotSelfCopy(list)
  BY DEF NotSelfCopy
<1>2. /\ \A i \in DOMAIN list : list[i].src \in CopySrc
      /\ \A i, j \in DOMAIN list : list[i].dst = list[j].dst => list[i].src = list[j].src
  BY CopyListFacts, InputSrcFacts DEF WellFormed
<1>3. Sources(list, rem)
  BY <1>1, <1>2 DEF Sources
<1>4. ASSUME NEW C \in Cycles(list) PROVE Intact(list, rem, C)
  <2> SUFFICES ASSUME NEW i \in DOMAIN list, list[i].dst \in C
               PROVE  i \in DOMAIN rem /\ rem[i] = list[i].src
    BY DEF Intact
  <2>1. PICK s \in C : s # list[i].dst /\ list[i].src = VReg(s)
    BY OnCycleCopied
  <2>2. VReg(s) # VReg(list[i].dst)
    BY <2>1 DEF VReg
  <2> QED
    BY <1>1, <2>1, <2>2
<1> QED
  BY <1>3, <1>4, FS_EmptySet DEF Counted

\* A ready copy is on no intact cycle.
LEMMA CountEmit ==
  ASSUME NEW list \in CopyLists, NEW rem, Sources(list, rem), NEW temps, NEW broken,
         Counted(list, rem, temps, broken), NEW i \in DOMAIN rem,
         \A j \in DOMAIN rem : rem[j] # VReg(list[i].dst),
         NEW new, new = [j \in DOMAIN rem \ {i} |-> rem[j]]
  PROVE  Sources(list, new) /\ Counted(list, new, temps, broken)
<1>1. DOMAIN new = DOMAIN rem \ {i} /\ \A j \in DOMAIN new : new[j] = rem[j]
  OBVIOUS
<1>2. Sources(list, new)
  BY <1>1 DEF Sources
<1>3. ASSUME NEW C \in Cycles(list) \ broken PROVE Intact(list, new, C)
  <2>1. Intact(list, rem, C)
    BY DEF Counted
  <2>2. list[i].dst \notin C
    <3> SUFFICES ASSUME list[i].dst \in C PROVE FALSE
      OBVIOUS
    <3>1. Closed(list, C)
      BY CyclesFacts
    <3>2. PICK d \in C : CopiedIn(list, d, list[i].dst)
      BY <3>1 DEF Closed
    <3>3. PICK j \in DOMAIN list : list[j].dst = d /\ list[j].src = VReg(list[i].dst)
      BY <3>2 DEF CopiedIn
    <3>4. j \in DOMAIN rem /\ rem[j] = list[j].src
      BY <2>1, <3>2, <3>3 DEF Intact
    <3> QED
      BY <3>3, <3>4
  <2> QED
    BY <1>1, <2>1, <2>2 DEF Intact
<1>4. ASSUME NEW C \in broken PROVE Opened(list, new, C)
  <2>1. Opened(list, rem, C)
    BY DEF Counted
  <2> QED
    BY <1>1, <2>1 DEF Opened
<1> QED
  BY <1>2, <1>3, <1>4 DEF Counted

\* Every pending destination is a pending source.
Stuck(list, rem) ==
  \A j \in DOMAIN rem : \E k \in DOMAIN rem : rem[k] = VReg(list[j].dst)

\* The pending copies once the source of copy i is read from register t.
Renamed(rem, i, t) ==
  [j \in DOMAIN rem |-> IF rem[j] = rem[i] THEN VReg(t) ELSE rem[j]]

\* Breaking opens one more cycle, at the price of one more temporary.
LEMMA CountBreak ==
  ASSUME NEW list \in CopyLists, NEW rem, Sources(list, rem), NEW temps, NEW broken,
         Counted(list, rem, temps, broken), NEW i \in DOMAIN rem,
         Stuck(list, rem), NEW t \in Nat, t >= VRegs, t \notin temps,
         NEW new, new = Renamed(rem, i, t)
  PROVE  Sources(list, new) /\ \E wider : Counted(list, new, temps \cup {t}, wider)
<1> DEFINE s == rem[i].n
<1>1. PICK C : s \in C /\ rem[i] = VReg(s) /\ OnCycle(list, rem, s, C)
  BY StuckOnCycle DEF Stuck
<1> HIDE DEF s
<1>2. /\ C \in Cycles(list) /\ s \in C
      /\ ~Opened(list, rem, C)
      /\ \A E \in Cycles(list) : Intact(list, rem, E) /\ s \in E => E = C
      /\ \E v \in C : \A j \in DOMAIN rem : list[j].dst = v => rem[j] = VReg(s)
  BY <1>1 DEF OnCycle
<1>3. /\ DOMAIN new = DOMAIN rem
      /\ \A j \in DOMAIN rem : rem[j] = VReg(s) => new[j] = VReg(t)
      /\ \A j \in DOMAIN rem : rem[j] # VReg(s) => new[j] = rem[j]
  BY <1>1 DEF Renamed
<1>4. VReg(t) \in CopySrc /\ \A r \in 0 .. (VRegs - 1) : VReg(t) # VReg(r)
  BY InputSrcFacts, VRegsAssumption DEF VReg
<1>5. Sources(list, new)
  BY <1>3, <1>4 DEF Sources
<1>6. /\ broken \subseteq Cycles(list) /\ (\A E \in Cycles(list) \ broken : Intact(list, rem, E))
      /\ \A E \in broken : Opened(list, rem, E)
      /\ IsFiniteSet(temps) /\ IsFiniteSet(broken) /\ Cardinality(temps) = Cardinality(broken)
  BY DEF Counted
<1>7. C \notin broken
  BY <1>2, <1>6
<1>8. ASSUME NEW E \in Cycles(list) \ (broken \cup {C}) PROVE Intact(list, new, E)
  <2>1. Intact(list, rem, E) /\ s \notin E
    BY <1>2, <1>6
  <2>2. ASSUME NEW j \in DOMAIN list, list[j].dst \in E
        PROVE  j \in DOMAIN new /\ new[j] = list[j].src
    <3>1. j \in DOMAIN rem /\ rem[j] = list[j].src
      BY <2>1, <2>2 DEF Intact
    <3>2. PICK w \in E : list[j].src = VReg(w)
      BY <2>2, OnCycleCopied
    <3>3. VReg(w) # VReg(s)
      BY <2>1, <3>2 DEF VReg
    <3> QED
      BY <1>3, <3>1, <3>2, <3>3
  <2> QED
    BY <2>2 DEF Intact
<1>9. ASSUME NEW E \in broken PROVE Opened(list, new, E)
  <2>1. PICK v \in E : \A j \in DOMAIN rem : list[j].dst = v => \A r \in 0 .. (VRegs - 1) : rem[j] # VReg(r)
    BY <1>6 DEF Opened
  <2>2. ASSUME NEW j \in DOMAIN new, list[j].dst = v, NEW r \in 0 .. (VRegs - 1) PROVE new[j] # VReg(r)
    BY <1>3, <1>4, <2>1, <2>2
  <2> QED
    BY <2>1, <2>2 DEF Opened
<1>10. Opened(list, new, C)
  <2>1. PICK v \in C : \A j \in DOMAIN rem : list[j].dst = v => rem[j] = VReg(s)
    BY <1>2
  <2>2. \A j \in DOMAIN new : list[j].dst = v => new[j] = VReg(t)
    BY <1>3, <2>1
  <2> QED
    BY <1>4, <2>2 DEF Opened
<1>11. /\ IsFiniteSet(temps \cup {t}) /\ Cardinality(temps \cup {t}) = Cardinality(temps) + 1
       /\ IsFiniteSet(broken \cup {C}) /\ Cardinality(broken \cup {C}) = Cardinality(broken) + 1
  BY <1>6, <1>7, FS_AddElement
<1>12. Counted(list, new, temps \cup {t}, broken \cup {C})
  BY <1>2, <1>6, <1>8, <1>9, <1>10, <1>11 DEF Counted
<1> QED
  BY <1>5, <1>12

\* When nothing is pending every cycle has been opened.
LEMMA CountEnd ==
  ASSUME NEW list, NEW rem, NEW temps, NEW broken, Counted(list, rem, temps, broken), DOMAIN rem = {}
  PROVE  Cardinality(temps) = Cardinality(Cycles(list))
<1>1. ASSUME NEW C \in Cycles(list) \ broken PROVE FALSE
  <2>1. C # {} /\ Closed(list, C) /\ Intact(list, rem, C)
    BY CyclesFacts DEF Counted
  <2>2. PICK v \in C, s \in C : CopiedIn(list, v, s)
    BY <2>1 DEF Closed
  <2> QED
    BY <2>1, <2>2 DEF CopiedIn, Intact
<1>2. broken = Cycles(list)
  BY <1>1 DEF Counted
<1> QED
  BY <1>2 DEF Counted

\* The invariant, on top of IInv and TInv: finished blocks are as they should
\* be, blocks to come have no temporaries, and the cycles of the current block
\* have been counted.
CInv ==
  /\ OneTempPerCycle
  /\ \A l \in todo : l # label /\ TempsOf(l) = {}
  /\ label # NoLabel =>
       Sources(Copies, remaining) /\ \E broken : Counted(Copies, remaining, TempsOf(label), broken)

LEMMA InitCInv == Init => CInv
<1> SUFFICES ASSUME Init PROVE CInv
  OBVIOUS
<1>1. todo = Labels /\ label = NoLabel /\ \A l \in Labels : blocks[l] = <<>>
  BY DEF Init
<1>2. \A l \in todo : TempsOf(l) = {}
  BY <1>1 DEF TempsOf
<1> QED
  BY <1>1, <1>2, LabelsAssumption DEF CInv, OneTempPerCycle, NoLabel

\* A step that leaves the temporaries of the other blocks alone.
LEMMA OthersCounted ==
  ASSUME CInv, label' = label, todo' = todo, copies_per_block' = copies_per_block, todo \subseteq Labels,
         \A l \in Labels : l # label => TempsOf(l)' = TempsOf(l)
  PROVE  OneTempPerCycle' /\ \A l \in todo' : l # label' /\ TempsOf(l)' = {}
<1>1. ASSUME NEW l \in Labels \ (todo \cup {label})
      PROVE  Cardinality(TempsOf(l)') = Cardinality(Cycles(copies_per_block'[l]))
  <2>1. Cardinality(TempsOf(l)) = Cardinality(Cycles(copies_per_block[l]))
    BY DEF CInv, OneTempPerCycle
  <2>2. TempsOf(l)' = TempsOf(l)
    OBVIOUS
  <2> QED
    BY <2>1, <2>2
<1>2. OneTempPerCycle'
  BY <1>1 DEF OneTempPerCycle
<1>3. \A l \in todo' : l # label' /\ TempsOf(l)' = {}
  BY DEF CInv
<1> QED
  BY <1>2, <1>3

\* Every step keeps the count of temporaries and cycles.
LEMMA NextCInv == IInv /\ TInv /\ CInv /\ [Next]_vars => CInv'
<1> SUFFICES ASSUME IInv, TInv, CInv, [Next]_vars PROVE CInv'
  OBVIOUS
<1>0. /\ todo \subseteq Labels /\ NoLabel \notin Labels /\ label \in Labels \cup {NoLabel}
      /\ copies_per_block \in [Labels -> CopyLists] /\ next_vreg \in Nat /\ next_vreg >= VRegs
      /\ blocks \in [Labels -> Seq(Move)]
  BY LabelsAssumption DEF IInv, TypeOK, NoLabel
<1>1. ASSUME NEW l \in Labels, StartBlock(l) PROVE CInv'
  <2>1. /\ label = NoLabel /\ l \in todo /\ todo' = todo \ {l} /\ label' = l
        /\ remaining' = [i \in NotSelfCopy(copies_per_block[l]) |-> copies_per_block[l][i].src]
        /\ copies_per_block' = copies_per_block /\ blocks' = blocks
    BY <1>1 DEF StartBlock
  <2>2. \A m \in Labels : TempsOf(m)' = TempsOf(m)
    BY <2>1 DEF TempsOf
  <2>3. TempsOf(l) = {} /\ TempsOf(label)' = TempsOf(l)
    <3>1. TempsOf(l) = {}
      BY <2>1 DEF CInv
    <3>2. TempsOf(label)' = TempsOf(l)
      BY <2>1 DEF TempsOf
    <3> QED
      BY <3>1, <3>2
  <2>4. ASSUME NEW m \in Labels \ (todo' \cup {label'})
        PROVE  Cardinality(TempsOf(m)') = Cardinality(Cycles(copies_per_block'[m]))
    <3>1. m \in Labels \ (todo \cup {label})
      BY <1>0, <2>1, <2>4
    <3>2. Cardinality(TempsOf(m)) = Cardinality(Cycles(copies_per_block[m]))
      BY <3>1 DEF CInv, OneTempPerCycle
    <3>3. TempsOf(m)' = TempsOf(m)
      BY <2>2
    <3> QED
      BY <2>1, <3>2, <3>3
  <2>5. OneTempPerCycle'
    BY <2>4 DEF OneTempPerCycle
  <2>6. \A m \in todo' : m # label' /\ TempsOf(m)' = {}
    BY <1>0, <2>1, <2>2 DEF CInv
  <2>7. Sources(Copies, remaining)' /\ Counted(Copies', remaining', TempsOf(label)', {})
    <3>1. Copies' = copies_per_block[l] /\ copies_per_block[l] \in CopyLists
      BY <1>0, <2>1 DEF Copies
    <3>2. /\ Sources(copies_per_block[l], remaining')
          /\ Counted(copies_per_block[l], remaining', {}, {})
      BY <2>1, <3>1, CountStart
    <3> QED
      BY <2>3, <3>1, <3>2
  <2> QED
    BY <2>5, <2>6, <2>7 DEF CInv
<1>2. ASSUME label # NoLabel
      PROVE  /\ label \in Labels /\ Copies \in CopyLists
             /\ Sources(Copies, remaining)
             /\ \E broken : Counted(Copies, remaining, TempsOf(label), broken)
  BY <1>0, <1>2 DEF CInv, Copies
<1>3. ASSUME NEW i \in 1 .. MaxCopies, EmitReady(i) PROVE CInv'
  <2> DEFINE d == Copies[i].dst
  <2>1. /\ label # NoLabel /\ i \in DOMAIN remaining /\ label' = label /\ todo' = todo
        /\ copies_per_block' = copies_per_block /\ Emit(d, remaining[i])
        /\ remaining' = [j \in DOMAIN remaining \ {i} |-> remaining[j]]
        /\ \A j \in DOMAIN remaining : remaining[j] # VReg(d)
    BY <1>3 DEF EmitReady, FirstReady, Ready
  <2>2. d \in 0 .. (VRegs - 1) /\ d \in Nat /\ remaining[i] \in CopySrc
    BY <2>1, InBlockFacts, VRegsAssumption
  <2>3. {d} \ 0 .. (VRegs - 1) = {}
    BY <2>2
  <2>4. (\A l \in Labels : l # label => blocks'[l] = blocks[l]) /\ TempsOf(label)' = TempsOf(label)
    BY <2>1, <2>2, <2>3, TempsAppend
  <2>5. \A l \in Labels : l # label => TempsOf(l)' = TempsOf(l)
    BY <2>4 DEF TempsOf
  <2>6. PICK broken : Counted(Copies, remaining, TempsOf(label), broken)
    BY <1>2, <2>1
  <2>7. Copies' = Copies
    BY <2>1 DEF Copies
  <2>8. Sources(Copies, remaining') /\ Counted(Copies, remaining', TempsOf(label), broken)
    BY <1>2, <2>1, <2>6, CountEmit
  <2>9. OneTempPerCycle' /\ \A l \in todo' : l # label' /\ TempsOf(l)' = {}
    BY <1>0, <2>1, <2>5, OthersCounted
  <2> QED
    BY <2>4, <2>7, <2>8, <2>9 DEF CInv
<1>4. ASSUME NEW i \in 1 .. MaxCopies, BreakCycle(i) PROVE CInv'
  <2>1. /\ label # NoLabel /\ i \in DOMAIN remaining /\ label' = label /\ todo' = todo
        /\ copies_per_block' = copies_per_block /\ Emit(next_vreg, remaining[i])
        /\ remaining' = [j \in DOMAIN remaining |->
                           IF remaining[j] = remaining[i] THEN VReg(next_vreg) ELSE remaining[j]]
        /\ \A j \in DOMAIN remaining : ~Ready(j)
    BY <1>4 DEF BreakCycle, FirstRegSource
  <2>2. \A j \in DOMAIN remaining : \E k \in DOMAIN remaining : remaining[k] = VReg(Copies[j].dst)
    BY <2>1 DEF Ready
  <2>3. remaining[i] \in CopySrc
    BY <2>1, InBlockFacts
  <2>4. {next_vreg} \ 0 .. (VRegs - 1) = {next_vreg}
    BY <1>0, VRegsAssumption
  <2>5. /\ \A l \in Labels : l # label => blocks'[l] = blocks[l]
        /\ TempsOf(label)' = TempsOf(label) \cup {next_vreg}
    BY <1>0, <2>1, <2>3, <2>4, TempsAppend
  <2>6. \A l \in Labels : l # label => TempsOf(l)' = TempsOf(l)
    BY <2>5 DEF TempsOf
  <2>7. next_vreg \notin TempsOf(label)
    <3>1. \A k \in DOMAIN blocks[label] : blocks[label][k].dst < next_vreg
      BY <1>2, <2>1 DEF TInv, BelowCounter
    <3>2. \A k \in DOMAIN blocks[label] : blocks[label][k].dst # next_vreg
      BY <1>0, <3>1
    <3> QED
      BY <3>2 DEF TempsOf
  <2>8. PICK broken : Counted(Copies, remaining, TempsOf(label), broken)
    BY <1>2, <2>1
  <2>9. Copies' = Copies
    BY <2>1 DEF Copies
  <2>10. /\ Sources(Copies, remaining')
         /\ \E wider : Counted(Copies, remaining', TempsOf(label) \cup {next_vreg}, wider)
    <3> DEFINE t == next_vreg
               new == remaining'
    <3>1. /\ Copies \in CopyLists /\ Sources(Copies, remaining) /\ i \in DOMAIN remaining
          /\ t \in Nat /\ t >= VRegs /\ t \notin TempsOf(label)
          /\ new = [j \in DOMAIN remaining |-> IF remaining[j] = remaining[i] THEN VReg(t) ELSE remaining[j]]
      BY <1>0, <1>2, <2>1, <2>7
    <3> DEFINE list == Copies
               rem == remaining
               temps == TempsOf(label)
    <3>2. /\ list \in CopyLists /\ Sources(list, rem) /\ i \in DOMAIN rem
          /\ Counted(list, rem, temps, broken)
          /\ Stuck(list, rem) /\ t \in Nat /\ t >= VRegs /\ t \notin temps
          /\ new = Renamed(rem, i, t)
      BY <2>2, <2>8, <3>1 DEF Stuck, Renamed
    <3> HIDE DEF t, new, list, rem, temps
    <3>3. Sources(list, new) /\ \E wider : Counted(list, new, temps \cup {t}, wider)
      BY <3>2, CountBreak
    <3> QED
      BY <3>3 DEF t, new, list, temps
  <2>11. OneTempPerCycle' /\ \A l \in todo' : l # label' /\ TempsOf(l)' = {}
    BY <1>0, <2>1, <2>6, OthersCounted
  <2> QED
    BY <2>5, <2>9, <2>10, <2>11 DEF CInv
<1>5. CASE FinishBlock
  <2>1. /\ label # NoLabel /\ DOMAIN remaining = {} /\ label' = NoLabel
        /\ todo' = todo /\ blocks' = blocks /\ copies_per_block' = copies_per_block
    BY <1>5 DEF FinishBlock
  <2>2. \A m \in Labels : TempsOf(m)' = TempsOf(m)
    BY <2>1 DEF TempsOf
  <2>3. Cardinality(TempsOf(label)) = Cardinality(Cycles(copies_per_block[label]))
    <3>1. PICK broken : Counted(Copies, remaining, TempsOf(label), broken)
      BY <1>2, <2>1
    <3>2. Cardinality(TempsOf(label)) = Cardinality(Cycles(Copies))
      BY <2>1, <3>1, CountEnd
    <3> QED
      BY <3>2 DEF Copies
  <2>4. ASSUME NEW m \in Labels \ (todo' \cup {label'})
        PROVE  Cardinality(TempsOf(m)') = Cardinality(Cycles(copies_per_block'[m]))
    <3>1. Cardinality(TempsOf(m)) = Cardinality(Cycles(copies_per_block[m]))
      <4>1. CASE m = label
        BY <2>3, <4>1
      <4>2. CASE m # label
        BY <2>1, <2>4, <4>2 DEF CInv, OneTempPerCycle
      <4> QED
        BY <4>1, <4>2
    <3>2. TempsOf(m)' = TempsOf(m)
      BY <2>2
    <3> QED
      BY <2>1, <3>1, <3>2
  <2>5. OneTempPerCycle'
    BY <2>4 DEF OneTempPerCycle
  <2>6. \A m \in todo' : m # label' /\ TempsOf(m)' = {}
    BY <1>0, <2>1, <2>2 DEF CInv
  <2> QED
    BY <2>1, <2>5, <2>6 DEF CInv
<1>6. CASE Terminated \/ UNCHANGED vars
  <2>1. UNCHANGED <<label, todo, remaining, copies_per_block, blocks>>
    BY <1>6 DEF Terminated, vars
  <2>2. \A m \in Labels : TempsOf(m)' = TempsOf(m)
    BY <2>1 DEF TempsOf
  <2>3. OneTempPerCycle' /\ \A l \in todo' : l # label' /\ TempsOf(l)' = {}
    BY <1>0, <2>1, <2>2, OthersCounted
  <2>4. TempsOf(label)' = TempsOf(label) /\ Copies' = Copies
    BY <2>1 DEF TempsOf, Copies
  <2> QED
    BY <2>1, <2>3, <2>4 DEF CInv
<1> QED
  BY <1>1, <1>3, <1>4, <1>5, <1>6 DEF Next

\* Whatever the copies of a block, serialize_parallel_copies spends one
\* temporary on each register cycle and none on anything else.
THEOREM PhiOneTempPerCycle == Spec => []OneTempPerCycle
<1>1. Init => IInv /\ TInv /\ CInv
  <2>1. Init => TInv
    BY DEF Init, TInv, BelowCounter, TempsUnshared, TempsOf
  <2> QED
    BY <2>1, InitIInv, InitCInv
<1>2. (IInv /\ TInv /\ CInv) /\ [Next]_vars => (IInv /\ TInv /\ CInv)'
  BY NextIInv, NextTInv, NextCInv
<1>3. CInv => OneTempPerCycle
  BY DEF CInv
<1> QED
  BY <1>1, <1>2, <1>3, PTL DEF Spec
=============================================================================
