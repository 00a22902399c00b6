------------------------------ MODULE RegAlloc ------------------------------
(***************************************************************************)
(* Register allocation, crates/vliw-backend/src/regalloc.rs: the allocator *)
(* walks the blocks of a function in layout order with one table of        *)
(* assignments, gives every virtual register it meets a physical one, and  *)
(* inserts spill stores and reloads when the free queue is empty.          *)
(*                                                                         *)
(* live_out holds what Liveness computes: module Liveness checks that it   *)
(* is LiveAtEnd when every register has a bit in a LiveSet.  A global      *)
(* position `pos' is the pair <<block, k>>, where k is one past the        *)
(* syllables at the terminator.  `protected' loses the sources that are    *)
(* freed; they are no longer in `assigned', the only place it is looked up *)
(* for, so the sources of the syllable stand for it.                       *)
(***************************************************************************)
EXTENDS Mir, FiniteSets

CONSTANTS
  Functions,             \* the MIR functions to allocate
  FIRST_ALLOCATABLE_GPR, \* 2 in the code
  LAST_ALLOCATABLE_GPR,  \* 30 in the code
  MemorySize,            \* bytes of memory of the processor
  LiveSetBits            \* 64 in the code

\* Two sources and a destination always fit.
ASSUME AllocatableAssumption ==
  /\ FIRST_ALLOCATABLE_GPR \in Nat
  /\ LAST_ALLOCATABLE_GPR \in Nat
  /\ LAST_ALLOCATABLE_GPR >= FIRST_ALLOCATABLE_GPR + 2
ASSUME MemorySizeAssumption == MemorySize \in Nat
ASSUME LiveSetBitsAssumption == LiveSetBits \in Nat \ {0}

\* A function is a sequence of blocks, at least one, and no syllable reads more
\* than two virtual registers.
ASSUME FunctionsAssumption ==
  \A f \in Functions :
    /\ Len(f) \in Nat \ {0} /\ DOMAIN f = 1 .. Len(f)
    /\ \A b \in DOMAIN f :
         /\ Len(f[b].syllables) \in Nat
         /\ DOMAIN f[b].syllables = 1 .. Len(f[b].syllables)
         /\ \A j \in DOMAIN f[b].syllables :
              \A v, w, x \in Uses(f[b].syllables[j]) : v = w \/ w = x \/ v = x

Allocatable == FIRST_ALLOCATABLE_GPR .. LAST_ALLOCATABLE_GPR

SPILL_SLOT_BYTES == 8

\* regs::spill_base.
SpillBase == (MemorySize * 15) \div 16

VARIABLES
  func,      \* the function being allocated
  live_out,  \* block -> virtual registers live at its end
  block, k,  \* the syllable, or the terminator, being rewritten
  step,      \* "read", "free" or "write": which part of rewrite_syllable
  s,         \* the source the loop of that part is at
  srcs,      \* the sources rewritten so far
  alloc,     \* the Allocator: assigned, free, spill_slots
  blocks,    \* the allocated blocks
  phase      \* "alloc" or "done"

input == <<func, live_out>>
cursor == <<block, k, step, s, srcs>>
vars == <<input, cursor, alloc, blocks, phase>>

\* HashMap::remove and HashMap::insert.
Without(f, x) == [y \in DOMAIN f \ {x} |-> f[y]]
With(f, x, e) == [y \in DOMAIN f \cup {x} |-> IF y = x THEN e ELSE f[y]]

VRegsOf(f) ==
  UNION {(UNION {Uses(f[b].syllables[j]) \cup Defs(f[b].syllables[j]) :
                   j \in DOMAIN f[b].syllables})
           \cup TermUses(f[b].terminator) : b \in DOMAIN f}

\* Every register of f has a bit of its own in a LiveSet.
FitsLiveSet(f) == VRegsOf(f) \subseteq 0 .. (LiveSetBits - 1)

\* What the LiveSets of f may tell.  LiveSet::contains denies the registers without
\* a bit, which (in a release build) also set the bits of others.
LiveOuts(f) ==
  IF FitsLiveSet(f)
  THEN {[b \in DOMAIN f |-> {v \in VRegsOf(f) : LiveAtEnd(f, b, v)}]}
  ELSE [DOMAIN f -> SUBSET (VRegsOf(f) \cap 0 .. (LiveSetBits - 1))]

Init ==
  /\ func \in Functions
  /\ live_out \in LiveOuts(func)
  /\ block = 1 /\ k = 1 /\ step = "read" /\ s = 1 /\ srcs = <<>>
  /\ alloc = [assigned |-> <<>>,
              free |-> [n \in 1 .. (LAST_ALLOCATABLE_GPR - FIRST_ALLOCATABLE_GPR + 1) |->
                          FIRST_ALLOCATABLE_GPR + n - 1],
              spill_slots |-> <<>>]
  /\ blocks = [b \in DOMAIN func |-> MirBlock(func[b].label, <<>>, func[b].terminator)]
  /\ phase = "alloc"
-----------------------------------------------------------------------------
(***************************************************************************)
(* The methods of Allocator.  One that may spill returns the set of its    *)
(* outcomes: the victim is whichever entry a HashMap yields first.  The    *)
(* set is empty when the method returns OutOfRegisters, the only error;    *)
(* there is no action for it because VictimExists says it cannot happen.   *)
(***************************************************************************)
Syllables == func[block].syllables
AtTerminator == k = Len(Syllables) + 1
Current == Syllables[k]

\* The place of the last use of v in the current block, 0 if it has none.
LastUse(v) ==
  LET uses == {j \in DOMAIN Syllables : v \in Uses(Syllables[j])}
  IN  IF v \in TermUses(func[block].terminator) THEN Len(Syllables) + 1
      ELSE IF uses = {} THEN 0
      ELSE CHOOSE j \in uses : \A h \in uses : h <= j

\* Mutant: a register may be reused although a later block reads it.
CanFreeAfterBlockOnly(v) == LastUse(v) = k

CanFreeAfter(v) == LastUse(v) = k /\ v \notin live_out[block]

\* Mutant: the freed register does not go back to the queue.
FreeVRegLosesRegister(A, v) ==
  IF v \in DOMAIN A.assigned THEN [A EXCEPT !.assigned = Without(@, v)] ELSE A

\* Mutant: the assignment stays.
FreeVRegKeepsAssignment(A, v) ==
  IF v \in DOMAIN A.assigned THEN [A EXCEPT !.free = <<A.assigned[v]>> \o @] ELSE A

\* free_vreg.
FreeVReg(A, v) ==
  IF v \in DOMAIN A.assigned
    THEN [A EXCEPT !.assigned = Without(@, v), !.free = <<A.assigned[v]>> \o @]
    ELSE A

\* spill_slot: the slots with the one of v; next_spill_slot counts them.
SpillSlot(A, v) ==
  IF v \in DOMAIN A.spill_slots THEN A.spill_slots
  ELSE With(A.spill_slots, v,
            SpillBase + Cardinality(DOMAIN A.spill_slots) * SPILL_SLOT_BYTES)

SpillStore(slot, p) == Syl("std", NoReg, <<Stack(slot), PReg(p)>>)
Reload(slot, p) == Syl("ldd", PReg(p), <<Stack(slot)>>)

\* alloc_preg.
AllocPreg(A, protected) ==
  IF A.free # <<>>
    THEN {[preg |-> Head(A.free), alloc |-> [A EXCEPT !.free = Tail(@)], prefix |-> <<>>]}
    ELSE {LET slots == SpillSlot(A, victim)
              p == A.assigned[victim]
          IN  [preg   |-> p,
               alloc  |-> [A EXCEPT !.assigned = Without(@, victim), !.spill_slots = slots],
               prefix |-> <<SpillStore(slots[victim], p)>>] :
            victim \in DOMAIN A.assigned \ protected}

\* preg_for_vreg.
PregForVReg(A, v, protected) ==
  IF v \in DOMAIN A.assigned
    THEN {[preg |-> A.assigned[v], alloc |-> A, prefix |-> <<>>]}
    ELSE {[o EXCEPT !.alloc.assigned = With(@, v, o.preg),
                    !.prefix = IF v \in DOMAIN A.spill_slots
                                 THEN Append(@, Reload(A.spill_slots[v], o.preg)) ELSE @] :
            o \in AllocPreg(A, protected)}

EmitCode(code) == blocks' = [blocks EXCEPT ![block].syllables = @ \o code]
-----------------------------------------------------------------------------
InSyllable(part) == phase = "alloc" /\ ~AtTerminator /\ step = part

\* A turn of the loop over the sources: rewrite_value.
RewriteSource ==
  /\ InSyllable("read")
  /\ s <= Len(Current.srcs)
  /\ LET src == Current.srcs[s]
     IN  \/ /\ src.kind # "VReg"
            /\ srcs' = Append(srcs, src)
            /\ UNCHANGED <<alloc, blocks>>
         \/ /\ src.kind = "VReg"
            /\ \E o \in PregForVReg(alloc, src.n, Uses(Current)) :
                 /\ srcs' = Append(srcs, PReg(o.preg))
                 /\ alloc' = o.alloc
                 /\ EmitCode(o.prefix)
  /\ s' = s + 1
  /\ UNCHANGED <<input, block, k, step, phase>>

\* The next part of rewrite_syllable.
NextPart ==
  /\ InSyllable(step) /\ step \in {"read", "free"}
  /\ s = Len(Current.srcs) + 1
  /\ step' = IF step = "read" THEN "free" ELSE "write"
  /\ s' = 1
  /\ UNCHANGED <<input, block, k, srcs, alloc, blocks, phase>>

\* A turn of the loop over src_vregs.
FreeSource ==
  /\ InSyllable("free")
  /\ s <= Len(Current.srcs)
  /\ LET src == Current.srcs[s]
     IN  alloc' = IF src.kind = "VReg" /\ src # Current.dst /\ CanFreeAfter(src.n)
                    THEN FreeVReg(alloc, src.n) ELSE alloc
  /\ s' = s + 1
  /\ UNCHANGED <<input, block, k, step, srcs, blocks, phase>>

\* The destination, and the rewritten syllable.
RewriteDst ==
  /\ InSyllable("write")
  /\ LET dst == Current.dst
     IN  \/ /\ dst.kind # "VReg"
            /\ EmitCode(<<Syl(Current.opcode, dst, srcs)>>)
            /\ UNCHANGED alloc
         \/ /\ dst.kind = "VReg"
            /\ \E o \in PregForVReg(alloc, dst.n, Uses(Current)) :
                 /\ alloc' = IF LastUse(dst.n) <= k /\ dst.n \notin live_out[block]
                               THEN FreeVReg(o.alloc, dst.n) ELSE o.alloc
                 /\ EmitCode(Append(o.prefix, Syl(Current.opcode, PReg(o.preg), srcs)))
  /\ k' = k + 1 /\ step' = "read" /\ s' = 1 /\ srcs' = <<>>
  /\ UNCHANGED <<input, block, phase>>

\* The end of a turn of the loop over the blocks.
NextBlock ==
  /\ block' = block + 1
  /\ phase' = IF block = Len(func) THEN "done" ELSE "alloc"
  /\ k' = 1

\* rewrite_terminator, and on to the next block.
RewriteTerminator ==
  /\ phase = "alloc" /\ AtTerminator
  /\ LET cond == func[block].terminator.cond
     IN  \/ cond.kind # "VReg" /\ UNCHANGED <<alloc, blocks>>
         \/ /\ cond.kind = "VReg"
            /\ \E o \in PregForVReg(alloc, cond.n, {cond.n}) :
                 /\ alloc' = IF CanFreeAfter(cond.n) THEN FreeVReg(o.alloc, cond.n) ELSE o.alloc
                 /\ blocks' = [blocks EXCEPT ![block].syllables = @ \o o.prefix,
                                             ![block].terminator.cond = PReg(o.preg)]
  /\ NextBlock
  /\ UNCHANGED <<input, step, s, srcs>>

Terminated == phase # "alloc" /\ UNCHANGED vars

Next ==
  RewriteSource \/ NextPart \/ FreeSource \/ RewriteDst \/ RewriteTerminator
    \/ Terminated

Spec == Init /\ [][Next]_vars
-----------------------------------------------------------------------------
(***************************************************************************)
(* Properties.                                                             *)
(***************************************************************************)

\* Between any two operands, every allocatable register is either in the free
\* queue, once, or assigned to exactly one virtual register: spilling, freeing
\* and reuse neither lose a register nor hand one out twice.
RegistersPartitioned ==
  LET assigned == alloc.assigned
      free == alloc.free
  IN  /\ \A v, w \in DOMAIN assigned : assigned[v] = assigned[w] => v = w
      /\ \A i, j \in DOMAIN free : free[i] = free[j] => i = j
      /\ {assigned[v] : v \in DOMAIN assigned} \cap {free[i] : i \in DOMAIN free} = {}
      /\ {assigned[v] : v \in DOMAIN assigned} \cup {free[i] : i \in DOMAIN free} = Allocatable

\* The virtual register that the next action looks up.
Requested ==
  IF AtTerminator THEN TermUses(func[block].terminator)
  ELSE IF step = "read" /\ s <= Len(Current.srcs) THEN VRegsIn({Current.srcs[s]})
  ELSE IF step = "write" THEN Defs(Current)
  ELSE {}

\* alloc_preg never returns OutOfRegisters: whatever has been spilled or freed
\* before, there is a free register or a victim that the syllable does not read.
VictimExists ==
  phase = "alloc" =>
    \A v \in Requested :
      PregForVReg(alloc, v, IF AtTerminator THEN {v} ELSE Uses(Current)) # {}
=============================================================================
