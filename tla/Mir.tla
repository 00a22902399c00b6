-------------------------------- MODULE Mir --------------------------------
(***************************************************************************)
(* MIR before register allocation, crates/vliw-backend/src/mir.rs: a       *)
(* function is the sequence of its blocks in layout order, a block a       *)
(* sequence of syllables and one terminator, and a register is virtual or  *)
(* one of the physical registers the calling convention fixes.  Blocks are *)
(* numbered from 1 here.                                                   *)
(***************************************************************************)
EXTENDS VliwIsa

VReg(v) == [kind |-> "VReg", n |-> v]
PReg(p) == [kind |-> "PReg", n |-> p]

\* The dst of a syllable that has none.
NoReg == [kind |-> "None", n |-> 0]

\* Terminator::Branch, Jump, Return and DirectCall.  A call names the function
\* it calls and the label of its continuation.
Branch(cond, l) == [op |-> "br", cond |-> cond, label |-> l]
Jump(l) == [op |-> "jmp", cond |-> NoReg, label |-> l]
Return == [op |-> "ret", cond |-> NoReg, label |-> "none"]
DirectCall(f, cont) == [op |-> "call", cond |-> NoReg, label |-> cont, target |-> f]

MirBlock(l, syls, term) == [label |-> l, syllables |-> syls, terminator |-> term]

VRegsIn(values) == {v.n : v \in {w \in values : w.kind = "VReg"}}

\* The virtual registers a syllable reads and writes.
Uses(syl) == VRegsIn({syl.srcs[k] : k \in DOMAIN syl.srcs})
Defs(syl) == VRegsIn({syl.dst})

\* The virtual register a terminator reads: a branch condition.
TermUses(term) == VRegsIn({term.cond})

\* Control may go from the end of block b to the start of block c: a branch is
\* taken or falls through, a call returns to the block laid out after it.
Follows(func, b, c) ==
  LET term == func[b].terminator
      isTarget == func[c].label = term.label
  IN  CASE term.op = "br"   -> isTarget \/ c = b + 1
        [] term.op = "jmp"  -> isTarget
        [] term.op = "call" -> c = b + 1
        [] OTHER            -> FALSE
-----------------------------------------------------------------------------
(***************************************************************************)
(* What it means for a register to be live, independent of any algorithm:  *)
(* some path reaches a read of it before any write.                        *)
(***************************************************************************)

\* Block b reads v before it writes it.
Exposes(func, b, v) ==
  LET syls == func[b].syllables
      WrittenBefore(k) == \E j \in 1 .. (k - 1) : v \in Defs(syls[j])
  IN  \/ \E k \in DOMAIN syls : v \in Uses(syls[k]) /\ ~WrittenBefore(k)
      \/ v \in TermUses(func[b].terminator) /\ ~WrittenBefore(Len(syls) + 1)

Writes(func, b, v) ==
  \E k \in DOMAIN func[b].syllables : v \in Defs(func[b].syllables[k])

\* v is live at the start of block b.  A shortest path visits no block twice.
LiveAtStart(func, b, v) ==
  \E len \in DOMAIN func : \E path \in [1 .. len -> DOMAIN func] :
    /\ path[1] = b
    /\ Exposes(func, path[len], v)
    /\ \A k \in 1 .. (len - 1) :
         Follows(func, path[k], path[k + 1]) /\ ~Writes(func, path[k], v)

LiveAtEnd(func, b, v) ==
  \E c \in DOMAIN func : Follows(func, b, c) /\ LiveAtStart(func, c, v)
=============================================================================
