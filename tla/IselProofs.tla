---------------------------- MODULE IselProofs ----------------------------
(***************************************************************************)
(* What instruction selection guarantees.  The lowering of a block writes  *)
(* no virtual register twice and reads none before it is written, and a    *)
(* lookup of an integer operand never fails (IselInstr).  The single save  *)
(* slot of the link register is enough for a module whose functions other  *)
(* than the first call nothing: every return goes where its call came      *)
(* from, however many calls there are (Calls).                             *)
(***************************************************************************)
EXTENDS IselInstr, Calls, SequenceTheorems, TLAPS
-----------------------------------------------------------------------------
(***************************************************************************)
(* Direct calls.                                                           *)
(***************************************************************************)

\* The modules: the functions that Main calls call nothing themselves.
ModulesAreLeafy ==
  /\ Main \in Names
  /\ Modules \subseteq [Names -> Seq(Names)]
  /\ \A m \in Modules : \A n \in DOMAIN m[Main] : m[m[Main][n]] = <<>>

\* Main runs, outside a call: the link register is its own.
InMain ==
  /\ at \in {Piece(Main, n) : n \in 1 .. (Len(module[Main]) + 1)}
  /\ restored = TRUE
  /\ r31 = Halt
  /\ owed = <<Halt>>

\* A function that Main called runs: the slot holds Main's link register.
InCallee ==
  /\ restored = TRUE
  /\ save = Halt
  /\ \E n \in DOMAIN module[Main] :
       /\ at = Piece(module[Main][n], 1)
       /\ r31 = Piece(Main, n + 1)
       /\ owed = <<Piece(Main, n + 1), Halt>>

\* Main has been returned to and has not restored the link register.
InContinuation ==
  /\ at \in {Piece(Main, n) : n \in 2 .. (Len(module[Main]) + 1)}
  /\ restored = FALSE
  /\ save = Halt
  /\ owed = <<Halt>>

\* The inductive invariant: control is in one of four places, and each says
\* what the register, the slot and the returns owed are.
CallsInv ==
  /\ module \in Modules
  /\ InMain \/ InCallee \/ InContinuation \/ at = Halt

\* Pieces are determined by function and number.
LEMMA PieceIsInjective ==
  ASSUME NEW f, NEW n, NEW g, NEW m
  PROVE  /\ Piece(f, n) = Piece(g, m) <=> f = g /\ n = m
         /\ Piece(f, n).fn = f
         /\ Piece(f, n).piece = n
  BY DEF Piece

\* The stack of returns: a push on one entry, and the pop that undoes it.
LEMMA PushAndPop ==
  ASSUME NEW x, NEW y
  PROVE  /\ <<x>> \o <<y>> = <<x, y>>
         /\ SubSeq(<<x, y>>, 2, Len(<<x, y>>)) = <<y>>
<1> DEFINE S == {x, y}
<1>1. <<x>> \in Seq(S) /\ <<y>> \in Seq(S) /\ <<x, y>> \in Seq(S)
  OBVIOUS
<1>2. Len(<<x>>) = 1 /\ Len(<<y>>) = 1 /\ Len(<<x, y>>) = 2
  OBVIOUS
<1>3. <<x>> \o <<y>> = <<x, y>>
  <2> DEFINE c == <<x>> \o <<y>>
  <2>1. c \in Seq(S) /\ Len(c) = 2 /\ c[1] = x /\ c[2] = y
    BY <1>1, <1>2, ConcatProperties
  <2> HIDE DEF c, S
  <2>2. \A n \in 1 .. Len(c) : c[n] = <<x, y>>[n]
    BY <2>1
  <2>3. c = <<x, y>>
    BY <1>1, <1>2, <2>1, <2>2, SeqEqual, Zenon
  <2> QED
    BY <2>3 DEF c
<1>4. SubSeq(<<x, y>>, 2, 2) = <<y>>
  <2> DEFINE c == SubSeq(<<x, y>>, 2, 2)
  <2>1. c \in Seq(S) /\ Len(c) = 1 /\ c[1] = y
    BY <1>1, <1>2, SubSeqProperties
  <2> HIDE DEF c, S
  <2>2. \A n \in 1 .. Len(c) : c[n] = <<y>>[n]
    BY <2>1
  <2>3. c = <<y>>
    BY <1>1, <1>2, <2>1, <2>2, SeqEqual, Zenon
  <2> QED
    BY <2>3 DEF c
<1> QED
  BY <1>2, <1>3, <1>4

LEMMA CallInitInv == ModulesAreLeafy /\ CallInit => CallsInv
<1> SUFFICES ASSUME ModulesAreLeafy, CallInit
             PROVE  InMain
  BY DEF CallsInv, CallInit
<1>1. module[Main] \in Seq(Names)
  BY DEF ModulesAreLeafy, CallInit
<1>2. 1 \in 1 .. (Len(module[Main]) + 1)
  BY <1>1
<1> QED
  BY <1>2 DEF CallInit, InMain

\* A call leaves Main for a function that calls nothing.
LEMMA CallFunctionInv ==
  ASSUME ModulesAreLeafy, CallsInv, CallFunction
  PROVE  CallsInv'
<1>1. module[Main] \in Seq(Names) /\ module' = module
  BY DEF ModulesAreLeafy, CallsInv, CallFunction
<1>2. ~InCallee
  <2> SUFFICES ASSUME NEW n \in DOMAIN module[Main], at = Piece(module[Main][n], 1)
               PROVE  FALSE
    BY DEF InCallee
  <2>1. module[at.fn] = <<>> /\ at.piece = 1
    BY PieceIsInjective DEF ModulesAreLeafy, CallsInv
  <2> QED
    BY <2>1 DEF CallFunction, Callees
<1>3. InMain
  BY <1>2 DEF CallsInv, CallFunction, Running, InContinuation
<1>4. PICK n \in 1 .. (Len(module[Main]) + 1) : at = Piece(Main, n)
  BY <1>3 DEF InMain
<1>5. at.fn = Main /\ at.piece = n
  BY <1>4, PieceIsInjective
<1>6. n \in DOMAIN module[Main]
  BY <1>1, <1>4, <1>5 DEF CallFunction, Callees
<1>7. /\ at' = Piece(module[Main][n], 1)
      /\ r31' = Piece(Main, n + 1)
      /\ owed' = <<Piece(Main, n + 1)>> \o <<Halt>>
      /\ save' = Halt
      /\ restored' = TRUE
  BY <1>3, <1>5 DEF CallFunction, Callees, SaveLink, InMain
<1>8. owed' = <<Piece(Main, n + 1), Halt>>
  BY <1>7, PushAndPop
<1>9. InCallee'
  BY <1>1, <1>6, <1>7, <1>8 DEF InCallee
<1> QED
  BY <1>1, <1>9 DEF CallsInv

\* A return goes from Main to the end, and from a callee to the continuation.
LEMMA ReturnInv ==
  ASSUME ModulesAreLeafy, CallsInv, ReturnFrom
  PROVE  CallsInv'
<1>1. module[Main] \in Seq(Names) /\ module' = module
  BY DEF ModulesAreLeafy, CallsInv, ReturnFrom
<1>2. CASE InMain
  BY <1>1, <1>2 DEF CallsInv, InMain, ReturnFrom, Halt
<1>3. CASE InCallee
  <2>1. PICK n \in DOMAIN module[Main] :
          r31 = Piece(Main, n + 1) /\ owed = <<Piece(Main, n + 1), Halt>>
    BY <1>3 DEF InCallee
  <2>2. n \in 1 .. Len(module[Main])
    BY <1>1
  <2>3. n + 1 \in 2 .. (Len(module[Main]) + 1)
    BY <1>1, <2>2
  <2>4. at' = Piece(Main, n + 1) /\ r31.piece = n + 1
    BY <2>1, PieceIsInjective DEF ReturnFrom
  <2>5. restored' = FALSE
    <3>1. (n + 1 <= 1) = FALSE
      BY <1>1, <2>2
    <3> QED
      BY <2>4, <3>1, Zenon DEF ReturnFrom
  <2>6. owed' = <<Halt>>
    BY <2>1, PushAndPop DEF ReturnFrom
  <2>7. save' = Halt
    BY <1>3 DEF InCallee, ReturnFrom
  <2>8. InContinuation'
    BY <1>1, <2>3, <2>4, <2>5, <2>6, <2>7 DEF InContinuation
  <2> QED
    BY <1>1, <2>8 DEF CallsInv
<1>4. ~InContinuation /\ at # Halt
  BY DEF ReturnFrom, Running, InContinuation
<1> QED
  BY <1>2, <1>3, <1>4 DEF CallsInv

\* The load at the top of a continuation gives Main its link register back.
LEMMA RestoreInv ==
  ASSUME ModulesAreLeafy, CallsInv, RestoreLink
  PROVE  CallsInv'
<1>1. module[Main] \in Seq(Names) /\ module' = module
  BY DEF ModulesAreLeafy, CallsInv, RestoreLink
<1>2. InContinuation
  BY DEF CallsInv, RestoreLink, InMain, InCallee
<1>3. PICK n \in 2 .. (Len(module[Main]) + 1) : at = Piece(Main, n)
  BY <1>2 DEF InContinuation
<1>4. n \in 1 .. (Len(module[Main]) + 1)
  BY <1>1
<1>5. InMain'
  BY <1>1, <1>2, <1>3, <1>4 DEF RestoreLink, InContinuation, InMain
<1> QED
  BY <1>1, <1>5 DEF CallsInv

\* Every step of a leafy module stays within the four places.
LEMMA CallNextInv == ModulesAreLeafy /\ CallsInv /\ [CallNext]_callVars => CallsInv'
<1> SUFFICES ASSUME ModulesAreLeafy, CallsInv, [CallNext]_callVars
             PROVE  CallsInv'
  OBVIOUS
<1>1. CASE UNCHANGED callVars
  BY <1>1 DEF callVars, CallsInv, InMain, InCallee, InContinuation
<1> QED
  BY <1>1, CallFunctionInv, ReturnInv, RestoreInv DEF CallNext, Halted

\* In a module whose functions, except the first, call nothing, `ret' always
\* goes to the continuation of the call that entered the function
\* (save_link_register and restore_link_register of isel.rs), for every number
\* of functions and calls.
THEOREM LeafReturnsMatchCalls ==
  ASSUME ModulesAreLeafy
  PROVE  CallSpec => []ReturnsMatchCalls
<1>1. CallsInv => ReturnsMatchCalls
  <2> SUFFICES ASSUME CallsInv, Running
               PROVE  owed # <<>> /\ r31 = Head(owed)
    BY DEF ReturnsMatchCalls
  <2>1. InMain \/ InCallee
    BY DEF CallsInv, InContinuation, Running
  <2> QED
    BY <2>1 DEF InMain, InCallee
<1>2. CallInit => CallsInv
  BY CallInitInv
<1>3. CallsInv /\ [CallNext]_callVars => CallsInv'
  BY CallNextInv
<1> QED
  BY <1>1, <1>2, <1>3, PTL DEF CallSpec
-----------------------------------------------------------------------------
(***************************************************************************)
(* Sequences of anything.                                                  *)
(***************************************************************************)
IsSequence(q) ==
  Len(q) \in Nat /\ DOMAIN q = 1 .. Len(q) /\ q = [n \in 1 .. Len(q) |-> q[n]]

ValuesOf(q) == {q[n] : n \in DOMAIN q}

LEMMA InSeqOfValues ==
  ASSUME NEW q, IsSequence(q), NEW S, ValuesOf(q) \subseteq S
  PROVE  q \in Seq(S)
<1>1. q \in [1 .. Len(q) -> S]
  BY DEF IsSequence, ValuesOf
<1> QED
  BY <1>1, SeqDef DEF IsSequence

LEMMA SeqIsSequence ==
  ASSUME NEW S, NEW q \in Seq(S)
  PROVE  IsSequence(q)
<1>1. Len(q) \in Nat /\ DOMAIN q = 1 .. Len(q) /\ q \in [1 .. Len(q) -> S]
  BY LenProperties
<1> QED
  BY <1>1 DEF IsSequence

LEMMA AppendAny ==
  ASSUME NEW q, IsSequence(q), NEW x
  PROVE  /\ IsSequence(Append(q, x))
         /\ Len(Append(q, x)) = Len(q) + 1
         /\ \A n \in 1 .. Len(q) : Append(q, x)[n] = q[n]
         /\ Append(q, x)[Len(q) + 1] = x
<1> DEFINE S == ValuesOf(q) \cup {x}
<1>1. q \in Seq(S) /\ x \in S
  BY InSeqOfValues
<1> HIDE DEF S
<1>2. /\ Append(q, x) \in Seq(S)
      /\ Len(Append(q, x)) = Len(q) + 1
      /\ \A n \in 1 .. Len(q) : Append(q, x)[n] = q[n]
      /\ Append(q, x)[Len(q) + 1] = x
  BY <1>1, AppendProperties
<1> QED
  BY <1>2, SeqIsSequence

\* A third piece of code may be put behind the two first or the two last.
Reassociates(q, l) == \A r : IsSequence(r) => (q \o l) \o r = q \o (l \o r)

\* Code behind other code, one piece after the other.
LEMMA ConcatAny ==
  ASSUME NEW q, IsSequence(q), NEW l, IsSequence(l)
  PROVE  /\ IsSequence(q \o l)
         /\ \A x : q \o Append(l, x) = Append(q \o l, x)
         /\ Reassociates(q, l)
<1>1. IsSequence(q \o l)
  <2> DEFINE S == ValuesOf(q) \cup ValuesOf(l)
  <2>1. q \in Seq(S) /\ l \in Seq(S)
    BY InSeqOfValues
  <2> HIDE DEF S
  <2>2. q \o l \in Seq(S)
    BY <2>1, ConcatProperties
  <2> QED
    BY <2>2, SeqIsSequence
<1>2. ASSUME NEW r, IsSequence(r)
      PROVE  (q \o l) \o r = q \o (l \o r)
  <2> DEFINE S == ValuesOf(q) \cup ValuesOf(l) \cup ValuesOf(r)
  <2>1. q \in Seq(S) /\ l \in Seq(S) /\ r \in Seq(S)
    BY <1>2, InSeqOfValues
  <2> HIDE DEF S
  <2>2. q \o l \in Seq(S) /\ l \o r \in Seq(S)
    BY <2>1, ConcatProperties
  <2> QED
    BY <2>1, <2>2, ConcatAssociative
<1>3. ASSUME NEW x
      PROVE  q \o Append(l, x) = Append(q \o l, x)
  <2> DEFINE S == ValuesOf(q) \cup ValuesOf(l) \cup {x}
  <2>1. q \in Seq(S) /\ l \in Seq(S) /\ x \in S
    BY InSeqOfValues
  <2> HIDE DEF S
  <2>2. q \o l \in Seq(S) /\ <<x>> \in Seq(S)
    BY <2>1, ConcatProperties
  <2>3. Append(l, x) = l \o <<x>> /\ Append(q \o l, x) = (q \o l) \o <<x>>
    BY <2>1, <2>2, AppendIsConcat
  <2>4. q \o (l \o <<x>>) = (q \o l) \o <<x>>
    BY <2>1, <2>2, ConcatAssociative
  <2> QED
    BY <2>3, <2>4, Zenon
<1> QED
  BY <1>1, <1>2, <1>3 DEF Reassociates

\* No code, and one syllable, behind other code.
LEMMA ConcatShort ==
  ASSUME NEW q, IsSequence(q), NEW x
  PROVE  q \o <<>> = q /\ q \o <<x>> = Append(q, x)
<1> DEFINE S == ValuesOf(q) \cup {x}
<1>1. q \in Seq(S) /\ x \in S
  BY InSeqOfValues
<1> HIDE DEF S
<1> QED
  BY <1>1, ConcatEmptySeq, AppendIsConcat

\* What an operand or an address is made of, as a sequence.
LEMMA ShortSequences ==
  ASSUME NEW x, NEW y
  PROVE  IsSequence(<<>>) /\ IsSequence(<<x>>) /\ IsSequence(<<x, y>>)
<1>1. <<>> \in Seq({x, y}) /\ <<x>> \in Seq({x, y}) /\ <<x, y>> \in Seq({x, y})
  OBVIOUS
<1> QED
  BY <1>1, SeqIsSequence
-----------------------------------------------------------------------------
(***************************************************************************)
(* Code in single assignment form.                                         *)
(***************************************************************************)

\* The registers code q writes, and the register of the parameter.
WrittenIn(q) == {0} \cup UNION {Defs(q[h]) : h \in DOMAIN q}

AssignsOnce(q) ==
  \A k \in DOMAIN q :
    /\ \A h \in 1 .. (k - 1) : Defs(q[k]) \cap Defs(q[h]) = {}
    /\ Uses(q[k]) \subseteq {0} \cup UNION {Defs(q[h]) : h \in 1 .. (k - 1)}

\* Code q when next_vreg is v: the counter is above every register written.
WellFormed(q, v) ==
  /\ IsSequence(q) /\ v \in Nat
  /\ AssignsOnce(q)
  /\ \A w \in WrittenIn(q) : w \in Nat /\ w < v

\* Syllable syl is fit to follow q: it reads what q writes, and writes nothing
\* or the next register; `fresh' registers are used up.
Fitting(q, v, syl, fresh) ==
  /\ Uses(syl) \subseteq WrittenIn(q)
  /\ \/ Defs(syl) = {} /\ fresh = 0
     \/ Defs(syl) = {v} /\ fresh = 1

\* Code q2 after code q1, with its counters: still in single assignment form,
\* and nothing that was written is lost.
Extension(q1, q2, v2) == WellFormed(q2, v2) /\ WrittenIn(q1) \subseteq WrittenIn(q2)

\* A syllable that reads written registers and writes fresh ones can be added.
LEMMA PushSyllable ==
  ASSUME NEW q, NEW v, NEW syl, NEW fresh, WellFormed(q, v), Fitting(q, v, syl, fresh)
  PROVE  /\ Extension(q, Append(q, syl), v + fresh)
         /\ Defs(syl) \subseteq WrittenIn(Append(q, syl))
<1> DEFINE r == Append(q, syl)
<1>1. /\ IsSequence(r) /\ Len(r) = Len(q) + 1 /\ IsSequence(q)
      /\ \A n \in 1 .. Len(q) : r[n] = q[n]
      /\ r[Len(q) + 1] = syl
  BY AppendAny DEF WellFormed
<1> HIDE DEF r
<1>2. /\ Len(q) \in Nat /\ DOMAIN q = 1 .. Len(q)
      /\ DOMAIN r = 1 .. (Len(q) + 1)
  BY <1>1 DEF IsSequence
<1>3. WrittenIn(r) = WrittenIn(q) \cup Defs(syl)
  <2>1. \A h \in DOMAIN r : h \in DOMAIN q \/ h = Len(q) + 1
    BY <1>2
  <2>2. DOMAIN q \subseteq DOMAIN r /\ Len(q) + 1 \in DOMAIN r
    BY <1>2
  <2>3. \A h \in DOMAIN q : r[h] = q[h]
    BY <1>1, <1>2
  <2>4. {Defs(r[h]) : h \in DOMAIN r} = {Defs(q[h]) : h \in DOMAIN q} \cup {Defs(syl)}
    BY <1>1, <2>1, <2>2, <2>3
  <2> QED
    BY <2>4, Zenon DEF WrittenIn
<1>4. \A k \in DOMAIN r : k \in DOMAIN q \/ k = Len(q) + 1
  BY <1>2
<1>5. \A k \in DOMAIN q : \A h \in 1 .. (k - 1) : h \in DOMAIN q /\ r[h] = q[h]
  BY <1>1, <1>2
<1>6. 1 .. ((Len(q) + 1) - 1) = DOMAIN q /\ \A h \in DOMAIN q : r[h] = q[h]
  BY <1>1, <1>2
<1>7. AssignsOnce(r)
  <2> SUFFICES ASSUME NEW k \in DOMAIN r
               PROVE  /\ \A h \in 1 .. (k - 1) : Defs(r[k]) \cap Defs(r[h]) = {}
                      /\ Uses(r[k]) \subseteq {0} \cup UNION {Defs(r[h]) : h \in 1 .. (k - 1)}
    BY DEF AssignsOnce
  <2>1. CASE k \in DOMAIN q
    <3>1. {Defs(r[h]) : h \in 1 .. (k - 1)} = {Defs(q[h]) : h \in 1 .. (k - 1)}
      BY <1>5, <2>1
    <3>2. r[k] = q[k]
      BY <1>6, <2>1
    <3>3. /\ \A h \in 1 .. (k - 1) : Defs(q[k]) \cap Defs(q[h]) = {}
          /\ Uses(q[k]) \subseteq {0} \cup UNION {Defs(q[h]) : h \in 1 .. (k - 1)}
      BY <2>1 DEF WellFormed, AssignsOnce
    <3>4. \A h \in 1 .. (k - 1) : r[h] = q[h]
      BY <1>5, <2>1
    <3> QED
      BY <3>1, <3>2, <3>3, <3>4
  <2>2. CASE k = Len(q) + 1
    <3>1. {Defs(r[h]) : h \in 1 .. (k - 1)} = {Defs(q[h]) : h \in DOMAIN q}
      BY <1>6, <2>2
    <3>2. r[k] = syl
      BY <1>1, <2>2
    <3>3. \A h \in DOMAIN q : v \notin Defs(q[h])
      <4>1. \A h \in DOMAIN q : Defs(q[h]) \subseteq WrittenIn(q)
        BY DEF WrittenIn
      <4>2. v \notin WrittenIn(q)
        BY DEF WellFormed
      <4> QED
        BY <4>1, <4>2
    <3>4. \A h \in DOMAIN q : Defs(syl) \cap Defs(q[h]) = {}
      BY <3>3 DEF Fitting
    <3>5. \A h \in 1 .. (k - 1) : h \in DOMAIN q /\ r[h] = q[h]
      BY <1>6, <2>2
    <3>6. Uses(syl) \subseteq {0} \cup UNION {Defs(q[h]) : h \in DOMAIN q}
      BY DEF Fitting, WrittenIn
    <3> QED
      BY <3>1, <3>2, <3>4, <3>5, <3>6
  <2> QED
    BY <1>4, <2>1, <2>2
<1>8. v + fresh \in Nat /\ \A w \in WrittenIn(r) : w \in Nat /\ w < v + fresh
  BY <1>3 DEF WellFormed, Fitting
<1>9. WellFormed(r, v + fresh)
  BY <1>1, <1>7, <1>8 DEF WellFormed
<1> QED
  BY <1>3, <1>9 DEF Extension, r
-----------------------------------------------------------------------------
(***************************************************************************)
(* The lowering of one block.                                              *)
(***************************************************************************)

\* The registers the maps name are written by the code so far.
MapsWritten ==
  /\ \A j \in DOMAIN vreg_map : vreg_map[j] \in WrittenIn(syllables)
  /\ \A j \in DOMAIN gep_map :
       gep_map[j][1].kind = "VReg" => gep_map[j][1].n \in WrittenIn(syllables)

CodeInv == WellFormed(syllables, next_vreg) /\ MapsWritten

\* A value reads only registers that q writes.
ReadsWritten(value, q) == value.kind = "VReg" => value.n \in WrittenIn(q)

\* What a syllable reads and writes.
LEMMA SylUsesDefs ==
  ASSUME NEW op, NEW dst, NEW srcs, NEW q, \A n \in DOMAIN srcs : ReadsWritten(srcs[n], q)
  PROVE  /\ Uses(Syl(op, dst, srcs)) \subseteq WrittenIn(q)
         /\ Defs(Syl(op, dst, srcs)) = IF dst.kind = "VReg" THEN {dst.n} ELSE {}
<1>1. Syl(op, dst, srcs).srcs = srcs /\ Syl(op, dst, srcs).dst = dst
  BY DEF Syl
<1>2. Uses(Syl(op, dst, srcs)) \subseteq WrittenIn(q)
  BY <1>1 DEF Uses, VRegsIn, ReadsWritten
<1>3. Defs(Syl(op, dst, srcs)) = IF dst.kind = "VReg" THEN {dst.n} ELSE {}
  BY <1>1 DEF Defs, VRegsIn
<1> QED
  BY <1>2, <1>3

\* A syllable whose result goes to the next register, and one without result,
\* behind code that writes what it reads.
LEMMA PushSyl ==
  ASSUME NEW q, NEW v, WellFormed(q, v), NEW op, NEW dst, NEW srcs,
         \A n \in DOMAIN srcs : ReadsWritten(srcs[n], q)
  PROVE  /\ dst = VReg(v) => /\ Extension(q, Append(q, Syl(op, dst, srcs)), v + 1)
                             /\ v \in WrittenIn(Append(q, Syl(op, dst, srcs)))
         /\ dst.kind # "VReg" => Extension(q, Append(q, Syl(op, dst, srcs)), v + 0)
<1> DEFINE syl == Syl(op, dst, srcs)
<1>1. Uses(syl) \subseteq WrittenIn(q) /\ Defs(syl) = IF dst.kind = "VReg" THEN {dst.n} ELSE {}
  BY SylUsesDefs
<1> HIDE DEF syl
<1>2. ASSUME dst = VReg(v)
      PROVE  Extension(q, Append(q, syl), v + 1) /\ v \in WrittenIn(Append(q, syl))
  <2>1. dst.kind = "VReg" /\ dst.n = v
    BY <1>2 DEF VReg
  <2>2. Defs(syl) = {v}
    BY <1>1, <2>1
  <2>3. Fitting(q, v, syl, 1)
    BY <1>1, <2>2 DEF Fitting
  <2> QED
    BY <2>2, <2>3, PushSyllable
<1>3. ASSUME dst.kind # "VReg"
      PROVE  Extension(q, Append(q, syl), v + 0)
  <2>1. Fitting(q, v, syl, 0)
    BY <1>1, <1>3 DEF Fitting
  <2> QED
    BY <2>1, PushSyllable
<1> QED
  BY <1>2, <1>3 DEF syl

LEMMA ExtensionChain ==
  ASSUME NEW p, NEW q, NEW r, NEW v, NEW w, Extension(p, q, v), Extension(q, r, w)
  PROVE  Extension(p, r, w)
  BY DEF Extension

\* An operand lowered behind code q: its code keeps the form, and its value is
\* a register that is written.
LEMMA OperandCode ==
  ASSUME NEW q, NEW v, WellFormed(q, v), NEW arg, Lowerable(arg),
         \A j \in DOMAIN vreg_map : vreg_map[j] \in WrittenIn(q)
  PROVE  LET o == LowerOperand(arg, v)
         IN  /\ IsSequence(o.code)
             /\ Extension(q, q \o o.code, v + o.fresh)
             /\ ReadsWritten(o.value, q \o o.code)
<1> DEFINE o == LowerOperand(arg, v)
           c == Imm(SignExtend(arg.n, Bits(arg.ty)))
           movi == Syl("movi", VReg(v), <<c>>)
<1>0. IsSequence(q) /\ v \in Nat
  BY DEF WellFormed
<1>1. CASE arg.kind = "const"
  <2>1. o.value = VReg(v) /\ o.fresh = 1 /\ o.code = <<movi>>
    BY <1>1 DEF LowerOperand
  <2>2. ReadsWritten(<<c>>[1], q)
    BY DEF ReadsWritten, Imm
  <2> HIDE DEF o, c
  <2>3. \A n \in DOMAIN <<c>> : ReadsWritten(<<c>>[n], q)
    BY <2>2
  <2>4. Extension(q, Append(q, movi), v + 1) /\ v \in WrittenIn(Append(q, movi))
    BY <2>3, PushSyl
  <2> HIDE DEF movi
  <2>5. q \o o.code = Append(q, movi) /\ IsSequence(o.code)
    <3>1. q \o <<movi>> = Append(q, movi) /\ IsSequence(<<movi>>)
      BY <1>0, ConcatShort, ShortSequences
    <3> QED
      BY <2>1, <3>1
  <2>6. ReadsWritten(VReg(v), Append(q, movi))
    BY <2>4 DEF ReadsWritten, VReg
  <2>7. v + o.fresh = v + 1
    BY <2>1
  <2>8. ReadsWritten(o.value, q \o o.code) /\ Extension(q, q \o o.code, v + o.fresh)
    BY <2>1, <2>4, <2>5, <2>6, <2>7
  <2> QED
    BY <2>5, <2>8, Zenon DEF o
<1>2. CASE arg.kind # "const"
  <2>1. o.value = VReg(vreg_map[arg.n]) /\ o.fresh = 0 /\ o.code = <<>>
    BY <1>2 DEF LowerOperand
  <2>2. arg.n \in DOMAIN vreg_map
    BY <1>2 DEF Lowerable
  <2> HIDE DEF o
  <2>3. q \o o.code = q /\ IsSequence(o.code)
    BY <1>0, <2>1, ConcatShort, ShortSequences
  <2>4. v + o.fresh = v
    BY <1>0, <2>1
  <2>5. Extension(q, q, v)
    BY DEF Extension
  <2>6. ReadsWritten(o.value, q)
    BY <2>1, <2>2 DEF ReadsWritten, VReg
  <2> QED
    BY <2>3, <2>4, <2>5, <2>6, Zenon DEF o
<1> QED
  BY <1>1, <1>2

\* Both operands of a binary instruction, one behind the other.
LEMMA TwoOperands ==
  ASSUME CodeInv, NEW a, NEW b, Lowerable(a), Lowerable(b)
  PROVE  LET lhs == LowerOperand(a, next_vreg)
             rhs == LowerOperand(b, next_vreg + lhs.fresh)
             q == syllables \o (lhs.code \o rhs.code)
         IN  /\ IsSequence(lhs.code \o rhs.code)
             /\ Extension(syllables, q, next_vreg + lhs.fresh + rhs.fresh)
             /\ ReadsWritten(lhs.value, q) /\ ReadsWritten(rhs.value, q)
<1> DEFINE lhs == LowerOperand(a, next_vreg)
           rhs == LowerOperand(b, next_vreg + lhs.fresh)
           p == syllables \o lhs.code
           q == p \o rhs.code
<1>1. /\ IsSequence(lhs.code)
      /\ Extension(syllables, p, next_vreg + lhs.fresh)
      /\ ReadsWritten(lhs.value, p)
  BY OperandCode DEF CodeInv, MapsWritten
<1> HIDE DEF lhs, p
<1>2. \A j \in DOMAIN vreg_map : vreg_map[j] \in WrittenIn(p)
  BY <1>1 DEF CodeInv, MapsWritten, Extension
<1>3. WellFormed(p, next_vreg + lhs.fresh)
  BY <1>1 DEF Extension
<1>4. /\ IsSequence(rhs.code)
      /\ Extension(p, q, next_vreg + lhs.fresh + rhs.fresh)
      /\ ReadsWritten(rhs.value, q)
  BY <1>2, <1>3, OperandCode
<1> HIDE DEF rhs
<1>5. syllables \o (lhs.code \o rhs.code) = q /\ IsSequence(lhs.code \o rhs.code)
  <2>1. IsSequence(syllables)
    BY DEF CodeInv, WellFormed
  <2>2. /\ syllables \o (lhs.code \o rhs.code) = (syllables \o lhs.code) \o rhs.code
        /\ IsSequence(lhs.code \o rhs.code)
    <3> DEFINE l == lhs.code
               r == rhs.code
    <3>1. IsSequence(l) /\ IsSequence(r)
      BY <1>1, <1>4
    <3> HIDE DEF l, r
    <3>2. (syllables \o l) \o r = syllables \o (l \o r)
      <4>1. Reassociates(syllables, l)
        BY <2>1, <3>1, ConcatAny, Zenon
      <4> QED
        BY <3>1, <4>1 DEF Reassociates
    <3>3. IsSequence(l \o r)
      BY <3>1, ConcatAny, Zenon
    <3> QED
      BY <3>2, <3>3 DEF l, r
  <2> QED
    BY <2>2, Zenon DEF p
<1> HIDE DEF q
<1>6. ReadsWritten(lhs.value, q)
  BY <1>1, <1>4 DEF ReadsWritten, Extension
<1>7. Extension(syllables, q, next_vreg + lhs.fresh + rhs.fresh)
  BY <1>1, <1>4, ExtensionChain
<1> QED
  BY <1>4, <1>5, <1>6, <1>7, Zenon DEF lhs, rhs

\* The maps keep their property when the code is extended.
LEMMA MapsKept ==
  ASSUME CodeInv, Extension(syllables, syllables', next_vreg'),
         UNCHANGED <<vreg_map, gep_map>>
  PROVE  CodeInv'
  BY DEF CodeInv, MapsWritten, Extension

\* Code for an instruction keeps the invariant if it extends the block and
\* writes the register its result is entered under.
LEMMA ProduceInv ==
  ASSUME CodeInv, NEW code, NEW v, NEW fresh, Produce(code, v, fresh),
         Extension(syllables, syllables \o code, next_vreg + fresh),
         v \in WrittenIn(syllables \o code)
  PROVE  CodeInv'
<1>1. /\ syllables' = syllables \o code /\ next_vreg' = next_vreg + fresh
      /\ vreg_map' = With(vreg_map, i, v) /\ gep_map' = gep_map
  BY DEF Produce
<1>2. Extension(syllables, syllables', next_vreg') /\ v \in WrittenIn(syllables')
  BY <1>1
<1>3. \A j \in DOMAIN vreg_map' : vreg_map'[j] = v \/ (j \in DOMAIN vreg_map /\ vreg_map'[j] = vreg_map[j])
  BY <1>1 DEF With
<1>4. \A j \in DOMAIN vreg_map' : vreg_map'[j] \in WrittenIn(syllables')
  BY <1>2, <1>3 DEF CodeInv, MapsWritten, Extension
<1>5. MapsWritten'
  BY <1>1, <1>2, <1>4 DEF CodeInv, MapsWritten, Extension
<1> QED
  BY <1>2, <1>5 DEF CodeInv, Extension

\* The base of an address is a register that is written, or a constant.
LEMMA PtrWritten ==
  ASSUME CodeInv, NEW arg, NEW p \in PtrOperands(arg)
  PROVE  ReadsWritten(p[1], syllables)
<1>1. CASE p = <<Imm(arg.n), 0>>
  BY <1>1 DEF ReadsWritten, Imm
<1>2. CASE arg.n \in DOMAIN gep_map /\ p = gep_map[arg.n]
  BY <1>2 DEF CodeInv, MapsWritten, ReadsWritten
<1>3. CASE arg.n \in DOMAIN vreg_map /\ p = <<VReg(vreg_map[arg.n]), 0>>
  BY <1>3 DEF CodeInv, MapsWritten, ReadsWritten, VReg
<1> QED
  BY <1>1, <1>2, <1>3 DEF PtrOperands

\* Two operands that are read, in either order.
LEMMA PairReads ==
  ASSUME NEW q, NEW x, NEW y, ReadsWritten(x, q), ReadsWritten(y, q)
  PROVE  \A n \in DOMAIN <<x, y>> : ReadsWritten(<<x, y>>[n], q)
<1>1. \A n \in DOMAIN <<x, y>> : n = 1 \/ n = 2
  OBVIOUS
<1>2. <<x, y>>[1] = x /\ <<x, y>>[2] = y
  OBVIOUS
<1> QED
  BY <1>1, <1>2

\* One instruction: code behind the code so far, then a syllable that reads
\* what is written and whose result is the next register.
LEMMA ResultInv ==
  ASSUME NEW code, IsSequence(code), NEW q, NEW v, NEW op, NEW srcs,
         WellFormed(syllables, next_vreg),
         Extension(q, syllables \o code, v),
         \A n \in DOMAIN srcs : ReadsWritten(srcs[n], syllables \o code)
  PROVE  LET done == Append(code, Syl(op, VReg(v), srcs))
         IN  /\ IsSequence(done)
             /\ Extension(q, syllables \o done, v + 1)
             /\ v \in WrittenIn(syllables \o done)
<1> DEFINE p == syllables \o code
           syl == Syl(op, VReg(v), srcs)
<1>1. WellFormed(p, v)
  BY DEF Extension
<1>2. IsSequence(syllables)
  BY DEF WellFormed
<1>3. syllables \o Append(code, syl) = Append(p, syl)
  BY <1>2, ConcatAny
<1>4. IsSequence(Append(code, syl))
  BY AppendAny
<1> HIDE DEF p
<1>5. \A n \in DOMAIN srcs : ReadsWritten(srcs[n], p)
  BY DEF p
<1>6. Extension(p, Append(p, syl), v + 1) /\ v \in WrittenIn(Append(p, syl))
  BY <1>1, <1>5, PushSyl
<1>7. Extension(q, p, v)
  BY DEF p
<1>8. Extension(q, Append(p, syl), v + 1)
  BY <1>6, <1>7, ExtensionChain
<1> QED
  BY <1>3, <1>4, <1>6, <1>8, Zenon

\* One lemma per kind of instruction: its syllables read what is written and
\* write fresh registers only.
LEMMA LowerBinaryInv == CodeInv /\ LowerBinary => CodeInv'
<1> SUFFICES ASSUME CodeInv, LowerBinary
             PROVE  CodeInv'
  OBVIOUS
<1> DEFINE lhs == LowerOperand(Arg(1), next_vreg)
           rhs == LowerOperand(Arg(2), next_vreg + lhs.fresh)
           code == lhs.code \o rhs.code
           dst == next_vreg + lhs.fresh + rhs.fresh
           srcs == <<lhs.value, rhs.value>>
           done == Append(code, Syl(VliwOp(Now.op), VReg(dst), srcs))
           fresh == lhs.fresh + rhs.fresh + 1
<1>1. Lowerable(Arg(1)) /\ Lowerable(Arg(2)) /\ Produce(done, dst, fresh)
  BY Zenon DEF LowerBinary
<1>2. /\ IsSequence(code)
      /\ Extension(syllables, syllables \o code, dst)
      /\ ReadsWritten(lhs.value, syllables \o code) /\ ReadsWritten(rhs.value, syllables \o code)
  BY <1>1, TwoOperands, Zenon
<1>3. \A n \in DOMAIN srcs : ReadsWritten(srcs[n], syllables \o code)
  BY <1>2, PairReads, Zenon
<1>4. WellFormed(syllables, next_vreg)
  BY DEF CodeInv
<1>5. lhs.fresh \in Nat /\ rhs.fresh \in Nat /\ next_vreg \in Nat
  BY <1>4 DEF LowerOperand, WellFormed
<1>6. next_vreg + fresh = dst + 1
  BY <1>5
<1> HIDE DEF lhs, rhs, code, dst, srcs, fresh
<1>7. Extension(syllables, syllables \o done, dst + 1) /\ dst \in WrittenIn(syllables \o done)
  BY <1>2, <1>3, <1>4, ResultInv
<1> HIDE DEF done
<1>8. Extension(syllables, syllables \o done, next_vreg + fresh)
  BY <1>6, <1>7
<1> QED
  BY <1>1, <1>7, <1>8, ProduceInv

LEMMA LowerICmpInv == CodeInv /\ LowerICmp => CodeInv'
<1> SUFFICES ASSUME CodeInv, LowerICmp
             PROVE  CodeInv'
  OBVIOUS
<1> DEFINE lhs == LowerOperand(Arg(1), next_vreg)
           rhs == LowerOperand(Arg(2), next_vreg + lhs.fresh)
           cmp == CompareOf(Now.pred, lhs.value, rhs.value)
           parts == lhs.code \o rhs.code
           dst == next_vreg + lhs.fresh + rhs.fresh
           srcs == <<cmp[2], cmp[3]>>
           code == Append(parts, Syl(cmp[1], VReg(dst), srcs))
           negated == Append(code, Syl("pnot", VReg(dst + 1), <<VReg(dst)>>))
<1>1. /\ Lowerable(Arg(1)) /\ Lowerable(Arg(2)) /\ Now.pred \in ComparePreds
      /\ IF Now.pred = "ne" THEN Produce(negated, dst + 1, lhs.fresh + rhs.fresh + 2)
                            ELSE Produce(code, dst, lhs.fresh + rhs.fresh + 1)
  BY Zenon DEF LowerICmp
<1>2. /\ IsSequence(parts)
      /\ Extension(syllables, syllables \o parts, dst)
      /\ ReadsWritten(lhs.value, syllables \o parts) /\ ReadsWritten(rhs.value, syllables \o parts)
  BY <1>1, TwoOperands, Zenon
<1>3. WellFormed(syllables, next_vreg)
  BY DEF CodeInv
<1>4. lhs.fresh \in Nat /\ rhs.fresh \in Nat /\ next_vreg \in Nat
  BY <1>3 DEF LowerOperand, WellFormed
<1>5. /\ next_vreg + (lhs.fresh + rhs.fresh + 1) = dst + 1
      /\ next_vreg + (lhs.fresh + rhs.fresh + 2) = (dst + 1) + 1
  BY <1>4
<1> DEFINE one == lhs.fresh + rhs.fresh + 1
           two == lhs.fresh + rhs.fresh + 2
<1> HIDE DEF lhs, rhs, parts, dst, one, two
<1>6. (cmp[2] = lhs.value /\ cmp[3] = rhs.value) \/ (cmp[2] = rhs.value /\ cmp[3] = lhs.value)
  BY <1>1 DEF CompareOf, ComparePreds
<1> HIDE DEF cmp
<1>7. \A n \in DOMAIN srcs : ReadsWritten(srcs[n], syllables \o parts)
  <2>1. ReadsWritten(cmp[2], syllables \o parts) /\ ReadsWritten(cmp[3], syllables \o parts)
    BY <1>2, <1>6
  <2> QED
    BY <2>1, PairReads, Zenon
<1> HIDE DEF srcs
<1>8. /\ IsSequence(code)
      /\ Extension(syllables, syllables \o code, dst + 1)
      /\ dst \in WrittenIn(syllables \o code)
  BY <1>2, <1>3, <1>7, ResultInv
<1> HIDE DEF code
<1>9. CASE Now.pred = "ne"
  <2>1. \A n \in DOMAIN <<VReg(dst)>> : ReadsWritten(<<VReg(dst)>>[n], syllables \o code)
    <3>1. ReadsWritten(VReg(dst), syllables \o code)
      BY <1>8 DEF ReadsWritten, VReg
    <3> QED
      BY <3>1
  <2>2. /\ Extension(syllables, syllables \o negated, (dst + 1) + 1)
        /\ dst + 1 \in WrittenIn(syllables \o negated)
    BY <1>3, <1>8, <2>1, ResultInv
  <2> HIDE DEF negated
  <2>3. Extension(syllables, syllables \o negated, next_vreg + two) /\ Produce(negated, dst + 1, two)
    BY <1>1, <1>5, <1>9, <2>2 DEF two
  <2> QED
    BY <2>2, <2>3, ProduceInv
<1>10. CASE Now.pred # "ne"
  <2>1. Extension(syllables, syllables \o code, next_vreg + one) /\ Produce(code, dst, one)
    BY <1>1, <1>5, <1>8, <1>10 DEF one
  <2> QED
    BY <1>8, <2>1, ProduceInv
<1> QED
  BY <1>9, <1>10

\* The operands of an address, and those of a store.
LEMMA AddressReads ==
  ASSUME NEW p, NEW value, NEW q, ReadsWritten(p[1], q), ReadsWritten(value, q)
  PROVE  /\ \A n \in DOMAIN Address(p) : ReadsWritten(Address(p)[n], q)
         /\ \A n \in DOMAIN Append(Address(p), value) : ReadsWritten(Append(Address(p), value)[n], q)
<1> DEFINE ad == Address(p)
<1>1. IsSequence(ad) /\ \A n \in DOMAIN ad : ReadsWritten(ad[n], q)
  <2>1. CASE p[2] = 0
    <3> DEFINE x == p[1]
    <3>1. ad = <<x>>
      BY <2>1 DEF Address
    <3>2. ReadsWritten(x, q)
      OBVIOUS
    <3> HIDE DEF x
    <3>3. \A n \in DOMAIN <<x>> : ReadsWritten(<<x>>[n], q)
      BY <3>2
    <3>4. IsSequence(<<x>>)
      BY ShortSequences, Zenon
    <3> QED
      BY <3>1, <3>3, <3>4, Zenon
  <2>2. CASE p[2] # 0
    <3>1. ad = <<p[1], Imm(p[2])>>
      BY <2>2 DEF Address
    <3>2. ReadsWritten(Imm(p[2]), q)
      BY DEF ReadsWritten, Imm
    <3>3. \A n \in DOMAIN <<p[1], Imm(p[2])>> : ReadsWritten(<<p[1], Imm(p[2])>>[n], q)
      BY <3>2, PairReads, Zenon
    <3>4. IsSequence(<<p[1], Imm(p[2])>>)
      BY ShortSequences, Zenon
    <3> QED
      BY <3>1, <3>3, <3>4, Zenon
  <2> QED
    BY <2>1, <2>2
<1> HIDE DEF ad
<1>2. \A n \in DOMAIN Append(ad, value) : ReadsWritten(Append(ad, value)[n], q)
  <2> DEFINE r == Append(ad, value)
  <2>1. /\ IsSequence(r) /\ Len(r) = Len(ad) + 1
        /\ \A n \in 1 .. Len(ad) : r[n] = ad[n]
        /\ r[Len(ad) + 1] = value
    BY <1>1, AppendAny
  <2> HIDE DEF r
  <2>2. \A n \in DOMAIN r : n \in DOMAIN ad \/ n = Len(ad) + 1
    BY <1>1, <2>1 DEF IsSequence
  <2>3. DOMAIN ad = 1 .. Len(ad)
    BY <1>1 DEF IsSequence
  <2>4. \A n \in DOMAIN r : ReadsWritten(r[n], q)
    BY <1>1, <2>1, <2>2, <2>3
  <2> QED
    BY <2>4 DEF r
<1> QED
  BY <1>1, <1>2 DEF ad

LEMMA LowerStoreInv == CodeInv /\ LowerStore => CodeInv'
<1> SUFFICES ASSUME CodeInv, LowerStore
             PROVE  CodeInv'
  OBVIOUS
<1> DEFINE data == LowerOperand(Arg(1), next_vreg)
           q == syllables \o data.code
<1>1. /\ Lowerable(Arg(1)) /\ UNCHANGED <<vreg_map, gep_map>>
      /\ \E p \in PtrOperands(Arg(2)) :
           /\ syllables' = Append(q, Syl(StoreOp(Arg(1).ty), NoReg, Append(Address(p), data.value)))
           /\ next_vreg' = next_vreg + data.fresh
  BY Zenon DEF LowerStore
<1>2. PICK p \in PtrOperands(Arg(2)) :
        /\ syllables' = Append(q, Syl(StoreOp(Arg(1).ty), NoReg, Append(Address(p), data.value)))
        /\ next_vreg' = next_vreg + data.fresh
  BY <1>1
<1>3. WellFormed(syllables, next_vreg)
  BY DEF CodeInv
<1>4. Extension(syllables, q, next_vreg + data.fresh) /\ ReadsWritten(data.value, q)
  BY <1>1, <1>3, OperandCode, Zenon DEF CodeInv, MapsWritten
<1>5. data.fresh \in Nat /\ next_vreg \in Nat
  BY <1>3 DEF LowerOperand, WellFormed
<1> HIDE DEF data, q
<1>6. ReadsWritten(p[1], syllables)
  BY PtrWritten
<1>7. ReadsWritten(p[1], q)
  BY <1>4, <1>6 DEF ReadsWritten, Extension
<1> DEFINE srcs == Append(Address(p), data.value)
           v == next_vreg + data.fresh
           syl == Syl(StoreOp(Arg(1).ty), NoReg, srcs)
<1>8. \A n \in DOMAIN srcs : ReadsWritten(srcs[n], q)
  BY <1>4, <1>7, AddressReads
<1>9. v + 0 = v /\ WellFormed(q, v) /\ Extension(syllables, q, v)
  BY <1>4, <1>5 DEF Extension
<1>10. NoReg.kind # "VReg"
  BY DEF NoReg
<1>11. syllables' = Append(q, syl) /\ next_vreg' = v
  BY <1>2
<1> HIDE DEF srcs, v
<1>12. Extension(q, Append(q, syl), v + 0)
  BY <1>8, <1>9, <1>10, PushSyl
<1> HIDE DEF syl
<1>13. Extension(syllables, Append(q, syl), v)
  BY <1>9, <1>12, ExtensionChain
<1> QED
  BY <1>1, <1>11, <1>13, MapsKept

LEMMA LowerLoadInv == CodeInv /\ LowerLoad => CodeInv'
<1> SUFFICES ASSUME CodeInv, LowerLoad
             PROVE  CodeInv'
  OBVIOUS
<1>1. PICK p \in PtrOperands(Arg(1)) :
        Produce(<<Syl(LoadOp(Now.ty), VReg(next_vreg), Address(p))>>, next_vreg, 1)
  BY DEF LowerLoad
<1>2. ReadsWritten(p[1], syllables)
  BY PtrWritten
<1> DEFINE srcs == Address(p)
           syl == Syl(LoadOp(Now.ty), VReg(next_vreg), srcs)
<1>3. \A n \in DOMAIN srcs : ReadsWritten(srcs[n], syllables)
  BY <1>2, AddressReads
<1>4. WellFormed(syllables, next_vreg)
  BY DEF CodeInv
<1> HIDE DEF srcs
<1>5. /\ Extension(syllables, Append(syllables, syl), next_vreg + 1)
      /\ next_vreg \in WrittenIn(Append(syllables, syl))
  BY <1>3, <1>4, PushSyl
<1>6. Produce(<<syl>>, next_vreg, 1)
  BY <1>1 DEF srcs
<1> HIDE DEF syl
<1>7. syllables \o <<syl>> = Append(syllables, syl)
  BY <1>4, ConcatShort DEF WellFormed
<1> QED
  BY <1>5, <1>6, <1>7, ProduceInv

LEMMA LowerGepInv == CodeInv /\ LowerGep => CodeInv'
<1> SUFFICES ASSUME CodeInv, LowerGep
             PROVE  CodeInv'
  OBVIOUS
<1>1. UNCHANGED <<vreg_map, next_vreg, syllables>>
  BY DEF LowerGep
<1>2. PICK p \in PtrOperands(Arg(1)) : gep_map' = With(gep_map, i, <<p[1], GepOffset(p)>>)
  BY DEF LowerGep
<1>3. ReadsWritten(p[1], syllables)
  BY PtrWritten
<1>4. \A j \in DOMAIN gep_map' :
        gep_map'[j][1] = p[1] \/ (j \in DOMAIN gep_map /\ gep_map'[j] = gep_map[j])
  BY <1>2 DEF With
<1>5. \A j \in DOMAIN gep_map' :
        gep_map'[j][1].kind = "VReg" => gep_map'[j][1].n \in WrittenIn(syllables)
  BY <1>3, <1>4 DEF CodeInv, MapsWritten, ReadsWritten
<1> QED
  BY <1>1, <1>5 DEF CodeInv, MapsWritten

LEMMA LowerReturnInv == CodeInv /\ LowerReturn => CodeInv'
<1> SUFFICES ASSUME CodeInv, LowerReturn
             PROVE  CodeInv'
  OBVIOUS
<1>1. UNCHANGED <<vreg_map, gep_map>> /\ next_vreg' = next_vreg
  BY DEF LowerReturn
<1>2. WellFormed(syllables, next_vreg) /\ next_vreg + 0 = next_vreg
  BY DEF CodeInv, WellFormed
<1>3. CASE syllables' = syllables
  BY <1>1, <1>3 DEF CodeInv, MapsWritten
<1>4. ASSUME NEW op, NEW x, ReadsWritten(x, syllables),
             syllables' = Append(syllables, Syl(op, PReg(RetvalReg), <<x>>))
      PROVE  CodeInv'
  <2>1. PReg(RetvalReg).kind # "VReg"
    BY DEF PReg
  <2>2. \A n \in DOMAIN <<x>> : ReadsWritten(<<x>>[n], syllables)
    BY <1>4
  <2>3. Extension(syllables, syllables', next_vreg + 0)
    BY <1>2, <1>4, <2>1, <2>2, PushSyl
  <2>4. Extension(syllables, syllables', next_vreg')
    BY <1>1, <1>2, <2>3
  <2> QED
    BY <1>1, <2>4, MapsKept
<1> DEFINE c == Imm(SignExtend(Arg(1).n, Bits(Arg(1).ty)))
           w == VReg(vreg_map[Arg(1).n])
<1>5. \/ syllables' = syllables
      \/ syllables' = Append(syllables, Syl("movi", PReg(RetvalReg), <<c>>))
      \/ /\ Arg(1).kind # "const" /\ Lowerable(Arg(1))
         /\ syllables' = Append(syllables, Syl("mov", PReg(RetvalReg), <<w>>))
  BY DEF LowerReturn
<1>6. ReadsWritten(c, syllables)
  BY DEF ReadsWritten, Imm
<1>7. ASSUME Arg(1).kind # "const", Lowerable(Arg(1))
      PROVE  ReadsWritten(w, syllables)
  BY <1>7 DEF Lowerable, CodeInv, MapsWritten, ReadsWritten, VReg
<1> HIDE DEF c, w
<1> QED
  BY <1>3, <1>4, <1>5, <1>6, <1>7

\* The inductive invariant of single assignment.
LEMMA CodeInvInit == Init => CodeInv
<1> SUFFICES ASSUME Init
             PROVE  CodeInv
  OBVIOUS
<1>1. syllables = <<>> /\ next_vreg = 1 /\ vreg_map = [j \in {Param} |-> 0] /\ gep_map = <<>>
  BY DEF Init
<1>2. DOMAIN syllables = {} /\ DOMAIN gep_map = {} /\ DOMAIN vreg_map = {Param}
  BY <1>1
<1>3. WrittenIn(syllables) = {0}
  BY <1>2 DEF WrittenIn
<1>4. IsSequence(syllables)
  BY <1>1, ShortSequences
<1>5. AssignsOnce(syllables)
  BY <1>2 DEF AssignsOnce
<1>6. WellFormed(syllables, next_vreg)
  BY <1>1, <1>3, <1>4, <1>5 DEF WellFormed
<1> QED
  BY <1>1, <1>2, <1>3, <1>6 DEF CodeInv, MapsWritten

\* Every step of lower_function keeps the code in single assignment form.
LEMMA CodeInvNext == CodeInv /\ [Next]_vars => CodeInv'
<1> SUFFICES ASSUME CodeInv, [Next]_vars
             PROVE  CodeInv'
  OBVIOUS
<1>1. CASE UNCHANGED <<vreg_map, gep_map, next_vreg, syllables>>
  BY <1>1 DEF CodeInv, MapsWritten
<1>2. CheckModule \/ Panic \/ NotImplemented \/ Finish \/ Terminated \/ UNCHANGED vars
        => UNCHANGED <<vreg_map, gep_map, next_vreg, syllables>>
  BY DEF CheckModule, Panic, NotImplemented, Finish, Terminated, Goto, vars
<1> QED
  BY <1>1, <1>2, LowerBinaryInv, LowerICmpInv, LowerStoreInv, LowerLoadInv, LowerGepInv,
     LowerReturnInv, Zenon DEF Next

\* The code instruction selection gives a block is in single assignment form:
\* no virtual register is written twice and none is read before it is written
\* (next_vreg, vreg_map and gep_map of isel.rs), for every body and every
\* number of instructions.
THEOREM IselSingleAssignment == Spec => []SingleAssignment
<1>1. CodeInv => SingleAssignment
  BY DEF CodeInv, WellFormed, AssignsOnce, SingleAssignment
<1> QED
  BY <1>1, CodeInvInit, CodeInvNext, PTL DEF Spec
-----------------------------------------------------------------------------
(***************************************************************************)
(* The lookups of operands.                                                *)
(***************************************************************************)

\* The results of the instructions lowered so far have their registers, and a
\* panic is at an operand that is no integer.
LookupInv ==
  /\ body \in Bodies
  /\ i \in Nat \ {0}
  /\ \A j \in 1 .. (i - 1) : body[j].ty \in IntTypes => j \in DOMAIN vreg_map
  /\ PanicOnlyUnchecked

\* An integer operand can be lowered.
LEMMA IntegerLowerable ==
  ASSUME LookupInv, i <= Len(body), NEW a \in DOMAIN Now.args, Arg(a).ty \in IntTypes
  PROVE  Lowerable(Arg(a))
<1>1. i \in DOMAIN body
  BY BodiesAssumption DEF LookupInv
<1>2. \/ Arg(a).kind = "const"
      \/ /\ Arg(a).kind = "ref" /\ Arg(a).n \in 1 .. (i - 1)
         /\ body[Arg(a).n].ty = Arg(a).ty
  BY <1>1, BodiesAssumption DEF LookupInv, Arg, Now
<1>3. Arg(a).kind = "const" \/ (Arg(a).kind = "ref" /\ Arg(a).n \in DOMAIN vreg_map)
  BY <1>2 DEF LookupInv
<1> QED
  BY <1>3, Zenon DEF Lowerable

\* The operands lower_operand is called with are operands.
LEMMA IntegerArgsAreArgs ==
  ASSUME LookupInv, i <= Len(body)
  PROVE  IntegerArgs \subseteq DOMAIN Now.args
<1>1. i \in DOMAIN body
  BY BodiesAssumption DEF LookupInv
<1>2. Now.op \in BinaryOps \cup {"icmp", "store"} => DOMAIN Now.args = 1 .. 2
  BY <1>1, BodiesAssumption DEF LookupInv, Now
<1>3. 1 .. 2 = {1, 2}
  OBVIOUS
<1> QED
  BY <1>2, <1>3 DEF IntegerArgs

\* The next instruction has its result in the map, or none that is an integer.
LEMMA LookupStep ==
  ASSUME LookupInv, i' = i + 1, body' = body, phase' = phase, phase = "lower",
         DOMAIN vreg_map \subseteq DOMAIN vreg_map',
         body[i].ty \in IntTypes => i \in DOMAIN vreg_map'
  PROVE  LookupInv'
<1>1. \A j \in 1 .. (i' - 1) : j \in 1 .. (i - 1) \/ j = i
  BY DEF LookupInv
<1>2. \A j \in 1 .. (i' - 1) : body[j].ty \in IntTypes => j \in DOMAIN vreg_map'
  BY <1>1 DEF LookupInv
<1>3. i' \in Nat \ {0}
  BY DEF LookupInv
<1>4. PanicOnlyUnchecked'
  BY DEF PanicOnlyUnchecked
<1> QED
  BY <1>2, <1>3, <1>4 DEF LookupInv

\* An instruction with a result enters it in vreg_map.
LEMMA ProduceLookup ==
  ASSUME LookupInv, phase = "lower", NEW code, NEW v, NEW fresh, Produce(code, v, fresh)
  PROVE  LookupInv'
<1>1. DOMAIN vreg_map' = DOMAIN vreg_map \cup {i}
  BY DEF Produce, With
<1>2. i' = i + 1 /\ body' = body /\ phase' = phase
  BY DEF Produce
<1> QED
  BY <1>1, <1>2, LookupStep

\* Every step keeps the results entered, so that lookups succeed.
LEMMA LookupNext == LookupInv /\ [Next]_vars => LookupInv'
<1> SUFFICES ASSUME LookupInv, [Next]_vars
             PROVE  LookupInv'
  OBVIOUS
<1>1. CASE LowerBinary
  <2>1. phase = "lower" /\ \E code, v, fresh : Produce(code, v, fresh)
    BY <1>1, Zenon DEF LowerBinary, Lowering
  <2> QED
    BY <2>1, ProduceLookup
<1>2. CASE LowerICmp
  <2>1. phase = "lower" /\ \E code, v, fresh : Produce(code, v, fresh)
    BY <1>2, Zenon DEF LowerICmp, Lowering
  <2> QED
    BY <2>1, ProduceLookup
<1>3. CASE LowerLoad
  <2>1. phase = "lower" /\ \E code, v, fresh : Produce(code, v, fresh)
    BY <1>3, Zenon DEF LowerLoad, Lowering
  <2> QED
    BY <2>1, ProduceLookup
<1>4. CASE LowerStore \/ LowerGep \/ LowerReturn
  <2>1. /\ phase = "lower" /\ i <= Len(body)
        /\ Now.op \in {"store", "getelementptr", "ret"}
        /\ i' = i + 1 /\ body' = body /\ phase' = phase /\ vreg_map' = vreg_map
    BY <1>4 DEF LowerStore, LowerGep, LowerReturn, Lowering
  <2>2. i \in DOMAIN body
    BY <2>1, BodiesAssumption DEF LookupInv
  <2>3. body[i].ty \notin IntTypes
    BY <2>1, <2>2, BodiesAssumption DEF LookupInv, Now
  <2> QED
    BY <2>1, <2>3, LookupStep
<1>5. CASE Panic
  <2>1. PICK a \in IntegerArgs : ~Lowerable(Arg(a))
    BY <1>5 DEF Panic
  <2>2. i <= Len(body) /\ UNCHANGED <<body, i, vreg_map>>
    BY <1>5 DEF Panic, Goto
  <2>3. Arg(a).ty \notin IntTypes
    BY <2>1, <2>2, IntegerLowerable, IntegerArgsAreArgs
  <2>4. PanicOnlyUnchecked'
    BY <2>2, <2>3 DEF PanicOnlyUnchecked, IntegerArgs, Arg, Now
  <2> QED
    BY <2>2, <2>4 DEF LookupInv
<1>6. CASE CheckModule \/ NotImplemented \/ Finish
  <2>1. UNCHANGED <<body, i, vreg_map>> /\ phase' # "panic"
    BY <1>6 DEF CheckModule, NotImplemented, Finish, Goto
  <2> QED
    BY <2>1 DEF LookupInv, PanicOnlyUnchecked
<1>7. CASE Terminated \/ UNCHANGED vars
  BY <1>7 DEF Terminated, vars, LookupInv, PanicOnlyUnchecked, IntegerArgs, Arg, Now
<1> QED
  BY <1>1, <1>2, <1>3, <1>4, <1>5, <1>6, <1>7 DEF Next

\* lower_operand finds the register of every integer operand ("VReg not found;
\* value used before definition" is never the reason for a panic): a panic comes
\* from an operand whose type the subset check does not look at, for every body
\* that LLVM's verifier accepts.
THEOREM IselPanicOnlyUnchecked == Spec => []PanicOnlyUnchecked
<1>1. Init => LookupInv
  <2> SUFFICES ASSUME Init
               PROVE  LookupInv
    OBVIOUS
  <2>1. body \in Bodies /\ i = 1 /\ phase = "check"
    BY DEF Init
  <2>2. \A j \in 1 .. (i - 1) : FALSE
    BY <2>1
  <2> QED
    BY <2>1, <2>2 DEF LookupInv, PanicOnlyUnchecked
<1>2. LookupInv => PanicOnlyUnchecked
  BY DEF LookupInv
<1> QED
  BY <1>1, <1>2, LookupNext, PTL DEF Spec
=============================================================================
