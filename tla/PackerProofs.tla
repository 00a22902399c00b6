---------------------------- MODULE PackerProofs ----------------------------
(***************************************************************************)
(* Theorems about CodegenCtx, pack_scalar_program and verify_program of    *)
(* lib.rs, for every program, every processor and every schedule.          *)
(***************************************************************************)
EXTENDS Packer, FiniteSetTheorems, SequenceTheorems, WellFoundedInduction, TLAPS

(***************************************************************************)
(* Sequences of anything.  Syllables carry operands and ids that no set    *)
(* given beforehand contains.                                              *)
(***************************************************************************)
IsSequence(s) ==
  Len(s) \in Nat /\ DOMAIN s = 1 .. Len(s) /\ s = [i \in 1 .. Len(s) |-> s[i]]

Values(s) == {s[i] : i \in DOMAIN s}

LEMMA InSeqOfValues ==
  ASSUME NEW s, IsSequence(s), NEW S, Values(s) \subseteq S
  PROVE  s \in Seq(S)
<1>1. s \in [1 .. Len(s) -> S]
  BY DEF IsSequence, Values
<1> QED
  BY <1>1, SeqDef DEF IsSequence

LEMMA SeqIsSequence ==
  ASSUME NEW S, NEW s \in Seq(S)
  PROVE  IsSequence(s)
<1>1. Len(s) \in Nat /\ DOMAIN s = 1 .. Len(s) /\ s \in [1 .. Len(s) -> S]
  BY LenProperties
<1> QED
  BY <1>1 DEF IsSequence

LEMMA EmptyAny == IsSequence(<<>>) /\ Len(<<>>) = 0
  BY DEF IsSequence

LEMMA TabulateAny ==
  ASSUME NEW n \in Nat, NEW s, s = [i \in 1 .. n |-> s[i]]
  PROVE  IsSequence(s) /\ Len(s) = n
<1>1. s \in [1 .. n -> Values(s)]
  BY DEF Values
<1>2. s \in Seq(Values(s)) /\ DOMAIN s = 1 .. n
  BY <1>1, SeqDef
<1> QED
  BY <1>2, SeqIsSequence, LenProperties

LEMMA AppendAny ==
  ASSUME NEW s, IsSequence(s), NEW x
  PROVE  /\ IsSequence(Append(s, x))
         /\ Len(Append(s, x)) = Len(s) + 1
         /\ DOMAIN Append(s, x) = 1 .. (Len(s) + 1)
         /\ \A i \in 1 .. Len(s) : Append(s, x)[i] = s[i]
         /\ Append(s, x)[Len(s) + 1] = x
<1> DEFINE S == Values(s) \cup {x}
<1>1. s \in Seq(S) /\ x \in S
  BY InSeqOfValues
<1> HIDE DEF S
<1>2. /\ Append(s, x) \in Seq(S)
      /\ Len(Append(s, x)) = Len(s) + 1
      /\ \A i \in 1 .. Len(s) : Append(s, x)[i] = s[i]
      /\ Append(s, x)[Len(s) + 1] = x
  BY <1>1, AppendProperties
<1>3. IsSequence(Append(s, x)) /\ DOMAIN Append(s, x) = 1 .. (Len(s) + 1)
  BY <1>2, SeqIsSequence, LenProperties
<1> QED
  BY <1>2, <1>3

\* c is s with t behind it.
Joins(c, s, t) ==
  /\ IsSequence(c)
  /\ Len(c) = Len(s) + Len(t)
  /\ \A i \in 1 .. Len(s) : c[i] = s[i]
  /\ \A i \in 1 .. Len(t) : c[Len(s) + i] = t[i]

LEMMA ConcatAny ==
  ASSUME NEW s, IsSequence(s), NEW t, IsSequence(t)
  PROVE  Joins(s \o t, s, t)
<1> DEFINE S == Values(s) \cup Values(t)
           c == s \o t
<1>1. s \in Seq(S) /\ t \in Seq(S)
  BY InSeqOfValues
<1>2. Len(s) \in Nat /\ Len(t) \in Nat
  BY DEF IsSequence
<1> HIDE DEF S
<1>3. /\ c \in Seq(S) /\ Len(c) = Len(s) + Len(t)
      /\ \A i \in 1 .. Len(s) + Len(t) :
           c[i] = IF i <= Len(s) THEN s[i] ELSE t[i - Len(s)]
  BY <1>1, ConcatProperties
<1>4. IsSequence(c)
  BY <1>3, SeqIsSequence
<1> HIDE DEF c
<1>5. \A i \in 1 .. Len(s) : c[i] = s[i]
  BY <1>2, <1>3
<1>6. ASSUME NEW i \in 1 .. Len(t) PROVE c[Len(s) + i] = t[i]
  <2>1. /\ Len(s) + i \in 1 .. Len(s) + Len(t)
        /\ ~(Len(s) + i <= Len(s))
        /\ Len(s) + i - Len(s) = i
    BY <1>2
  <2> QED
    BY <1>3, <2>1
<1> QED
  BY <1>3, <1>4, <1>5, <1>6 DEF c, Joins

LEMMA EqualAny ==
  ASSUME NEW s, IsSequence(s), NEW t, IsSequence(t), Len(s) = Len(t),
         \A i \in 1 .. Len(s) : s[i] = t[i]
  PROVE  s = t
  BY DEF IsSequence

LEMMA ConcatEmptyAny ==
  ASSUME NEW s, IsSequence(s) PROVE s \o <<>> = s
<1>1. s \in Seq(Values(s))
  BY InSeqOfValues
<1> QED
  BY <1>1, ConcatEmptySeq

\* (s \o t) with one more, twice.
LEMMA ConcatAppendAny ==
  ASSUME NEW s, IsSequence(s), NEW t, IsSequence(t), NEW x
  PROVE  s \o Append(t, x) = Append(s \o t, x)
<1> DEFINE S == Values(s) \cup Values(t) \cup {x}
<1>1. s \in Seq(S) /\ t \in Seq(S) /\ x \in S
  BY InSeqOfValues
<1> HIDE DEF S
<1>2. Append(t, x) = t \o <<x>> /\ Append(s \o t, x) = (s \o t) \o <<x>>
  BY <1>1, AppendIsConcat, ConcatProperties
<1>3. <<x>> \in Seq(S)
  BY <1>1
<1>4. s \o (t \o <<x>>) = (s \o t) \o <<x>>
  BY <1>1, <1>3, ConcatAssociative
<1> QED
  BY <1>2, <1>4

LEMMA ConcatAssocAny ==
  ASSUME NEW s, IsSequence(s), NEW t, IsSequence(t), NEW u, IsSequence(u)
  PROVE  s \o (t \o u) = (s \o t) \o u
<1> DEFINE S == Values(s) \cup Values(t) \cup Values(u)
<1>1. s \in Seq(S) /\ t \in Seq(S) /\ u \in Seq(S)
  BY InSeqOfValues
<1> HIDE DEF S
<1> QED
  BY <1>1, ConcatAssociative

\* The elements up to place n, and one more.
LEMMA PrefixAny ==
  ASSUME NEW s, IsSequence(s), NEW n \in 0 .. Len(s)
  PROVE  /\ IsSequence(SubSeq(s, 1, n)) /\ Len(SubSeq(s, 1, n)) = n
         /\ \A i \in 1 .. n : SubSeq(s, 1, n)[i] = s[i]
<1> DEFINE S == Values(s)
           u == SubSeq(s, 1, n)
<1>1. s \in Seq(S) /\ Len(s) \in Nat
  BY InSeqOfValues DEF IsSequence
<1> HIDE DEF S
<1>2. 1 \in 1 .. Len(s) + 1 /\ n \in 1 - 1 .. Len(s)
  BY <1>1
<1>3. u \in Seq(S) /\ Len(u) = n /\ \A i \in 1 .. n : u[i] = s[i]
  <2>1. /\ u \in Seq(S)
        /\ Len(u) = IF 1 <= n THEN n - 1 + 1 ELSE 0
        /\ \A i \in 1 .. n - 1 + 1 : u[i] = s[1 + i - 1]
    BY <1>1, <1>2, SubSeqProperties
  <2> HIDE DEF u
  <2>2. Len(u) = n
    BY <1>1, <2>1
  <2>3. \A i \in 1 .. n : i \in 1 .. n - 1 + 1 /\ 1 + i - 1 = i
    BY <1>1
  <2> QED
    BY <2>1, <2>2, <2>3
<1> QED
  BY <1>3, SeqIsSequence

LEMMA PrefixStepAny ==
  ASSUME NEW s, IsSequence(s), NEW n \in 0 .. Len(s), n < Len(s)
  PROVE  SubSeq(s, 1, n + 1) = Append(SubSeq(s, 1, n), s[n + 1])
<1> DEFINE u == SubSeq(s, 1, n)
           v == SubSeq(s, 1, n + 1)
<1>1. Len(s) \in Nat /\ n + 1 \in 0 .. Len(s)
  BY DEF IsSequence
<1>2. IsSequence(u) /\ Len(u) = n /\ \A i \in 1 .. n : u[i] = s[i]
  BY PrefixAny
<1>3. IsSequence(v) /\ Len(v) = n + 1 /\ \A i \in 1 .. (n + 1) : v[i] = s[i]
  BY <1>1, PrefixAny
<1> HIDE DEF u, v
<1> DEFINE w == Append(u, s[n + 1])
<1>4. /\ IsSequence(w) /\ Len(w) = n + 1
      /\ \A i \in 1 .. n : w[i] = u[i]
      /\ w[n + 1] = s[n + 1]
  BY <1>2, AppendAny
<1> HIDE DEF w
<1>5. \A i \in 1 .. (n + 1) : v[i] = w[i]
  BY <1>1, <1>2, <1>3, <1>4
<1>6. v = w
  BY <1>3, <1>4, <1>5, EqualAny
<1> QED
  BY <1>6 DEF u, v, w

LEMMA PrefixFullAny ==
  ASSUME NEW s, IsSequence(s) PROVE SubSeq(s, 1, Len(s)) = s
<1>1. Len(s) \in 0 .. Len(s)
  BY DEF IsSequence
<1> DEFINE u == SubSeq(s, 1, Len(s))
<1>2. IsSequence(u) /\ Len(u) = Len(s) /\ \A i \in 1 .. Len(s) : u[i] = s[i]
  BY <1>1, PrefixAny
<1> HIDE DEF u
<1>3. u = s
  BY <1>2, EqualAny
<1> QED
  BY <1>3 DEF u

\* The last element and those before it.
LEMMA FrontAny ==
  ASSUME NEW s, IsSequence(s), s # <<>>
  PROVE  /\ IsSequence(Front(s)) /\ Len(s) \in Nat \ {0} /\ Len(Front(s)) = Len(s) - 1
         /\ s = Append(Front(s), s[Len(s)])
<1>1. Len(s) \in Nat \ {0}
  BY DEF IsSequence
<1>2. Len(s) - 1 \in 0 .. Len(s) /\ Len(s) - 1 < Len(s) /\ Len(s) - 1 + 1 = Len(s)
  BY <1>1
<1>3. SubSeq(s, 1, Len(s)) = Append(SubSeq(s, 1, Len(s) - 1), s[Len(s)])
  BY <1>2, PrefixStepAny
<1> QED
  BY <1>1, <1>2, <1>3, PrefixAny, PrefixFullAny DEF Front
-----------------------------------------------------------------------------
(***************************************************************************)
(* Min and Max.                                                            *)
(***************************************************************************)
LEMMA LeastElement ==
  ASSUME NEW T \in SUBSET Nat, T # {}
  PROVE  \E x \in T : \A y \in T : x <= y
<1> DEFINE Less == {pair \in Nat \X Nat : pair[1] < pair[2]}
<1>1. IsWellFoundedOn(Less, Nat)
  BY NatLessThanWellFounded DEF OpToRel
<1>2. PICK x \in T : \A y \in T : <<y, x>> \notin Less
  <2> HIDE DEF Less
  <2> QED
    BY <1>1, WFMin
<1>3. ASSUME NEW y \in T PROVE x <= y
  <2>1. x \in Nat /\ y \in Nat /\ (y < x => <<y, x>> \in Less)
    OBVIOUS
  <2> QED
    BY <1>2, <2>1
<1> QED
  BY <1>3

\* A nonempty set of numbers has a least element, which Min returns.
LEMMA MinOf ==
  ASSUME NEW T \in SUBSET Nat, T # {}
  PROVE  Min(T) \in T /\ \A y \in T : Min(T) <= y
<1>1. \E x \in T : \A y \in T : x <= y
  BY LeastElement
<1> QED
  BY <1>1 DEF Min

\* A nonempty bounded set of numbers has a greatest, which Max returns.
LEMMA MaxOf ==
  ASSUME NEW B \in Nat, NEW T \in SUBSET (0 .. B), T # {}
  PROVE  Max(T) \in T /\ \A y \in T : y <= Max(T)
<1> DEFINE U == {B - y : y \in T}
<1>1. U \in SUBSET Nat /\ U # {}
  <2>1. \A y \in T : B - y \in Nat
    OBVIOUS
  <2>2. PICK y : y \in T
    OBVIOUS
  <2>3. B - y \in U
    BY <2>2
  <2> QED
    BY <2>1, <2>3
<1>2. PICK u \in U : \A w \in U : u <= w
  <2> HIDE DEF U
  <2> QED
    BY <1>1, LeastElement
<1>3. PICK x \in T : u = B - x
  OBVIOUS
<1>4. ASSUME NEW y \in T PROVE x >= y
  <2>1. B - x <= B - y
    BY <1>2, <1>3
  <2>2. x \in Nat /\ y \in Nat
    OBVIOUS
  <2> QED
    BY <2>1, <2>2
<1>5. \E z \in T : \A y \in T : z >= y
  BY <1>4
<1>6. Max(T) \in T /\ \A y \in T : Max(T) >= y
  BY <1>5 DEF Max
<1> QED
  BY <1>6
-----------------------------------------------------------------------------
(***************************************************************************)
(* Ready tables whose entries are cycles up to B.                          *)
(***************************************************************************)
Bounded(rdy, B) == \A k \in DOMAIN rdy : rdy[k] \in 0 .. B

LEMMA LatencyNat == \A op : Latency(op) \in 0 .. 6
  BY DEF Latency

\* syllable_required_cycle is no later than the table reaches and no earlier
\* than any operand.
LEMMA RequiredBounded ==
  ASSUME NEW B \in Nat, NEW rdy, Bounded(rdy, B), NEW syl
  PROVE  /\ RequiredCycle(rdy, syl) \in 0 .. B
         /\ \A k \in ReadKeys(syl) : ReadyAt(rdy, k) <= RequiredCycle(rdy, syl)
<1> DEFINE T == {0} \cup {ReadyAt(rdy, k) : k \in ReadKeys(syl)}
<1>1. T \in SUBSET (0 .. B) /\ T # {}
  BY DEF Bounded, ReadyAt
<1>2. Max(T) \in T /\ \A y \in T : y <= Max(T)
  <2> HIDE DEF T
  <2> QED
    BY <1>1, MaxOf
<1>3. RequiredCycle(rdy, syl) = Max(T)
  BY DEF RequiredCycle
<1> QED
  BY <1>1, <1>2, <1>3

LEMMA BundleRequiredBounded ==
  ASSUME NEW B \in Nat, NEW rdy, Bounded(rdy, B), NEW bundle
  PROVE  /\ BundleRequiredCycle(rdy, bundle) \in 0 .. B
         /\ \A s \in DOMAIN bundle : \A k \in ReadKeys(bundle[s]) :
              ReadyAt(rdy, k) <= BundleRequiredCycle(rdy, bundle)
<1> DEFINE T == {0} \cup {RequiredCycle(rdy, bundle[s]) : s \in DOMAIN bundle}
<1>1. T \in SUBSET (0 .. B) /\ T # {}
  BY RequiredBounded
<1>2. Max(T) \in T /\ \A y \in T : y <= Max(T)
  <2> HIDE DEF T
  <2> QED
    BY <1>1, MaxOf
<1>3. BundleRequiredCycle(rdy, bundle) = Max(T)
  BY DEF BundleRequiredCycle
<1>4. ASSUME NEW s \in DOMAIN bundle, NEW k \in ReadKeys(bundle[s])
      PROVE  ReadyAt(rdy, k) <= Max(T)
  <2>1. /\ ReadyAt(rdy, k) <= RequiredCycle(rdy, bundle[s])
        /\ RequiredCycle(rdy, bundle[s]) \in 0 .. B
    BY RequiredBounded
  <2>2. RequiredCycle(rdy, bundle[s]) <= Max(T)
    BY <1>2
  <2>3. ReadyAt(rdy, k) \in 0 .. B
    BY DEF Bounded, ReadyAt
  <2>4. Max(T) \in 0 .. B
    BY <1>1, <1>2
  <2> HIDE DEF T
  <2> QED
    BY <2>1, <2>2, <2>3, <2>4
<1> QED
  BY <1>1, <1>2, <1>3, <1>4

\* update_ready_after_bundle.
LEMMA AfterBundleBounded ==
  ASSUME NEW B \in Nat, NEW rdy, Bounded(rdy, B), NEW bundle, NEW c \in Nat, c + 6 <= B
  PROVE  Bounded(ReadyAfterBundle(rdy, bundle, c), B)
<1> DEFINE writers(k) == {s \in DOMAIN bundle : k \in PendingKeys(bundle[s])}
           after == ReadyAfterBundle(rdy, bundle, c)
<1>1. after = [k \in DOMAIN rdy \cup BundlePendingKeys(bundle) |->
                IF writers(k) = {} THEN rdy[k] ELSE c + Latency(bundle[Max(writers(k))].opcode)]
  BY DEF ReadyAfterBundle
<1>2. ASSUME NEW k \in DOMAIN rdy \cup BundlePendingKeys(bundle)
      PROVE  (IF writers(k) = {} THEN rdy[k] ELSE c + Latency(bundle[Max(writers(k))].opcode)) \in 0 .. B
  <2>1. CASE writers(k) = {}
    <3>1. k \in DOMAIN rdy
      BY <2>1 DEF BundlePendingKeys
    <3> QED
      BY <2>1, <3>1 DEF Bounded
  <2>2. CASE writers(k) # {}
    <3>1. Latency(bundle[Max(writers(k))].opcode) \in 0 .. 6
      BY LatencyNat
    <3> QED
      BY <2>2, <3>1
  <2> QED
    BY <2>1, <2>2
<1> QED
  BY <1>1, <1>2 DEF Bounded

\* ready_after_bundles.
LEMMA AfterBundlesBounded ==
  ASSUME NEW B \in Nat, NEW rdy, Bounded(rdy, B), NEW start \in Nat,
         NEW bundles, IsSequence(bundles), start + Len(bundles) + 5 <= B
  PROVE  Bounded(ReadyAfterBundles(rdy, start, bundles), B)
<1> DEFINE writers(k) == {i \in DOMAIN bundles : k \in BundlePendingKeys(bundles[i])}
           written == UNION {BundlePendingKeys(bundles[i]) : i \in DOMAIN bundles}
           value(k) == ReadyAfterBundle(<<>>, bundles[Max(writers(k))], start + Max(writers(k)) - 1)[k]
           after == ReadyAfterBundles(rdy, start, bundles)
<1>1. after = [k \in DOMAIN rdy \cup written |->
                 IF writers(k) = {} THEN rdy[k] ELSE value(k)]
  BY DEF ReadyAfterBundles
<1>2. ASSUME NEW k \in DOMAIN rdy \cup written
      PROVE  (IF writers(k) = {} THEN rdy[k] ELSE value(k)) \in 0 .. B
  <2>1. CASE writers(k) = {}
    <3>1. k \in DOMAIN rdy
      BY <2>1
    <3> QED
      BY <2>1, <3>1 DEF Bounded
  <2>2. CASE writers(k) # {}
    <3> DEFINE last == Max(writers(k))
               one == ReadyAfterBundle(<<>>, bundles[last], start + last - 1)
    <3>1. last \in writers(k) /\ Len(bundles) \in Nat /\ last \in 1 .. Len(bundles)
      <4> DEFINE W == writers(k)
      <4>1. Len(bundles) \in Nat /\ W \in SUBSET (1 .. Len(bundles)) /\ W # {}
        BY <2>2 DEF IsSequence
      <4>2. W \in SUBSET (0 .. Len(bundles))
        BY <4>1
      <4> HIDE DEF W
      <4>3. Max(W) \in W
        BY <4>1, <4>2, MaxOf
      <4> QED
        BY <4>1, <4>3 DEF W
    <3>2. k \in BundlePendingKeys(bundles[last])
      BY <3>1
    <3> HIDE DEF last
    <3>3. start + last - 1 \in Nat /\ start + last - 1 + 6 <= B
      BY <3>1
    <3>4. Bounded(<<>>, B)
      BY DEF Bounded
    <3>5. Bounded(one, B)
      BY <3>3, <3>4, AfterBundleBounded
    <3>6. k \in DOMAIN one
      BY <3>2 DEF ReadyAfterBundle
    <3>7. one[k] \in 0 .. B
      BY <3>5, <3>6 DEF Bounded
    <3> QED
      BY <2>2, <3>7 DEF last
  <2> QED
    BY <2>1, <2>2
<1> HIDE DEF value, writers, written
<1> QED
  BY <1>1, <1>2 DEF Bounded
-----------------------------------------------------------------------------
(***************************************************************************)
(* What the passes build.                                                  *)
(***************************************************************************)

\* Every bundle of a stream passes the verifier.
AllVerified(stream) ==
  \A i \in DOMAIN stream : IsBundle(stream[i]) => VerifyBundle(Processor, stream[i].bundle)

\* At most one syllable per bundle.
IsScalar(bundle) == IsEmpty(bundle) \/ \E slot \in Slots(Processor) : DOMAIN bundle = {slot}

Phases == {"emit", "pack", "verify", "done", "error"}

\* The inductive invariant of the passes.
TypeInv ==
  /\ at \in Nat /\ phase \in Phases /\ cycle \in Nat
  /\ IsSequence(items) /\ AllVerified(items)
  /\ \A i \in DOMAIN items : IsBundle(items[i]) => IsScalar(items[i].bundle)
  /\ IsSequence(packed) /\ AllVerified(packed)
  /\ IsSequence(segment) /\ \A i \in DOMAIN segment : VerifyBundle(Processor, segment[i])
  /\ Bounded(ready, cycle + 6)
  /\ phase \in {"emit", "error"} => packed = <<>> /\ segment = <<>>
  /\ phase = "pack" => at <= Len(items)

\* A slot that supports an operation is one of the processor's.
LEMMA SupportedSlot ==
  ASSUME NEW slot, NEW op, SlotSupports(Processor, slot, op)
  PROVE  slot \in Slots(Processor) /\ Slots(Processor) \subseteq Nat
  BY ProcessorAssumption DEF SlotSupports, Slots

\* A bundle of one syllable in a slot that supports it is legal.
LEMMA SingleVerified ==
  ASSUME NEW slot, NEW syl, SlotSupports(Processor, slot, syl.opcode)
  PROVE  VerifyBundle(Processor, BundleWith(slot, syl)) /\ IsScalar(BundleWith(slot, syl))
<1>1. DOMAIN BundleWith(slot, syl) = {slot} /\ BundleWith(slot, syl)[slot] = syl
  BY DEF BundleWith
<1>2. SlotsLegal(Processor, BundleWith(slot, syl))
  BY <1>1 DEF SlotsLegal, Checked, SlotSupports
<1>3. NoGprWaw(Processor, BundleWith(slot, syl)) /\ NoGprRaw(Processor, BundleWith(slot, syl))
  BY <1>1 DEF NoGprWaw, NoGprRaw, Checked
<1>4. IsScalar(BundleWith(slot, syl))
  BY <1>1, SupportedSlot DEF IsScalar
<1> QED
  BY <1>2, <1>3, <1>4 DEF VerifyBundle

LEMMA EmptyVerified == VerifyBundle(Processor, EmptyBundle) /\ IsScalar(EmptyBundle)
  BY DEF VerifyBundle, SlotsLegal, NoGprWaw, NoGprRaw, Checked, EmptyBundle, IsScalar, IsEmpty

\* scalar_slot and x_slot.
LEMMA ScalarSlotSupports ==
  ASSUME NEW op, ScalarSlot(Processor, op) # {}
  PROVE  \E slot \in Slots(Processor) :
           ScalarSlot(Processor, op) = {slot} /\ SlotSupports(Processor, slot, op)
<1> DEFINE alias == CanonicalAlias(op)
           fit == {s \in Slots(Processor) : op = "nop" \/ SlotSupports(Processor, s, op)}
<1>1. CASE alias \in DOMAIN Processor.aliases
             /\ SlotSupports(Processor, Processor.aliases[alias], op)
  BY <1>1, SupportedSlot DEF ScalarSlot
<1>2. CASE ~(alias \in DOMAIN Processor.aliases
             /\ SlotSupports(Processor, Processor.aliases[alias], op))
  <2>1. ScalarSlot(Processor, op) = IF fit = {} THEN {} ELSE {Min(fit)}
    BY <1>2, Zenon DEF ScalarSlot, FirstCompatibleSlot
  <2>2. fit \in SUBSET Nat /\ fit # {}
    BY <2>1, ProcessorAssumption DEF Slots
  <2>3. Min(fit) \in fit
    <3> HIDE DEF fit
    <3> QED
      BY <2>2, MinOf
  <2> QED
    BY <2>1, <2>2, <2>3 DEF SlotSupports
<1> QED
  BY <1>1, <1>2

\* The slot chosen for a terminator supports it.
LEMMA ControlSlotSupports ==
  ASSUME NEW op, ControlSlot(Processor, op) # {}
  PROVE  \E slot \in Slots(Processor) :
           ControlSlot(Processor, op) = {slot} /\ SlotSupports(Processor, slot, op)
  BY SupportedSlot DEF ControlSlot

LEMMA MinOfOne ==
  ASSUME NEW n \in Nat PROVE Min({n}) = n
  BY MinOf

LEMMA PaddingFacts ==
  ASSUME NEW n \in Nat
  PROVE  /\ IsSequence(Padding(n)) /\ Len(Padding(n)) = n
         /\ \A i \in 1 .. n : Padding(n)[i] = EmptyBundle
<1> DEFINE s == Padding(n)
<1>1. s = [i \in 1 .. n |-> s[i]] /\ \A i \in 1 .. n : s[i] = EmptyBundle
  BY DEF Padding
<1> HIDE DEF s
<1>2. IsSequence(s) /\ Len(s) = n
  BY <1>1, TabulateAny
<1> QED
  BY <1>1, <1>2 DEF s

LEMMA AsItemsFacts ==
  ASSUME NEW bundles, IsSequence(bundles)
  PROVE  /\ IsSequence(AsItems(bundles)) /\ Len(AsItems(bundles)) = Len(bundles)
         /\ \A i \in 1 .. Len(bundles) : AsItems(bundles)[i] = BundleItem(bundles[i])
<1> DEFINE n == Len(bundles)
           s == AsItems(bundles)
<1>1. n \in Nat /\ DOMAIN bundles = 1 .. n
  BY DEF IsSequence
<1>2. s = [i \in 1 .. n |-> s[i]] /\ \A i \in 1 .. n : s[i] = BundleItem(bundles[i])
  BY <1>1 DEF AsItems
<1> HIDE DEF s, n
<1>3. IsSequence(s) /\ Len(s) = n
  BY <1>1, <1>2, TabulateAny
<1> QED
  BY <1>2, <1>3 DEF s, n

LEMMA AsItemsAppend ==
  ASSUME NEW bundles, IsSequence(bundles), NEW b
  PROVE  AsItems(Append(bundles, b)) = Append(AsItems(bundles), BundleItem(b))
<1> DEFINE n == Len(bundles)
           l == AsItems(Append(bundles, b))
           r == Append(AsItems(bundles), BundleItem(b))
<1>1. n \in Nat
  BY DEF IsSequence
<1>2. /\ IsSequence(Append(bundles, b)) /\ Len(Append(bundles, b)) = n + 1
      /\ \A i \in 1 .. n : Append(bundles, b)[i] = bundles[i]
      /\ Append(bundles, b)[n + 1] = b
  BY AppendAny
<1>3. /\ IsSequence(l) /\ Len(l) = n + 1
      /\ \A i \in 1 .. (n + 1) : l[i] = BundleItem(Append(bundles, b)[i])
  BY <1>2, AsItemsFacts
<1>4. /\ IsSequence(AsItems(bundles)) /\ Len(AsItems(bundles)) = n
      /\ \A i \in 1 .. n : AsItems(bundles)[i] = BundleItem(bundles[i])
  BY AsItemsFacts
<1>5. /\ IsSequence(r) /\ Len(r) = n + 1
      /\ \A i \in 1 .. n : r[i] = AsItems(bundles)[i]
      /\ r[n + 1] = BundleItem(b)
  BY <1>4, AppendAny
<1> HIDE DEF l, r, n
<1>6. \A i \in 1 .. (n + 1) : l[i] = r[i]
  BY <1>1, <1>2, <1>3, <1>4, <1>5
<1>7. l = r
  BY <1>3, <1>5, <1>6, EqualAny
<1> QED
  BY <1>7 DEF l, r

\* An item more.
LEMMA VerifiedAppend ==
  ASSUME NEW s, IsSequence(s), AllVerified(s), NEW x,
         IsBundle(x) => VerifyBundle(Processor, x.bundle)
  PROVE  AllVerified(Append(s, x))
<1> DEFINE n == Len(s)
<1>1. /\ DOMAIN s = 1 .. n /\ n \in Nat
      /\ DOMAIN Append(s, x) = 1 .. (n + 1)
      /\ \A i \in 1 .. n : Append(s, x)[i] = s[i]
      /\ Append(s, x)[n + 1] = x
  BY AppendAny DEF IsSequence
<1> HIDE DEF n
<1>2. \A i \in 1 .. (n + 1) : i \in 1 .. n \/ i = n + 1
  BY <1>1
<1> QED
  BY <1>1, <1>2 DEF AllVerified

\* c is s with the bundles behind it.
JoinsBundles(c, s, bundles) ==
  /\ IsSequence(c) /\ Len(c) = Len(s) + Len(bundles)
  /\ Len(s) \in Nat /\ Len(bundles) \in Nat
  /\ DOMAIN s = 1 .. Len(s) /\ DOMAIN c = 1 .. (Len(s) + Len(bundles))
  /\ \A i \in 1 .. Len(s) : c[i] = s[i]
  /\ \A i \in 1 .. Len(bundles) : c[Len(s) + i] = BundleItem(bundles[i])
  /\ \A i \in DOMAIN c : i \in 1 .. Len(s) \/ \E j \in 1 .. Len(bundles) : i = Len(s) + j

LEMMA ItemsConcat ==
  ASSUME NEW s, IsSequence(s), NEW bundles, IsSequence(bundles)
  PROVE  JoinsBundles(s \o AsItems(bundles), s, bundles)
<1> DEFINE c == s \o AsItems(bundles)
<1> DEFINE t == AsItems(bundles)
<1>1. /\ IsSequence(t) /\ Len(t) = Len(bundles)
      /\ \A i \in 1 .. Len(bundles) : t[i] = BundleItem(bundles[i])
  BY AsItemsFacts
<1> HIDE DEF t
<1> HIDE DEF c
<1>2. /\ IsSequence(c) /\ Len(c) = Len(s) + Len(t)
      /\ \A i \in 1 .. Len(s) : c[i] = s[i]
      /\ \A i \in 1 .. Len(t) : c[Len(s) + i] = t[i]
  <2>1. c = s \o t
    BY DEF t, c
  <2>2. Joins(s \o t, s, t)
    BY <1>1, ConcatAny
  <2>3. Joins(c, s, t)
    BY <2>1, <2>2
  <2> QED
    BY <2>3 DEF Joins
<1>3. /\ Len(s) \in Nat /\ Len(bundles) \in Nat
      /\ DOMAIN s = 1 .. Len(s) /\ DOMAIN c = 1 .. (Len(s) + Len(bundles))
  BY <1>1, <1>2 DEF IsSequence
<1>4. ASSUME NEW i \in DOMAIN c, i \notin 1 .. Len(s)
      PROVE  \E j \in 1 .. Len(bundles) : i = Len(s) + j
  <2>1. i - Len(s) \in 1 .. Len(bundles) /\ i = Len(s) + (i - Len(s))
    BY <1>3, <1>4
  <2> QED
    BY <2>1
<1> QED
  BY <1>1, <1>2, <1>3, <1>4 DEF JoinsBundles, c

LEMMA VerifiedConcat ==
  ASSUME NEW s, IsSequence(s), AllVerified(s),
         NEW bundles, IsSequence(bundles),
         \A i \in 1 .. Len(bundles) : VerifyBundle(Processor, bundles[i])
  PROVE  AllVerified(s \o AsItems(bundles))
<1> DEFINE c == s \o AsItems(bundles)
<1>0. JoinsBundles(c, s, bundles)
  BY ItemsConcat
<1> HIDE DEF c
<1>1. /\ DOMAIN s = 1 .. Len(s)
      /\ \A i \in 1 .. Len(s) : c[i] = s[i]
      /\ \A i \in 1 .. Len(bundles) : c[Len(s) + i] = BundleItem(bundles[i])
      /\ \A i \in DOMAIN c : i \in 1 .. Len(s)
                               \/ \E j \in 1 .. Len(bundles) : i = Len(s) + j
  BY <1>0 DEF JoinsBundles
<1>2. ASSUME NEW i \in DOMAIN c, IsBundle(c[i]) PROVE VerifyBundle(Processor, c[i].bundle)
  <2>1. CASE i \in 1 .. Len(s)
    BY <1>1, <1>2, <2>1 DEF AllVerified
  <2>2. ASSUME NEW j \in 1 .. Len(bundles), i = Len(s) + j
        PROVE  VerifyBundle(Processor, c[i].bundle)
    <3>1. c[i] = BundleItem(bundles[j])
      BY <1>1, <2>2
    <3>2. c[i].bundle = bundles[j]
      BY <3>1 DEF BundleItem
    <3> QED
      BY <3>2
  <2> QED
    BY <1>1, <2>1, <2>2
<1>3. AllVerified(c)
  BY <1>2 DEF AllVerified
<1> QED
  BY <1>3 DEF c

\* emit_asm_syllable_in_slot: padding and one bundle behind a stream.
LEMMA EmittedItems ==
  ASSUME NEW s, IsSequence(s), NEW n \in Nat, NEW b
  PROVE  s \o AsItems(Append(Padding(n), b)) = Append(s \o AsItems(Padding(n)), BundleItem(b))
<1>1. IsSequence(Padding(n))
  BY PaddingFacts
<1>2. AsItems(Append(Padding(n), b)) = Append(AsItems(Padding(n)), BundleItem(b))
  BY <1>1, AsItemsAppend
<1>3. IsSequence(AsItems(Padding(n)))
  BY <1>1, AsItemsFacts
<1> QED
  BY <1>2, <1>3, ConcatAppendAny
-----------------------------------------------------------------------------
(***************************************************************************)
(* pack_bundle_segment.                                                    *)
(***************************************************************************)

\* Bundle b is put behind, after padding until its sources are ready, ...
Spaced(res, out, b, start, rdy) ==
  \E n \in Nat :
    /\ ~IsEmpty(b)
    /\ res = Append(out \o Padding(n), b)
    /\ n = Max({0, BundleRequiredCycle(ReadyAfterBundles(rdy, start, out), b)
                     - (start + Len(out))})

\* ... or merged into the last bundle, where its sources are ready already.
Merged(res, out, b, start, rdy) ==
  \E m \in MergeBundles(out[Len(out)], b) :
    /\ ~IsEmpty(b) /\ out # <<>>
    /\ ~IsEmpty(out[Len(out)]) /\ ~IsTerminator(out[Len(out)])
    /\ ~(BundleRequiredCycle(ReadyAfterBundles(rdy, start, Front(out)), b)
           > start + Len(out) - 1)
    /\ VerifyBundle(Processor, m)
    /\ res = Append(Front(out), m)

\* The cases of pack_bundle_segment: an empty bundle is kept, and another is appended
\* after padding or merged.
LEMMA PackOneCases ==
  ASSUME NEW out, IsSequence(out), NEW b, NEW start \in Nat, NEW rdy, Bounded(rdy, start + 6),
         NEW res, res = PackOne(out, b, start, rdy)
  PROVE  \/ IsEmpty(b) /\ res = Append(out, b)
         \/ Spaced(res, out, b, start, rdy)
         \/ Merged(res, out, b, start, rdy)
<1> DEFINE merged == TryMerge(out, b, start, rdy)
           required == BundleRequiredCycle(ReadyAfterBundles(rdy, start, out), b)
           missing == Max({0, required - (start + Len(out))})
<1>1. res = IF IsEmpty(b) THEN Append(out, b)
            ELSE IF merged # {} THEN Append(Front(out), CHOOSE m \in merged : TRUE)
            ELSE Append(out \o Padding(missing), b)
  BY DEF PackOne
<1>2. CASE IsEmpty(b)
  BY <1>1, <1>2
<1>3. CASE ~IsEmpty(b) /\ merged # {}
  <2>1. PICK m \in merged : res = Append(Front(out), m)
    BY <1>1, <1>3
  <2>2. /\ out # <<>> /\ ~IsEmpty(out[Len(out)]) /\ ~IsTerminator(out[Len(out)])
        /\ ~(BundleRequiredCycle(ReadyAfterBundles(rdy, start, Front(out)), b)
               > start + Len(out) - 1)
        /\ m \in MergeBundles(out[Len(out)], b) /\ VerifyBundle(Processor, m)
    BY <1>3, <2>1, Zenon DEF TryMerge
  <2> QED
    BY <1>3, <2>1, <2>2 DEF Merged
<1>4. CASE ~IsEmpty(b) /\ merged = {}
  <2>1. missing \in Nat
    <3> DEFINE B == start + Len(out) + 6
               T == {0, required - (start + Len(out))}
    <3>1. Len(out) \in Nat /\ B \in Nat /\ start + Len(out) + 5 <= B
      BY DEF IsSequence
    <3>2. Bounded(rdy, B)
      BY <3>1 DEF Bounded
    <3>3. Bounded(ReadyAfterBundles(rdy, start, out), B)
      BY <3>1, <3>2, AfterBundlesBounded
    <3>4. required \in 0 .. B
      BY <3>1, <3>3, BundleRequiredBounded
    <3> HIDE DEF required
    <3>5. CASE required - (start + Len(out)) >= 0
      <4>1. T \in SUBSET (0 .. B) /\ T # {}
        BY <3>1, <3>4, <3>5
      <4>2. Max(T) \in T
        <5> HIDE DEF T
        <5> QED
          BY <3>1, <4>1, MaxOf
      <4> QED
        BY <4>1, <4>2
    <3>6. CASE required - (start + Len(out)) < 0
      <4>1. \A x \in T : 0 >= x
        BY <3>1, <3>4, <3>6
      <4>2. Max(T) \in T /\ \A x \in T : Max(T) >= x
        BY <4>1 DEF Max
      <4>3. Max(T) = 0
        BY <3>1, <3>4, <3>6, <4>2
      <4> QED
        BY <4>3
    <3> QED
      BY <3>1, <3>4, <3>5, <3>6
  <2> QED
    BY <1>1, <1>4, <2>1 DEF Spaced
<1> QED
  BY <1>2, <1>3, <1>4

\* A scalar bundle.
LEMMA ScalarMin ==
  ASSUME NEW b, IsScalar(b), ~IsEmpty(b)
  PROVE  \E slot \in Slots(Processor) : DOMAIN b = {slot} /\ b[Min(DOMAIN b)] = b[slot]
<1>1. PICK slot \in Slots(Processor) : DOMAIN b = {slot}
  BY DEF IsScalar
<1>2. Min({slot}) = slot
  BY MinOfOne, ProcessorAssumption DEF Slots
<1> QED
  BY <1>1, <1>2

\* merge_bundles adds the syllable in a slot that is a nop.
MergeAdds(m, a, b, slot, open) ==
  /\ slot \in Slots(Processor) /\ open \in Slots(Processor) \ DOMAIN a
  /\ DOMAIN b = {slot}
  /\ DOMAIN m = DOMAIN a \cup {open}
  /\ m[open] = b[slot]
  /\ \A s \in DOMAIN a : m[s] = a[s]

\* A merge adds the one syllable of the second bundle in an open slot.
LEMMA MergeFacts ==
  ASSUME NEW a, NEW b, IsScalar(b), ~IsEmpty(b), NEW m \in MergeBundles(a, b)
  PROVE  \E slot, open : MergeAdds(m, a, b, slot, open)
<1>1. PICK slot \in Slots(Processor) : DOMAIN b = {slot} /\ b[Min(DOMAIN b)] = b[slot]
  BY ScalarMin
<1> DEFINE syl == b[Min(DOMAIN b)]
           all == OpenSlots(a, syl.opcode)
<1>2. all # {} /\ m = [s \in DOMAIN a \cup {Min(all)} |-> IF s = Min(all) THEN syl ELSE a[s]]
  BY DEF MergeBundles
<1>3. all \in SUBSET Nat /\ all \subseteq Slots(Processor) \ DOMAIN a
  BY ProcessorAssumption DEF OpenSlots, Slots
<1> HIDE DEF all, syl
<1>4. Min(all) \in all
  BY <1>2, <1>3, MinOf
<1>5. /\ DOMAIN m = DOMAIN a \cup {Min(all)}
      /\ m[Min(all)] = syl
      /\ \A s \in DOMAIN a : m[s] = a[s]
  BY <1>2, <1>3, <1>4
<1>6. MergeAdds(m, a, b, slot, Min(all))
  BY <1>1, <1>3, <1>4, <1>5 DEF syl, MergeAdds
<1> QED
  BY <1>6

\* The packed bundles pass the verifier.
LEMMA PackOneVerified ==
  ASSUME NEW out, IsSequence(out), \A i \in DOMAIN out : VerifyBundle(Processor, out[i]),
         NEW b, VerifyBundle(Processor, b),
         NEW start \in Nat, NEW rdy, Bounded(rdy, start + 6),
         NEW res, res = PackOne(out, b, start, rdy)
  PROVE  IsSequence(res) /\ \A i \in DOMAIN res : VerifyBundle(Processor, res[i])
<1>1. ASSUME NEW s, IsSequence(s), \A i \in DOMAIN s : VerifyBundle(Processor, s[i]),
             NEW x, VerifyBundle(Processor, x)
      PROVE  /\ IsSequence(Append(s, x))
             /\ \A i \in DOMAIN Append(s, x) : VerifyBundle(Processor, Append(s, x)[i])
  <2>1. /\ IsSequence(Append(s, x)) /\ Len(s) \in Nat /\ DOMAIN s = 1 .. Len(s)
        /\ DOMAIN Append(s, x) = 1 .. (Len(s) + 1)
        /\ \A i \in 1 .. Len(s) : Append(s, x)[i] = s[i]
        /\ Append(s, x)[Len(s) + 1] = x
    BY <1>1, AppendAny DEF IsSequence
  <2>2. \A i \in 1 .. (Len(s) + 1) : i \in 1 .. Len(s) \/ i = Len(s) + 1
    BY <2>1
  <2> QED
    BY <1>1, <2>1, <2>2
<1>2. CASE res = Append(out, b)
  BY <1>1, <1>2
<1>3. ASSUME NEW n \in Nat, res = Append(out \o Padding(n), b)
      PROVE  IsSequence(res) /\ \A i \in DOMAIN res : VerifyBundle(Processor, res[i])
  <2> DEFINE c == out \o Padding(n)
  <2>1. IsSequence(Padding(n)) /\ Len(Padding(n)) = n
        /\ \A i \in 1 .. n : Padding(n)[i] = EmptyBundle
    BY PaddingFacts
  <2>2. Joins(c, out, Padding(n))
    BY <2>1, ConcatAny
  <2> HIDE DEF c
  <2>3. /\ IsSequence(c) /\ DOMAIN c = 1 .. (Len(out) + n)
        /\ DOMAIN out = 1 .. Len(out) /\ Len(out) \in Nat
        /\ \A i \in 1 .. Len(out) : c[i] = out[i]
        /\ \A i \in 1 .. n : c[Len(out) + i] = EmptyBundle
    BY <2>1, <2>2 DEF Joins, IsSequence
  <2>4. ASSUME NEW i \in DOMAIN c PROVE VerifyBundle(Processor, c[i])
    <3>1. CASE i \in 1 .. Len(out)
      BY <2>3, <3>1
    <3>2. CASE i \notin 1 .. Len(out)
      <4>1. i - Len(out) \in 1 .. n /\ Len(out) + (i - Len(out)) = i
        BY <2>3, <3>2
      <4> QED
        BY <2>3, <4>1, EmptyVerified
    <3> QED
      BY <3>1, <3>2
  <2>5. res = Append(c, b)
    BY <1>3 DEF c
  <2> QED
    BY <1>1, <2>3, <2>4, <2>5
<1>4. ASSUME NEW m, out # <<>>, VerifyBundle(Processor, m), res = Append(Front(out), m)
      PROVE  IsSequence(res) /\ \A i \in DOMAIN res : VerifyBundle(Processor, res[i])
  <2>1. IsSequence(Front(out)) /\ Len(out) \in Nat \ {0} /\ Len(Front(out)) = Len(out) - 1
        /\ out = Append(Front(out), out[Len(out)])
    BY <1>4, FrontAny
  <2>2. \A i \in DOMAIN Front(out) : i \in DOMAIN out /\ Front(out)[i] = out[i]
    <3>1. \A i \in 1 .. Len(Front(out)) : Append(Front(out), out[Len(out)])[i] = Front(out)[i]
      BY <2>1, AppendAny
    <3> QED
      BY <2>1, <3>1 DEF IsSequence
  <2> QED
    BY <1>1, <1>4, <2>1, <2>2
<1>5. \/ IsEmpty(b) /\ res = Append(out, b)
      \/ Spaced(res, out, b, start, rdy)
      \/ Merged(res, out, b, start, rdy)
  BY PackOneCases
<1>6. CASE Spaced(res, out, b, start, rdy)
  BY <1>3, <1>6 DEF Spaced
<1>7. CASE Merged(res, out, b, start, rdy)
  BY <1>4, <1>7 DEF Merged
<1> QED
  BY <1>2, <1>5, <1>6, <1>7
-----------------------------------------------------------------------------
(***************************************************************************)
(* The invariant of the passes.                                            *)
(***************************************************************************)

\* The cycle emit_asm_syllable_in_slot issues at.
LEMMA IssueCycle ==
  ASSUME NEW c \in Nat, NEW rdy, Bounded(rdy, c + 6), NEW syl,
         NEW issue, issue = Max({c, RequiredCycle(rdy, syl)})
  PROVE  issue \in Nat /\ c <= issue /\ issue <= c + 6 /\ RequiredCycle(rdy, syl) <= issue
<1> DEFINE r == RequiredCycle(rdy, syl)
           T == {c, r}
<1>1. c + 6 \in Nat
  OBVIOUS
<1>2. r \in 0 .. (c + 6)
  BY <1>1, RequiredBounded
<1> HIDE DEF r
<1>3. T \in SUBSET (0 .. (c + 6)) /\ T # {}
  BY <1>2
<1>4. Max(T) \in T /\ \A y \in T : y <= Max(T)
  <2> HIDE DEF T
  <2> QED
    BY <1>1, <1>3, MaxOf
<1>5. issue = Max(T)
  BY DEF r
<1> HIDE DEF T
<1>6. c \in T /\ r \in T
  BY DEF T
<1>7. issue \in 0 .. (c + 6) /\ c <= issue /\ r <= issue
  BY <1>3, <1>4, <1>5, <1>6
<1>8. issue \in Nat /\ issue <= c + 6
  BY <1>7
<1> QED
  BY <1>7, <1>8 DEF r

\* What emit_asm_syllable_in_slot does when it finds a slot: stream s becomes t.
Emitted(s, t, slot, syl, n) ==
  /\ n \in Nat /\ slot \in Slots(Processor) /\ SlotSupports(Processor, slot, syl.opcode)
  /\ t = Append(s \o AsItems(Padding(n)), BundleItem(BundleWith(slot, syl)))

\* Emission pads until the operands are ready and issues one syllable.
LEMMA EmitInSlotFacts ==
  ASSUME TypeInv, NEW syl, NEW slots, slots # {},
         \E slot \in Slots(Processor) : slots = {slot} /\ SlotSupports(Processor, slot, syl.opcode),
         EmitInSlot(syl, slots)
  PROVE  \E slot, n :
           /\ Emitted(items, items', slot, syl, n)
           /\ RequiredCycle(ready, syl) <= cycle + n
           /\ cycle' = cycle + n + 1
           /\ ready' = ReadyAfterBundle(ready, BundleWith(slot, syl), cycle + n)
           /\ UNCHANGED phase
<1>1. PICK slot \in Slots(Processor) : slots = {slot} /\ SlotSupports(Processor, slot, syl.opcode)
  OBVIOUS
<1>2. Min(slots) = slot
  BY <1>1, MinOfOne, ProcessorAssumption DEF Slots
<1> DEFINE issue == Max({cycle, RequiredCycle(ready, syl)})
           n == issue - cycle
           bundle == BundleWith(slot, syl)
<1>3. /\ items' = items \o AsItems(Append(Padding(n), bundle))
      /\ ready' = ReadyAfterBundle(ready, bundle, issue)
      /\ cycle' = issue + 1
      /\ UNCHANGED phase
  BY <1>2 DEF EmitInSlot
<1>4. cycle \in Nat /\ Bounded(ready, cycle + 6) /\ IsSequence(items)
  BY DEF TypeInv
<1>5. issue \in Nat /\ cycle <= issue /\ RequiredCycle(ready, syl) <= issue
  BY <1>4, IssueCycle
<1> HIDE DEF issue
<1>6. n \in Nat /\ cycle + n = issue
  BY <1>4, <1>5
<1>7. items' = Append(items \o AsItems(Padding(n)), BundleItem(bundle))
  BY <1>3, <1>4, <1>6, EmittedItems
<1> HIDE DEF n
<1>8. Emitted(items, items', slot, syl, n)
  BY <1>1, <1>6, <1>7 DEF Emitted
<1>9. /\ RequiredCycle(ready, syl) <= cycle + n
      /\ cycle' = cycle + n + 1
      /\ ready' = ReadyAfterBundle(ready, BundleWith(slot, syl), cycle + n)
  BY <1>3, <1>5, <1>6
<1> QED
  BY <1>3, <1>8, <1>9

\* The stream stays scalar and verified.
ScalarStream(s) ==
  /\ IsSequence(s) /\ AllVerified(s)
  /\ \A i \in DOMAIN s : IsBundle(s[i]) => IsScalar(s[i].bundle)

LEMMA ScalarAppend ==
  ASSUME NEW s, ScalarStream(s), NEW x,
         IsBundle(x) => VerifyBundle(Processor, x.bundle) /\ IsScalar(x.bundle)
  PROVE  ScalarStream(Append(s, x))
<1> DEFINE n == Len(s)
<1>1. /\ DOMAIN s = 1 .. n /\ n \in Nat /\ IsSequence(Append(s, x))
      /\ DOMAIN Append(s, x) = 1 .. (n + 1)
      /\ \A i \in 1 .. n : Append(s, x)[i] = s[i]
      /\ Append(s, x)[n + 1] = x
  BY AppendAny DEF IsSequence, ScalarStream
<1>2. AllVerified(Append(s, x))
  BY VerifiedAppend DEF ScalarStream
<1> HIDE DEF n
<1>3. \A i \in 1 .. (n + 1) : i \in 1 .. n \/ i = n + 1
  BY <1>1
<1> QED
  BY <1>1, <1>2, <1>3 DEF ScalarStream

LEMMA ScalarPadding ==
  ASSUME NEW s, ScalarStream(s), NEW n \in Nat
  PROVE  ScalarStream(s \o AsItems(Padding(n)))
<1> DEFINE c == s \o AsItems(Padding(n))
<1>1. /\ IsSequence(Padding(n)) /\ Len(Padding(n)) = n
      /\ \A i \in 1 .. n : Padding(n)[i] = EmptyBundle
  BY PaddingFacts
<1>2. JoinsBundles(c, s, Padding(n))
  BY <1>1, ItemsConcat DEF ScalarStream
<1>3. AllVerified(c)
  BY <1>1, VerifiedConcat, EmptyVerified DEF ScalarStream
<1> HIDE DEF c
<1>4. ASSUME NEW i \in DOMAIN c, IsBundle(c[i]) PROVE IsScalar(c[i].bundle)
  <2>1. CASE i \in 1 .. Len(s)
    BY <1>2, <1>4, <2>1 DEF JoinsBundles, ScalarStream
  <2>2. ASSUME NEW j \in 1 .. n, i = Len(s) + j PROVE IsScalar(c[i].bundle)
    <3>1. c[i] = BundleItem(EmptyBundle)
      BY <1>1, <1>2, <2>2 DEF JoinsBundles
    <3>2. c[i].bundle = EmptyBundle
      BY <3>1 DEF BundleItem
    <3> QED
      BY <3>2, EmptyVerified
  <2> QED
    BY <1>1, <1>2, <2>1, <2>2 DEF JoinsBundles
<1> QED
  BY <1>2, <1>3, <1>4 DEF ScalarStream, JoinsBundles, c

LEMMA EmittedScalar ==
  ASSUME NEW s, ScalarStream(s), NEW t, NEW slot, NEW syl, NEW n, Emitted(s, t, slot, syl, n)
  PROVE  ScalarStream(t)
<1> DEFINE c == s \o AsItems(Padding(n))
           x == BundleItem(BundleWith(slot, syl))
<1>1. ScalarStream(c)
  BY ScalarPadding DEF Emitted
<1>2. x.bundle = BundleWith(slot, syl)
  BY DEF BundleItem
<1>3. VerifyBundle(Processor, x.bundle) /\ IsScalar(x.bundle)
  BY <1>2, SingleVerified DEF Emitted
<1>4. t = Append(c, x)
  BY DEF Emitted
<1> HIDE DEF c, x
<1> QED
  BY <1>1, <1>3, <1>4, ScalarAppend

LEMMA InitTypeInv == Init => TypeInv
  BY EmptyAny DEF Init, TypeInv, Phases, AllVerified, Bounded, NothingPending

\* An operation that is emitted, or rejected for want of a slot.
LEMMA EmitStep ==
  ASSUME TypeInv, phase = "emit", NEW syl, NEW slots,
         slots # {} => \E slot \in Slots(Processor) :
                         slots = {slot} /\ SlotSupports(Processor, slot, syl.opcode),
         EmitInSlot(syl, slots), at' = at + 1, UNCHANGED <<segment, packed>>
  PROVE  TypeInv'
<1>0. /\ at' \in Nat /\ cycle \in Nat /\ Bounded(ready, cycle + 6)
      /\ packed = <<>> /\ segment = <<>> /\ packed' = <<>> /\ segment' = <<>>
      /\ ScalarStream(items)
  BY DEF TypeInv, ScalarStream
<1>1. CASE slots = {}
  <2>1. phase' = "error" /\ UNCHANGED <<items, ready, cycle>>
    BY <1>1 DEF EmitInSlot
  <2> QED
    BY <1>0, <2>1 DEF TypeInv, Phases, AllVerified, Bounded, IsSequence, IsScalar
<1>2. CASE slots # {}
  <2>1. PICK slot, n :
           /\ Emitted(items, items', slot, syl, n)
           /\ cycle' = cycle + n + 1
           /\ ready' = ReadyAfterBundle(ready, BundleWith(slot, syl), cycle + n)
           /\ UNCHANGED phase
    BY <1>2, EmitInSlotFacts
  <2>2. n \in Nat
    BY <2>1 DEF Emitted
  <2>3. ScalarStream(items')
    BY <1>0, <2>1, EmittedScalar
  <2>4. Bounded(ready', cycle' + 6)
    <3>1. cycle' + 6 \in Nat /\ cycle + n \in Nat /\ cycle + n + 6 <= cycle' + 6
      BY <1>0, <2>1, <2>2
    <3>2. Bounded(ready, cycle' + 6)
      BY <1>0, <2>1, <2>2 DEF Bounded
    <3> QED
      BY <2>1, <3>1, <3>2, AfterBundleBounded
  <2>5. cycle' \in Nat /\ phase' = "emit"
    BY <1>0, <2>1, <2>2
  <2> QED
    BY <1>0, <2>3, <2>4, <2>5, EmptyAny
       DEF TypeInv, Phases, ScalarStream, AllVerified, Bounded, IsSequence
<1> QED
  BY <1>1, <1>2

\* Every step keeps the types of the streams and tables.
LEMMA NextTypeInv == TypeInv /\ [Next]_vars => TypeInv'
<1> SUFFICES ASSUME TypeInv, [Next]_vars PROVE TypeInv'
  OBVIOUS
<1>1. CASE EmitFunction \/ EmitLabel
  <2>1. PICK l, f : items' = Append(items, LabelItem(l, f))
    BY <1>1 DEF EmitFunction, EmitLabel
  <2>2. ~IsBundle(LabelItem(l, f))
    BY DEF IsBundle, LabelItem
  <2>3. ScalarStream(items')
    BY <2>1, <2>2, ScalarAppend DEF TypeInv, ScalarStream
  <2>4. /\ phase = "emit" /\ phase' = "emit" /\ at' = at + 1 /\ UNCHANGED <<segment, packed>>
        /\ cycle' \in Nat /\ Bounded(ready', cycle' + 6)
    <3>1. CASE EmitFunction
      BY <3>1 DEF EmitFunction, Visit, Bounded, NothingPending
    <3>2. CASE EmitLabel
      BY <3>2 DEF EmitLabel, Visit, TypeInv, Bounded
    <3> QED
      BY <1>1, <3>1, <3>2
  <2> QED
    BY <2>3, <2>4 DEF TypeInv, Phases, ScalarStream, AllVerified, Bounded, IsSequence
<1>2. CASE EmitSyllable
  <2>1. /\ phase = "emit" /\ at' = at + 1 /\ UNCHANGED <<segment, packed>>
    BY <1>2 DEF EmitSyllable, Visit
  <2>2. CASE Lowerable(Current.syl)
    <3> DEFINE low == Lower(Current.syl, at + 1)
               slots == ScalarSlot(Processor, Current.syl.opcode)
    <3>1. EmitInSlot(low, slots)
      BY <1>2, <2>2 DEF EmitSyllable
    <3>2. low.opcode = Current.syl.opcode
      BY DEF Lower, Asm
    <3>3. slots # {} => \E slot \in Slots(Processor) :
                          slots = {slot} /\ SlotSupports(Processor, slot, low.opcode)
      BY <3>2, ScalarSlotSupports
    <3> HIDE DEF low, slots
    <3> QED
      BY <2>1, <3>1, <3>3, EmitStep
  <2>3. CASE ~Lowerable(Current.syl)
    BY <1>2, <2>1, <2>3
       DEF EmitSyllable, TypeInv, Phases, AllVerified, Bounded, IsSequence, IsScalar
  <2> QED
    BY <2>2, <2>3
<1>3. CASE EmitTerminator
  <2> DEFINE low == LowerTerminator(Current, at + 1)
             slots == ControlSlot(Processor, Current.op)
  <2>1. /\ phase = "emit" /\ at' = at + 1 /\ UNCHANGED <<segment, packed>>
        /\ EmitInSlot(low, slots)
    BY <1>3 DEF EmitTerminator, Visit
  <2>2. low.opcode = Current.op
    BY DEF LowerTerminator, Asm
  <2>3. slots # {} => \E slot \in Slots(Processor) :
                        slots = {slot} /\ SlotSupports(Processor, slot, low.opcode)
    BY <2>2, ControlSlotSupports
  <2> HIDE DEF low, slots
  <2> QED
    BY <2>1, <2>3, EmitStep
<1>4. CASE KeepScalar
  BY <1>4, EmptyAny DEF KeepScalar, TypeInv, Phases, AllVerified, Bounded, IsSequence
<1>5. CASE StartPack
  BY <1>5, EmptyAny
     DEF StartPack, TypeInv, Phases, AllVerified, Bounded, IsSequence, NothingPending
<1>6. CASE PackBundle
  <2>1. /\ at + 1 \in DOMAIN items /\ IsBundle(Item) /\ VerifyBundle(Processor, Item.bundle)
        /\ at' = at + 1 /\ at' <= Len(items)
    BY <1>6 DEF PackBundle, TypeInv, IsSequence, Item, IsControl, AllVerified
  <2>2. segment' = PackOne(segment, Item.bundle, cycle, ready)
    BY <1>6 DEF PackBundle
  <2>3. IsSequence(segment') /\ \A i \in DOMAIN segment' : VerifyBundle(Processor, segment'[i])
    BY <2>1, <2>2, PackOneVerified DEF TypeInv
  <2> QED
    BY <1>6, <2>1, <2>3 DEF PackBundle, TypeInv, Phases, AllVerified, Bounded, IsSequence
<1>7. CASE EndSegment
  <2> DEFINE joined == packed \o AsItems(segment)
             rdy == ReadyAfterBundles(ready, cycle, segment)
             c == cycle + Len(segment)
  <2>1. /\ at + 1 \in DOMAIN items /\ at' = at + 1 /\ at' \in Nat /\ at' <= Len(items)
        /\ IsBundle(Item) => VerifyBundle(Processor, Item.bundle)
    BY <1>7 DEF EndSegment, TypeInv, IsSequence, Item, AllVerified
  <2>2. /\ packed' = Append(joined, Item)
        /\ ready' = IF IsBundle(Item) THEN ReadyAfterBundle(rdy, Item.bundle, c) ELSE rdy
        /\ cycle' = IF IsBundle(Item) THEN c + 1 ELSE c
        /\ segment' = <<>> /\ phase = "pack" /\ phase' = "pack" /\ items' = items
    BY <1>7 DEF EndSegment
  <2>3. Len(segment) \in Nat /\ c \in Nat /\ DOMAIN segment = 1 .. Len(segment)
    BY DEF TypeInv, IsSequence
  <2>4. IsSequence(joined) /\ AllVerified(joined)
    <3>1. JoinsBundles(joined, packed, segment)
      BY ItemsConcat DEF TypeInv
    <3>2. AllVerified(joined)
      BY <2>3, VerifiedConcat DEF TypeInv
    <3> QED
      BY <3>1, <3>2 DEF JoinsBundles
  <2> HIDE DEF joined
  <2>5. IsSequence(packed') /\ AllVerified(packed')
    BY <2>1, <2>2, <2>4, AppendAny, VerifiedAppend
  <2>6. Bounded(rdy, c + 6)
    <3>1. c + 6 \in Nat /\ cycle \in Nat /\ cycle + Len(segment) + 5 <= c + 6
      BY <2>3 DEF TypeInv
    <3>2. Bounded(ready, c + 6)
      BY <2>3 DEF TypeInv, Bounded
    <3>3. IsSequence(segment)
      BY DEF TypeInv
    <3> HIDE DEF c
    <3> QED
      BY <3>1, <3>2, <3>3, AfterBundlesBounded
  <2> HIDE DEF rdy, c
  <2>7. cycle' \in Nat /\ Bounded(ready', cycle' + 6)
    <3>1. CASE IsBundle(Item)
      <4>1. cycle' = c + 1 /\ ready' = ReadyAfterBundle(rdy, Item.bundle, c)
        BY <2>2, <3>1
      <4>2. c + 1 + 6 \in Nat /\ c + 6 <= c + 1 + 6 /\ Bounded(rdy, c + 1 + 6)
        BY <2>3, <2>6 DEF Bounded
      <4> QED
        BY <2>3, <4>1, <4>2, AfterBundleBounded
    <3>2. CASE ~IsBundle(Item)
      BY <2>2, <2>3, <2>6, <3>2
    <3> QED
      BY <3>1, <3>2
  <2> QED
    <3>1. IsSequence(segment') /\ \A i \in DOMAIN segment' : VerifyBundle(Processor, segment'[i])
      BY <2>2, EmptyAny
    <3>2. ScalarStream(items')
      BY <2>2 DEF TypeInv, ScalarStream
    <3> QED
      BY <2>1, <2>2, <2>5, <2>7, <3>1, <3>2
         DEF TypeInv, Phases, AllVerified, Bounded, IsSequence, ScalarStream
<1>8. CASE FinishPack
  <2> DEFINE joined == packed \o AsItems(segment)
  <2>1. /\ packed' = joined /\ segment' = <<>> /\ phase' = "verify"
        /\ UNCHANGED <<at, items, ready, cycle>>
    BY <1>8 DEF FinishPack
  <2>2. DOMAIN segment = 1 .. Len(segment)
    BY DEF TypeInv, IsSequence
  <2>3. IsSequence(joined) /\ AllVerified(joined)
    <3>1. JoinsBundles(joined, packed, segment)
      BY ItemsConcat DEF TypeInv
    <3>2. AllVerified(joined)
      BY <2>2, VerifiedConcat DEF TypeInv
    <3> QED
      BY <3>1, <3>2 DEF JoinsBundles
  <2> HIDE DEF joined
  <2> QED
    BY <2>1, <2>3, EmptyAny DEF TypeInv, Phases, AllVerified, Bounded, IsSequence
<1>9. CASE Verify
  BY <1>9 DEF Verify, TypeInv, Phases, AllVerified, Bounded, IsSequence
<1>10. CASE UNCHANGED vars
  BY <1>10 DEF vars, TypeInv, Phases, AllVerified, Bounded, IsSequence
<1> QED
  BY <1>1, <1>2, <1>3, <1>4, <1>5, <1>6, <1>7, <1>8, <1>9, <1>10 DEF Next, Terminated

LEMMA SpecTypeInv == Spec => []TypeInv
<1>1. TypeInv /\ [Next]_vars => TypeInv'
  BY NextTypeInv
<1> QED
  BY <1>1, InitTypeInv, PTL DEF Spec

(***************************************************************************)
(* verify_program never rejects what the emitter and the packer built, on  *)
(* any layout: an error is an operation without a slot or of an operand    *)
(* shape lower_syllable does not know.                                     *)
(***************************************************************************)
THEOREM VerifierAcceptsWhatIsPacked == Spec => []VerifierAccepts
<1>1. TypeInv => VerifierAccepts
  BY DEF TypeInv, VerifierAccepts
<1> QED
  BY <1>1, SpecTypeInv, PTL
-----------------------------------------------------------------------------
(***************************************************************************)
(* Where the labels, terminators and syllables of a stream are.            *)
(***************************************************************************)

\* The control items of a whole stream.
Total(s) == ControlsBefore(s, Len(s) + 1)

\* The operations an item issues.
ItemIds(x) == IF IsBundle(x) THEN {x.bundle[slot].id : slot \in DOMAIN x.bundle} ELSE {}

ItemOnce(x) ==
  IsBundle(x) => \A a, b \in DOMAIN x.bundle : x.bundle[a].id = x.bundle[b].id => a = b

\* The operations of a stream.
Ids(s) == {SylAt(s, p).id : p \in SyllablesOf(s)}

\* Stream s has the control items of t, in their order, and its syllables
\* between the same two of them.
SameLayout(s, t) ==
  Controls(s) = Controls(t) /\ Placement(s) = Placement(t) /\ Total(s) = Total(t)

LEMMA SyllableIn ==
  ASSUME NEW s
  PROVE  /\ \A i \in DOMAIN s : IsBundle(s[i]) =>
              \A a \in DOMAIN s[i].bundle :
                <<i, a>> \in SyllablesOf(s) /\ SylAt(s, <<i, a>>) = s[i].bundle[a]
         /\ \A p \in SyllablesOf(s) :
              \E i \in DOMAIN s : IsBundle(s[i]) /\ \E a \in DOMAIN s[i].bundle : p = <<i, a>>
  BY DEF SyllablesOf, BundlesOf, SylAt

\* An operation is placed behind the control items that precede it.
LEMMA PlacementIn ==
  ASSUME NEW s, NEW e
  PROVE  e \in Placement(s) <=>
           \E i \in DOMAIN s : \E id \in ItemIds(s[i]) : e = <<id, ControlsBefore(s, i)>>
<1>1. ASSUME e \in Placement(s)
      PROVE  \E i \in DOMAIN s : \E id \in ItemIds(s[i]) : e = <<id, ControlsBefore(s, i)>>
  <2>1. PICK p \in SyllablesOf(s) : e = <<SylAt(s, p).id, ControlsBefore(s, p[1])>>
    BY <1>1 DEF Placement
  <2>2. PICK i \in DOMAIN s : IsBundle(s[i]) /\ \E a \in DOMAIN s[i].bundle : p = <<i, a>>
    BY SyllableIn
  <2>3. PICK a \in DOMAIN s[i].bundle : p = <<i, a>>
    BY <2>2
  <2>4. SylAt(s, p).id \in ItemIds(s[i]) /\ p[1] = i
    BY <2>2, <2>3 DEF ItemIds, SylAt
  <2> QED
    BY <2>1, <2>4
<1>2. ASSUME NEW i \in DOMAIN s, NEW id \in ItemIds(s[i]), e = <<id, ControlsBefore(s, i)>>
      PROVE  e \in Placement(s)
  <2>1. PICK a \in DOMAIN s[i].bundle : IsBundle(s[i]) /\ id = s[i].bundle[a].id
    BY DEF ItemIds
  <2>2. <<i, a>> \in SyllablesOf(s) /\ SylAt(s, <<i, a>>).id = id /\ <<i, a>>[1] = i
    BY <2>1, SyllableIn
  <2> QED
    BY <1>2, <2>2 DEF Placement
<1> QED
  BY <1>1, <1>2

LEMMA ControlsIn ==
  ASSUME NEW s, NEW e
  PROVE  e \in Controls(s) <=>
           \E i \in DOMAIN s : IsControl(s[i]) /\ e = <<s[i], ControlsBefore(s, i)>>
  BY Zenon DEF Controls

LEMMA IdsIn ==
  ASSUME NEW s, NEW id
  PROVE  id \in Ids(s) <=> \E i \in DOMAIN s : id \in ItemIds(s[i])
<1>1. ASSUME id \in Ids(s) PROVE \E i \in DOMAIN s : id \in ItemIds(s[i])
  <2>1. PICK p \in SyllablesOf(s) : id = SylAt(s, p).id
    BY <1>1 DEF Ids
  <2>2. PICK i \in DOMAIN s : IsBundle(s[i]) /\ \E a \in DOMAIN s[i].bundle : p = <<i, a>>
    BY SyllableIn
  <2> QED
    BY <2>1, <2>2 DEF ItemIds, SylAt
<1>2. ASSUME NEW i \in DOMAIN s, id \in ItemIds(s[i]) PROVE id \in Ids(s)
  <2>1. PICK a \in DOMAIN s[i].bundle : IsBundle(s[i]) /\ id = s[i].bundle[a].id
    BY <1>2 DEF ItemIds
  <2>2. <<i, a>> \in SyllablesOf(s) /\ SylAt(s, <<i, a>>).id = id
    BY <2>1, SyllableIn
  <2> QED
    BY <2>2, Zenon DEF Ids
<1> QED
  BY <1>1, <1>2

\* The placement tells the operations.
LEMMA IdsFromPlacement ==
  ASSUME NEW s, NEW t, Placement(s) = Placement(t) PROVE Ids(s) = Ids(t)
<1>1. ASSUME NEW u, NEW v, Placement(u) = Placement(v), NEW id \in Ids(u) PROVE id \in Ids(v)
  <2>1. PICK i \in DOMAIN u : id \in ItemIds(u[i])
    BY IdsIn
  <2>2. <<id, ControlsBefore(u, i)>> \in Placement(v)
    BY <1>1, <2>1, PlacementIn
  <2>3. PICK j \in DOMAIN v : \E x \in ItemIds(v[j]) :
          <<id, ControlsBefore(u, i)>> = <<x, ControlsBefore(v, j)>>
    BY <2>2, PlacementIn
  <2>4. id \in ItemIds(v[j])
    BY <2>3
  <2> QED
    BY <2>4, IdsIn
<1> QED
  BY <1>1

LEMMA OnceIn ==
  ASSUME NEW s
  PROVE  Once(s) <=>
           /\ \A i \in DOMAIN s : ItemOnce(s[i])
           /\ \A i, j \in DOMAIN s : i # j => ItemIds(s[i]) \cap ItemIds(s[j]) = {}
<1>1. ASSUME Once(s), NEW i \in DOMAIN s PROVE ItemOnce(s[i])
  <2>1. ASSUME IsBundle(s[i]), NEW a \in DOMAIN s[i].bundle, NEW b \in DOMAIN s[i].bundle,
               s[i].bundle[a].id = s[i].bundle[b].id
        PROVE  a = b
    <3>1. /\ <<i, a>> \in SyllablesOf(s) /\ SylAt(s, <<i, a>>) = s[i].bundle[a]
          /\ <<i, b>> \in SyllablesOf(s) /\ SylAt(s, <<i, b>>) = s[i].bundle[b]
      BY <2>1, SyllableIn
    <3>2. SylAt(s, <<i, a>>).id = SylAt(s, <<i, b>>).id
      BY <2>1, <3>1
    <3>3. <<i, a>> = <<i, b>>
      BY <1>1, <3>1, <3>2, Zenon DEF Once
    <3> QED
      BY <3>3
  <2> QED
    BY <2>1 DEF ItemOnce
<1>2. ASSUME Once(s), NEW i \in DOMAIN s, NEW j \in DOMAIN s, i # j,
             NEW id \in ItemIds(s[i]), id \in ItemIds(s[j])
      PROVE  FALSE
  <2>1. PICK a \in DOMAIN s[i].bundle : IsBundle(s[i]) /\ id = s[i].bundle[a].id
    BY DEF ItemIds
  <2>2. PICK b \in DOMAIN s[j].bundle : IsBundle(s[j]) /\ id = s[j].bundle[b].id
    BY <1>2 DEF ItemIds
  <2>3. /\ <<i, a>> \in SyllablesOf(s) /\ SylAt(s, <<i, a>>) = s[i].bundle[a]
        /\ <<j, b>> \in SyllablesOf(s) /\ SylAt(s, <<j, b>>) = s[j].bundle[b]
    BY <2>1, <2>2, SyllableIn
  <2>4. SylAt(s, <<i, a>>).id = SylAt(s, <<j, b>>).id
    BY <2>1, <2>2, <2>3
  <2>5. <<i, a>> = <<j, b>>
    BY <1>2, <2>3, <2>4, Zenon DEF Once
  <2> QED
    BY <1>2, <2>5
<1>3. ASSUME \A i \in DOMAIN s : ItemOnce(s[i]),
             \A i, j \in DOMAIN s : i # j => ItemIds(s[i]) \cap ItemIds(s[j]) = {},
             NEW p \in SyllablesOf(s), NEW q \in SyllablesOf(s), SylAt(s, p).id = SylAt(s, q).id
      PROVE  p = q
  <2>1. PICK i \in DOMAIN s : IsBundle(s[i]) /\ \E a \in DOMAIN s[i].bundle : p = <<i, a>>
    BY SyllableIn
  <2>2. PICK a \in DOMAIN s[i].bundle : p = <<i, a>>
    BY <2>1
  <2>3. PICK j \in DOMAIN s : IsBundle(s[j]) /\ \E b \in DOMAIN s[j].bundle : q = <<j, b>>
    BY SyllableIn
  <2>4. PICK b \in DOMAIN s[j].bundle : q = <<j, b>>
    BY <2>3
  <2>5. s[i].bundle[a].id = s[j].bundle[b].id
    BY <1>3, <2>1, <2>2, <2>3, <2>4, SyllableIn
  <2>6. s[i].bundle[a].id \in ItemIds(s[i]) /\ s[i].bundle[a].id \in ItemIds(s[j])
    BY <2>1, <2>3, <2>5 DEF ItemIds
  <2>7. i = j
    BY <1>3, <2>6
  <2> QED
    BY <1>3, <2>1, <2>2, <2>4, <2>5, <2>7 DEF ItemOnce
<1>4. ASSUME Once(s), NEW i \in DOMAIN s, NEW j \in DOMAIN s, i # j
      PROVE  ItemIds(s[i]) \cap ItemIds(s[j]) = {}
  BY <1>2, <1>4
<1> QED
  BY <1>1, <1>3, <1>4 DEF Once

\* Items that agree have the same control items before them.
LEMMA BeforeSame ==
  ASSUME NEW s, NEW t, NEW n \in Nat, \A j \in 1 .. n : s[j] = t[j], NEW i \in 1 .. (n + 1)
  PROVE  ControlsBefore(s, i) = ControlsBefore(t, i)
<1>1. \A j \in 1 .. (i - 1) : j \in 1 .. n
  OBVIOUS
<1>2. {j \in 1 .. (i - 1) : IsControl(s[j])} = {j \in 1 .. (i - 1) : IsControl(t[j])}
  BY <1>1
<1> QED
  BY <1>2 DEF ControlsBefore

\* One item more.
Extends(t, s, x) ==
  /\ \A e : e \in Controls(t) <=> e \in Controls(s) \/ (IsControl(x) /\ e = <<x, Total(s)>>)
  /\ \A e : e \in Placement(t) <=>
              e \in Placement(s) \/ \E id \in ItemIds(x) : e = <<id, Total(s)>>
  /\ Total(s) \in Nat
  /\ Total(t) = IF IsControl(x) THEN Total(s) + 1 ELSE Total(s)
  /\ Ids(t) = Ids(s) \cup ItemIds(x)
  /\ Once(t) <=> Once(s) /\ ItemOnce(x) /\ ItemIds(x) \cap Ids(s) = {}

LEMMA AppendExtends ==
  ASSUME NEW s, IsSequence(s), NEW x
  PROVE  Extends(Append(s, x), s, x)
<1> DEFINE t == Append(s, x)
           n == Len(s)
<1>1. /\ IsSequence(t) /\ Len(t) = n + 1 /\ n \in Nat
      /\ DOMAIN s = 1 .. n /\ DOMAIN t = 1 .. (n + 1)
      /\ \A i \in 1 .. n : t[i] = s[i]
      /\ t[n + 1] = x
  BY AppendAny DEF IsSequence
<1> HIDE DEF t, n
<1>2. /\ \A i \in 1 .. n : i \in 1 .. (n + 1) /\ i # n + 1
      /\ n + 1 \in 1 .. (n + 1)
      /\ \A i \in 1 .. (n + 1) : i \in 1 .. n \/ i = n + 1
  BY <1>1
<1>3. \A i \in 1 .. (n + 1) : ControlsBefore(t, i) = ControlsBefore(s, i)
  BY <1>1, BeforeSame
<1>4. ControlsBefore(t, n + 1) = Total(s)
  BY <1>2, <1>3 DEF Total, n
<1>5. ASSUME NEW e
      PROVE  e \in Controls(t) <=> e \in Controls(s) \/ (IsControl(x) /\ e = <<x, Total(s)>>)
  <2>1. e \in Controls(t) <=>
          \E i \in DOMAIN t : IsControl(t[i]) /\ e = <<t[i], ControlsBefore(t, i)>>
    BY ControlsIn
  <2>2. e \in Controls(s) <=>
          \E i \in DOMAIN s : IsControl(s[i]) /\ e = <<s[i], ControlsBefore(s, i)>>
    BY ControlsIn
  <2> QED
    BY <1>1, <1>2, <1>3, <1>4, <2>1, <2>2
<1>6. ASSUME NEW e
      PROVE  e \in Placement(t) <=>
               e \in Placement(s) \/ \E id \in ItemIds(x) : e = <<id, Total(s)>>
  <2>1. e \in Placement(t) <=>
          \E i \in DOMAIN t : \E id \in ItemIds(t[i]) : e = <<id, ControlsBefore(t, i)>>
    BY PlacementIn
  <2>2. e \in Placement(s) <=>
          \E i \in DOMAIN s : \E id \in ItemIds(s[i]) : e = <<id, ControlsBefore(s, i)>>
    BY PlacementIn
  <2> QED
    BY <1>1, <1>2, <1>3, <1>4, <2>1, <2>2
<1>7. Total(s) \in Nat /\ Total(t) = IF IsControl(x) THEN Total(s) + 1 ELSE Total(s)
  <2> DEFINE C == {j \in 1 .. n : IsControl(s[j])}
             D == {j \in 1 .. (n + 1) : IsControl(t[j])}
  <2>1. IsFiniteSet(C)
    <3>1. IsFiniteSet(1 .. n) /\ C \subseteq 1 .. n
      BY <1>1, FS_Interval
    <3> HIDE DEF C
    <3> QED
      BY <3>1, FS_Subset
  <2>2. D = IF IsControl(x) THEN C \cup {n + 1} ELSE C
    BY <1>1, <1>2
  <2>3. n + 1 \notin C /\ Cardinality(C) \in Nat
    BY <1>1, <2>1, FS_CardinalityType
  <2>4. Cardinality(C \cup {n + 1}) = Cardinality(C) + 1
    <3> HIDE DEF C
    <3> QED
      BY <2>1, <2>3, FS_AddElement
  <2>5. n + 1 - 1 = n /\ (n + 1) + 1 - 1 = n + 1
    BY <1>1
  <2>6. Total(s) = Cardinality(C) /\ Total(t) = Cardinality(D)
    BY <1>1, <2>5 DEF Total, ControlsBefore, n
  <2> HIDE DEF C, D
  <2> QED
    BY <2>2, <2>3, <2>4, <2>6
<1>8. Ids(t) = Ids(s) \cup ItemIds(x)
  <2>1. ASSUME NEW id PROVE id \in Ids(t) <=> id \in Ids(s) \/ id \in ItemIds(x)
    <3>1. id \in Ids(t) <=> \E i \in DOMAIN t : id \in ItemIds(t[i])
      BY IdsIn
    <3>2. id \in Ids(s) <=> \E i \in DOMAIN s : id \in ItemIds(s[i])
      BY IdsIn
    <3> QED
      BY <1>1, <1>2, <3>1, <3>2
  <2> QED
    BY <2>1
<1>9. Once(t) <=> Once(s) /\ ItemOnce(x) /\ ItemIds(x) \cap Ids(s) = {}
  <2>1. Once(t) <=> /\ \A i \in DOMAIN t : ItemOnce(t[i])
                    /\ \A i, j \in DOMAIN t : i # j => ItemIds(t[i]) \cap ItemIds(t[j]) = {}
    BY OnceIn
  <2>2. Once(s) <=> /\ \A i \in DOMAIN s : ItemOnce(s[i])
                    /\ \A i, j \in DOMAIN s : i # j => ItemIds(s[i]) \cap ItemIds(s[j]) = {}
    BY OnceIn
  <2>3. ItemIds(x) \cap Ids(s) = {} <=> \A i \in DOMAIN s : ItemIds(x) \cap ItemIds(s[i]) = {}
    <3>1. \A id : id \in Ids(s) <=> \E i \in DOMAIN s : id \in ItemIds(s[i])
      BY IdsIn
    <3> QED
      BY <3>1
  <2>4. ASSUME Once(t) PROVE Once(s) /\ ItemOnce(x) /\ ItemIds(x) \cap Ids(s) = {}
    BY <1>1, <1>2, <2>1, <2>2, <2>3, <2>4
  <2>5. ASSUME Once(s), ItemOnce(x), ItemIds(x) \cap Ids(s) = {} PROVE Once(t)
    <3>1. \A i \in DOMAIN t : ItemOnce(t[i])
      BY <1>1, <1>2, <2>2, <2>5
    <3>2. ASSUME NEW i \in DOMAIN t, NEW j \in DOMAIN t, i # j
          PROVE  ItemIds(t[i]) \cap ItemIds(t[j]) = {}
      <4>1. CASE i \in 1 .. n /\ j \in 1 .. n
        BY <1>1, <2>2, <2>5, <3>2, <4>1
      <4>2. CASE i \in 1 .. n /\ j = n + 1
        BY <1>1, <2>3, <2>5, <4>2
      <4>3. CASE j \in 1 .. n /\ i = n + 1
        BY <1>1, <2>3, <2>5, <4>3
      <4> QED
        BY <1>1, <1>2, <3>2, <4>1, <4>2, <4>3
    <3> QED
      BY <2>1, <3>1, <3>2
  <2> QED
    BY <2>4, <2>5
<1> QED
  BY <1>5, <1>6, <1>7, <1>8, <1>9 DEF Extends, t

\* The same item behind two streams with the same layout.
LEMMA ExtendsSame ==
  ASSUME NEW s, NEW t, SameLayout(s, t), NEW s1, NEW t1, NEW x, NEW y,
         Extends(s1, s, x), Extends(t1, t, y),
         IsControl(x) <=> IsControl(y), IsControl(x) => x = y, ItemIds(x) = ItemIds(y)
  PROVE  SameLayout(s1, t1)
<1>1. Controls(s1) = Controls(t1)
  <2>1. \A e : e \in Controls(s1) <=> e \in Controls(t1)
    BY Zenon DEF Extends, SameLayout
  <2> QED
    BY <2>1
<1>2. Placement(s1) = Placement(t1)
  <2>1. \A e : e \in Placement(s1) <=> e \in Placement(t1)
    BY Zenon DEF Extends, SameLayout
  <2> QED
    BY <2>1
<1>3. Total(s1) = Total(t1)
  BY DEF Extends, SameLayout
<1> QED
  BY <1>1, <1>2, <1>3 DEF SameLayout

LEMMA TotalIs ==
  ASSUME NEW s, IsSequence(s)
  PROVE  Total(s) = Cardinality({j \in DOMAIN s : IsControl(s[j])})
<1> DEFINE n == Len(s)
           C == {j \in 1 .. n : IsControl(s[j])}
<1>1. n \in Nat /\ DOMAIN s = 1 .. n
  BY DEF IsSequence
<1> HIDE DEF n
<1>2. n + 1 - 1 = n
  BY <1>1
<1>3. Total(s) = Cardinality(C)
  BY <1>1, <1>2 DEF Total, ControlsBefore, n
<1> QED
  BY <1>1, <1>3

\* Empty bundles change neither the layout nor the operations.
LEMMA PaddingKeeps ==
  ASSUME NEW s, IsSequence(s), NEW n \in Nat, NEW c, c = s \o AsItems(Padding(n))
  PROVE  IsSequence(c) /\ SameLayout(c, s) /\ Ids(c) = Ids(s) /\ (Once(s) => Once(c))
<1>1. /\ IsSequence(Padding(n)) /\ Len(Padding(n)) = n
      /\ \A i \in 1 .. n : Padding(n)[i] = EmptyBundle
  BY PaddingFacts
<1> DEFINE m == Len(s)
           empty == BundleItem(EmptyBundle)
<1>2. /\ IsSequence(c) /\ Len(c) = m + n /\ m \in Nat
      /\ DOMAIN s = 1 .. m /\ DOMAIN c = 1 .. (m + n)
      /\ \A i \in 1 .. m : c[i] = s[i]
      /\ \A j \in 1 .. n : c[m + j] = empty
      /\ \A i \in DOMAIN c : i \in 1 .. m \/ \E j \in 1 .. n : i = m + j
  <2>1. JoinsBundles(c, s, Padding(n))
    BY <1>1, ItemsConcat
  <2> QED
    BY <1>1, <2>1 DEF JoinsBundles
<1>3. ~IsControl(empty) /\ ItemIds(empty) = {} /\ ItemOnce(empty)
  <2>1. empty.bundle = EmptyBundle /\ IsBundle(empty) /\ DOMAIN EmptyBundle = {}
    BY DEF BundleItem, IsBundle, EmptyBundle
  <2> QED
    BY <2>1 DEF IsControl, IsTerminator, ItemIds, ItemOnce
<1> HIDE DEF m, empty
<1>4. ASSUME NEW i \in 1 .. m PROVE ControlsBefore(c, i) = ControlsBefore(s, i)
  <2>1. i \in 1 .. (m + 1) /\ \A j \in 1 .. m : c[j] = s[j]
    BY <1>2
  <2> QED
    BY <1>2, <2>1, BeforeSame
<1>5. \A i \in DOMAIN c : \/ i \in 1 .. m /\ i \in DOMAIN s /\ c[i] = s[i]
                          \/ i \notin DOMAIN s /\ c[i] = empty
  BY <1>2
<1>6. \A i \in DOMAIN s : i \in DOMAIN c /\ c[i] = s[i]
  BY <1>2
<1>7. Controls(c) = Controls(s)
  <2>1. ASSUME NEW e PROVE e \in Controls(c) <=> e \in Controls(s)
    <3>1. e \in Controls(c) <=>
            \E i \in DOMAIN c : IsControl(c[i]) /\ e = <<c[i], ControlsBefore(c, i)>>
      BY ControlsIn
    <3>2. e \in Controls(s) <=>
            \E i \in DOMAIN s : IsControl(s[i]) /\ e = <<s[i], ControlsBefore(s, i)>>
      BY ControlsIn
    <3> QED
      BY <1>2, <1>3, <1>4, <1>5, <1>6, <3>1, <3>2
  <2> QED
    BY <2>1
<1>8. Placement(c) = Placement(s)
  <2>1. ASSUME NEW e PROVE e \in Placement(c) <=> e \in Placement(s)
    <3>1. e \in Placement(c) <=>
            \E i \in DOMAIN c : \E id \in ItemIds(c[i]) : e = <<id, ControlsBefore(c, i)>>
      BY PlacementIn
    <3>2. e \in Placement(s) <=>
            \E i \in DOMAIN s : \E id \in ItemIds(s[i]) : e = <<id, ControlsBefore(s, i)>>
      BY PlacementIn
    <3> QED
      BY <1>2, <1>3, <1>4, <1>5, <1>6, <3>1, <3>2
  <2> QED
    BY <2>1
<1>9. Total(c) = Total(s)
  <2>1. {j \in DOMAIN c : IsControl(c[j])} = {j \in DOMAIN s : IsControl(s[j])}
    BY <1>3, <1>5, <1>6
  <2> QED
    BY <1>2, <2>1, TotalIs
<1>10. Once(s) => Once(c)
  <2>1. Once(s) <=> /\ \A i \in DOMAIN s : ItemOnce(s[i])
                    /\ \A i, j \in DOMAIN s : i # j => ItemIds(s[i]) \cap ItemIds(s[j]) = {}
    BY OnceIn
  <2>2. Once(c) <=> /\ \A i \in DOMAIN c : ItemOnce(c[i])
                    /\ \A i, j \in DOMAIN c : i # j => ItemIds(c[i]) \cap ItemIds(c[j]) = {}
    BY OnceIn
  <2>3. ASSUME Once(s), NEW i \in DOMAIN c, NEW j \in DOMAIN c, i # j
        PROVE  ItemIds(c[i]) \cap ItemIds(c[j]) = {}
    <3>1. CASE i \in DOMAIN s /\ j \in DOMAIN s
      BY <1>6, <2>1, <2>3, <3>1
    <3>2. CASE i \notin DOMAIN s \/ j \notin DOMAIN s
      BY <1>2, <1>3, <1>5, <3>2
    <3> QED
      BY <3>1, <3>2
  <2>4. ASSUME Once(s), NEW i \in DOMAIN c PROVE ItemOnce(c[i])
    BY <1>3, <1>5, <2>1, <2>4
  <2> QED
    BY <2>2, <2>3, <2>4
<1> QED
  BY <1>2, <1>7, <1>8, <1>9, <1>10, IdsFromPlacement DEF SameLayout

\* A prefix of a stream in which no operation is repeated.
LEMMA OncePrefix ==
  ASSUME NEW s, IsSequence(s), Once(s), NEW n \in 0 .. Len(s)
  PROVE  Once(SubSeq(s, 1, n))
<1> DEFINE u == SubSeq(s, 1, n)
<1>1. /\ IsSequence(u) /\ Len(u) = n /\ Len(s) \in Nat
      /\ \A i \in 1 .. n : u[i] = s[i]
  BY PrefixAny DEF IsSequence
<1> HIDE DEF u
<1>2. \A i \in DOMAIN u : i \in DOMAIN s /\ u[i] = s[i]
  BY <1>1 DEF IsSequence
<1>3. /\ \A i \in DOMAIN s : ItemOnce(s[i])
      /\ \A i, j \in DOMAIN s : i # j => ItemIds(s[i]) \cap ItemIds(s[j]) = {}
  BY OnceIn
<1>4. Once(u)
  <2>1. \A i \in DOMAIN u : ItemOnce(u[i])
    BY <1>2, <1>3
  <2>2. \A i, j \in DOMAIN u : i # j => ItemIds(u[i]) \cap ItemIds(u[j]) = {}
    BY <1>2, <1>3
  <2> QED
    BY <2>1, <2>2, OnceIn
<1> QED
  BY <1>4 DEF u

\* The operation a merge adds to a bundle.
LEMMA MergedItem ==
  ASSUME NEW a, NEW b, IsScalar(b), ~IsEmpty(b), NEW m \in MergeBundles(a, b),
         ~IsTerminator(a), ~IsTerminator(b)
  PROVE  /\ ItemIds(BundleItem(m)) = ItemIds(BundleItem(a)) \cup ItemIds(BundleItem(b))
         /\ ~IsControl(BundleItem(m)) /\ ~IsControl(BundleItem(a)) /\ ~IsControl(BundleItem(b))
         /\ (ItemOnce(BundleItem(a)) /\ ItemIds(BundleItem(a)) \cap ItemIds(BundleItem(b)) = {})
              => ItemOnce(BundleItem(m))
<1>1. \A x : IsBundle(BundleItem(x)) /\ BundleItem(x).bundle = x
  BY DEF IsBundle, BundleItem
<1>0. PICK slot, open : MergeAdds(m, a, b, slot, open)
  BY MergeFacts
<1>2. /\ DOMAIN b = {slot}
      /\ DOMAIN m = DOMAIN a \cup {open} /\ open \notin DOMAIN a
      /\ m[open] = b[slot]
      /\ \A s \in DOMAIN a : m[s] = a[s]
  BY <1>0 DEF MergeAdds
<1>3. ~IsTerminator(m)
  BY <1>2 DEF IsTerminator
<1>4. /\ ItemIds(BundleItem(m)) = {m[s].id : s \in DOMAIN m}
      /\ ItemIds(BundleItem(a)) = {a[s].id : s \in DOMAIN a}
      /\ ItemIds(BundleItem(b)) = {b[s].id : s \in DOMAIN b}
  BY <1>1 DEF ItemIds
<1>5. ItemIds(BundleItem(m)) = ItemIds(BundleItem(a)) \cup ItemIds(BundleItem(b))
  <2>1. \A id : id \in ItemIds(BundleItem(m)) <=>
                  id \in ItemIds(BundleItem(a)) \/ id \in ItemIds(BundleItem(b))
    BY <1>2, <1>4
  <2> QED
    BY <2>1
<1>6. ASSUME ItemOnce(BundleItem(a)), ItemIds(BundleItem(a)) \cap ItemIds(BundleItem(b)) = {}
      PROVE  ItemOnce(BundleItem(m))
  <2>1. \A s, t \in DOMAIN a : a[s].id = a[t].id => s = t
    BY <1>1, <1>6 DEF ItemOnce
  <2>2. \A s \in DOMAIN a : a[s].id # b[slot].id
    BY <1>2, <1>4, <1>6
  <2>3. \A s, t \in DOMAIN m : m[s].id = m[t].id => s = t
    BY <1>2, <2>1, <2>2
  <2> QED
    BY <1>1, <2>3 DEF ItemOnce
<1> QED
  BY <1>1, <1>3, <1>5, <1>6 DEF IsControl
-----------------------------------------------------------------------------
(***************************************************************************)
(* The layout of the packed stream.                                        *)
(***************************************************************************)

\* What has been packed, and the items it was packed from.
Out == packed \o AsItems(segment)
Consumed == SubSeq(items, 1, at)

\* The inductive invariant: no operation is emitted twice, since the ids grow
\* with the operations visited, and what has been packed keeps the layout of
\* the items consumed.
LayoutInv ==
  /\ Once(items)
  /\ phase = "emit" => Ids(items) \subseteq 1 .. at
  /\ phase = "pack" => SameLayout(Out, Consumed) /\ Once(Out)
  /\ phase \in {"verify", "done"} => SameLayout(packed, items) /\ Once(packed)

LEMMA EmptyLayout ==
  Once(<<>>) /\ Ids(<<>>) = {} /\ <<>> \o AsItems(<<>>) = <<>>
<1>1. DOMAIN <<>> = {}
  OBVIOUS
<1>2. SyllablesOf(<<>>) = {}
  BY <1>1 DEF SyllablesOf, BundlesOf
<1>3. AsItems(<<>>) = <<>>
  BY EmptyAny, AsItemsFacts, EqualAny
<1>4. <<>> \o <<>> = <<>>
  BY EmptyAny, ConcatEmptyAny
<1> QED
  BY <1>2, <1>3, <1>4 DEF Once, Ids

LEMMA InitLayout == Init => LayoutInv
  BY EmptyLayout DEF Init, LayoutInv

\* An operation that is emitted is a new one.
LEMMA EmittedOnce ==
  ASSUME NEW s, IsSequence(s), Once(s), NEW k \in Nat, Ids(s) \subseteq 1 .. k,
         NEW t, NEW slot, NEW syl, NEW n, Emitted(s, t, slot, syl, n), syl.id = k + 1
  PROVE  Once(t) /\ Ids(t) \subseteq 1 .. (k + 1)
<1> DEFINE c == s \o AsItems(Padding(n))
           x == BundleItem(BundleWith(slot, syl))
<1>1. IsSequence(c) /\ Once(c) /\ Ids(c) = Ids(s)
  BY PaddingKeeps DEF Emitted
<1>2. t = Append(c, x)
  BY DEF Emitted
<1>3. x.bundle = BundleWith(slot, syl) /\ IsBundle(x)
  BY DEF BundleItem, IsBundle
<1>4. DOMAIN x.bundle = {slot} /\ x.bundle[slot] = syl
  BY <1>3 DEF BundleWith
<1>5. ItemIds(x) = {k + 1} /\ ItemOnce(x)
  BY <1>3, <1>4 DEF ItemIds, ItemOnce
<1> HIDE DEF c, x
<1>6. Extends(t, c, x)
  BY <1>1, <1>2, AppendExtends
<1>7. Ids(t) = Ids(s) \cup {k + 1} /\ (Once(t) <=> k + 1 \notin Ids(s))
  BY <1>1, <1>5, <1>6 DEF Extends
<1> QED
  BY <1>7

\* Emission adds one operation with a new id.
LEMMA EmitLayout ==
  ASSUME TypeInv, LayoutInv, phase = "emit", NEW syl, NEW slots, syl.id = at + 1,
         slots # {} => \E slot \in Slots(Processor) :
                         slots = {slot} /\ SlotSupports(Processor, slot, syl.opcode),
         EmitInSlot(syl, slots), at' = at + 1
  PROVE  LayoutInv'
<1>1. CASE slots = {}
  <2>1. phase' = "error" /\ items' = items
    BY <1>1 DEF EmitInSlot
  <2> QED
    BY <2>1 DEF LayoutInv
<1>2. CASE slots # {}
  <2>1. PICK slot, n : Emitted(items, items', slot, syl, n) /\ UNCHANGED phase
    BY <1>2, EmitInSlotFacts
  <2>2. IsSequence(items) /\ Once(items) /\ at \in Nat /\ Ids(items) \subseteq 1 .. at
    BY DEF TypeInv, LayoutInv
  <2>3. Once(items') /\ Ids(items') \subseteq 1 .. (at + 1)
    BY <2>1, <2>2, EmittedOnce
  <2>4. phase' = "emit"
    BY <2>1
  <2> QED
    BY <2>3, <2>4 DEF LayoutInv
<1> QED
  BY <1>1, <1>2

\* Padding and a bundle behind a segment.
LEMMA SpacedItems ==
  ASSUME NEW done, IsSequence(done), NEW out, IsSequence(out), NEW n \in Nat, NEW b
  PROVE  done \o AsItems(Append(out \o Padding(n), b))
           = Append((done \o AsItems(out)) \o AsItems(Padding(n)), BundleItem(b))
<1> DEFINE pad == Padding(n)
           c == out \o pad
<1>1. IsSequence(pad)
  BY PaddingFacts
<1> HIDE DEF pad
<1>2. Joins(c, out, pad)
  BY <1>1, ConcatAny
<1> HIDE DEF c
<1>3. /\ IsSequence(c) /\ Len(c) = Len(out) + Len(pad) /\ Len(out) \in Nat /\ Len(pad) \in Nat
      /\ \A i \in 1 .. Len(out) : c[i] = out[i]
      /\ \A i \in 1 .. Len(pad) : c[Len(out) + i] = pad[i]
  BY <1>1, <1>2 DEF Joins, IsSequence
<1>4. /\ IsSequence(AsItems(c)) /\ IsSequence(AsItems(out)) /\ IsSequence(AsItems(pad))
      /\ Len(AsItems(c)) = Len(c) /\ Len(AsItems(out)) = Len(out)
      /\ \A i \in 1 .. Len(c) : AsItems(c)[i] = BundleItem(c[i])
      /\ \A i \in 1 .. Len(out) : AsItems(out)[i] = BundleItem(out[i])
  BY <1>1, <1>3, AsItemsFacts
<1>5. AsItems(c) = AsItems(out) \o AsItems(pad)
  <2> DEFINE u == AsItems(c)
             v == AsItems(out) \o AsItems(pad)
  <2>1. JoinsBundles(v, AsItems(out), pad)
    BY <1>1, <1>4, ItemsConcat
  <2> HIDE DEF v
  <2>2. /\ IsSequence(v) /\ Len(v) = Len(out) + Len(pad)
        /\ \A i \in 1 .. Len(out) : v[i] = AsItems(out)[i]
        /\ \A i \in 1 .. Len(pad) : v[Len(out) + i] = BundleItem(pad[i])
    BY <1>4, <2>1 DEF JoinsBundles
  <2>3. ASSUME NEW i \in 1 .. Len(c) PROVE u[i] = v[i]
    <3>1. CASE i \in 1 .. Len(out)
      BY <1>3, <1>4, <2>2, <3>1
    <3>2. CASE ~(i <= Len(out))
      <4>1. i - Len(out) \in 1 .. Len(pad) /\ Len(out) + (i - Len(out)) = i
        BY <1>3, <3>2
      <4>2. c[i] = pad[i - Len(out)] /\ v[i] = BundleItem(pad[i - Len(out)])
        BY <1>3, <2>2, <4>1
      <4> QED
        BY <1>4, <4>2
    <3> QED
      BY <1>3, <3>1, <3>2
  <2> HIDE DEF u
  <2>4. IsSequence(u) /\ Len(u) = Len(c) /\ Len(v) = Len(u)
    BY <1>3, <1>4, <2>2 DEF u
  <2>5. u = v
    BY <2>2, <2>3, <2>4, EqualAny
  <2> QED
    BY <2>5 DEF u, v
<1>6. AsItems(Append(c, b)) = Append(AsItems(c), BundleItem(b))
  BY <1>3, AsItemsAppend
<1>7. done \o Append(AsItems(c), BundleItem(b)) = Append(done \o AsItems(c), BundleItem(b))
  BY <1>4, ConcatAppendAny
<1>8. done \o (AsItems(out) \o AsItems(pad)) = (done \o AsItems(out)) \o AsItems(pad)
  BY <1>4, ConcatAssocAny
<1> QED
  BY <1>5, <1>6, <1>7, <1>8 DEF c, pad

\* One turn of pack_bundle_segment.
LEMMA PackLayout ==
  ASSUME NEW done, IsSequence(done), NEW out, IsSequence(out),
         NEW pre, NEW x, IsSequence(pre), IsBundle(x), ~IsTerminator(x.bundle), IsScalar(x.bundle),
         SameLayout(done \o AsItems(out), pre), Once(done \o AsItems(out)), Once(Append(pre, x)),
         NEW start \in Nat, NEW rdy, Bounded(rdy, start + 6),
         NEW res, res = PackOne(out, x.bundle, start, rdy)
  PROVE  SameLayout(done \o AsItems(res), Append(pre, x)) /\ Once(done \o AsItems(res))
<1> DEFINE b == x.bundle
           y == BundleItem(b)
           whole == done \o AsItems(out)
           post == Append(pre, x)
<1>1. y.bundle = b /\ IsBundle(y)
  BY DEF BundleItem, IsBundle
<1>2. ~IsControl(x) /\ ~IsControl(y) /\ ItemIds(y) = ItemIds(x) /\ (ItemOnce(y) <=> ItemOnce(x))
  BY <1>1 DEF IsControl, ItemIds, ItemOnce
<1>3. Extends(post, pre, x)
  BY AppendExtends
<1>4. IsSequence(whole) /\ Ids(whole) = Ids(pre)
  <2>1. JoinsBundles(whole, done, out)
    BY ItemsConcat
  <2> QED
    BY <2>1, IdsFromPlacement DEF JoinsBundles, SameLayout
<1>5. ItemOnce(x) /\ ItemIds(x) \cap Ids(whole) = {}
  BY <1>3, <1>4 DEF Extends
<1> HIDE DEF post, y
<1>6. ASSUME NEW c, IsSequence(c), SameLayout(c, whole), Once(c)
      PROVE  SameLayout(Append(c, y), post) /\ Once(Append(c, y))
  <2>1. Extends(Append(c, y), c, y)
    BY <1>6, AppendExtends
  <2>2. SameLayout(c, pre) /\ Ids(c) = Ids(whole)
    BY <1>6, IdsFromPlacement DEF SameLayout
  <2>3. SameLayout(Append(c, y), post)
    BY <1>2, <1>3, <2>1, <2>2, ExtendsSame
  <2>4. Once(Append(c, y))
    BY <1>2, <1>5, <1>6, <2>1, <2>2 DEF Extends
  <2> QED
    BY <2>3, <2>4
<1>7. CASE IsEmpty(b) /\ res = Append(out, b)
  <2>1. done \o AsItems(res) = Append(whole, y)
    <3>1. AsItems(Append(out, b)) = Append(AsItems(out), y)
      BY AsItemsAppend DEF y
    <3>2. IsSequence(AsItems(out))
      BY AsItemsFacts
    <3> QED
      BY <1>7, <3>1, <3>2, ConcatAppendAny
  <2> HIDE DEF whole
  <2>2. SameLayout(whole, whole) /\ Once(whole)
    BY DEF SameLayout, whole
  <2> QED
    BY <1>4, <1>6, <2>1, <2>2 DEF post
<1>8. CASE Spaced(res, out, b, start, rdy)
  <2>1. PICK n \in Nat : res = Append(out \o Padding(n), b)
    BY <1>8 DEF Spaced
  <2> DEFINE c == whole \o AsItems(Padding(n))
  <2>2. done \o AsItems(res) = Append(c, y)
    BY <2>1, SpacedItems DEF y
  <2>3. Once(whole)
    OBVIOUS
  <2> HIDE DEF whole
  <2>4. IsSequence(c) /\ SameLayout(c, whole) /\ Once(c)
    <3>1. c = whole \o AsItems(Padding(n))
      OBVIOUS
    <3> HIDE DEF c
    <3> QED
      BY <1>4, <2>3, <3>1, PaddingKeeps
  <2> HIDE DEF c
  <2> QED
    BY <1>6, <2>2, <2>4 DEF post
<1>9. CASE Merged(res, out, b, start, rdy)
  <2> DEFINE last == out[Len(out)]
             f == Front(out)
             g == done \o AsItems(f)
  <2>1. PICK m \in MergeBundles(last, b) :
          /\ ~IsEmpty(b) /\ out # <<>> /\ ~IsTerminator(last)
          /\ res = Append(f, m)
    BY <1>9 DEF Merged
  <2>2. IsSequence(f) /\ out = Append(f, last)
    BY <2>1, FrontAny
  <2>3. IsSequence(g) /\ IsSequence(AsItems(f))
    <3>1. JoinsBundles(g, done, f)
      BY <2>2, ItemsConcat
    <3> QED
      BY <2>2, <3>1, AsItemsFacts DEF JoinsBundles
  <2>4. whole = Append(g, BundleItem(last)) /\ done \o AsItems(res) = Append(g, BundleItem(m))
    <3>1. AsItems(out) = Append(AsItems(f), BundleItem(last))
      BY <2>2, AsItemsAppend
    <3>2. AsItems(res) = Append(AsItems(f), BundleItem(m))
      BY <2>1, <2>2, AsItemsAppend
    <3> HIDE DEF last, f
    <3> QED
      BY <2>3, <3>1, <3>2, ConcatAppendAny
  <2> HIDE DEF g
  <2>5. Extends(whole, g, BundleItem(last)) /\ Extends(Append(g, BundleItem(m)), g, BundleItem(m))
    BY <2>3, <2>4, AppendExtends
  <2>6. /\ ItemIds(BundleItem(m)) = ItemIds(BundleItem(last)) \cup ItemIds(y)
        /\ ~IsControl(BundleItem(m)) /\ ~IsControl(BundleItem(last))
        /\ (ItemOnce(BundleItem(last)) /\ ItemIds(BundleItem(last)) \cap ItemIds(y) = {})
             => ItemOnce(BundleItem(m))
    BY <2>1, MergedItem DEF y
  <2> DEFINE l == BundleItem(last)
             k == BundleItem(m)
             new == Append(g, k)
  <2> HIDE DEF whole, l, k, new, last
  <2>7. Extends(whole, g, l) /\ Extends(new, g, k)
    BY <2>5 DEF l, k, new, last
  <2>8. /\ ItemIds(k) = ItemIds(l) \cup ItemIds(y) /\ ~IsControl(k) /\ ~IsControl(l)
        /\ (ItemOnce(l) /\ ItemIds(l) \cap ItemIds(y) = {}) => ItemOnce(k)
    BY <2>6 DEF l, k, last
  <2>9. SameLayout(whole, pre) /\ Once(whole)
    BY DEF whole
  <2>10. Once(new)
    <3>1. Once(g) /\ ItemOnce(l) /\ ItemIds(l) \cap Ids(g) = {} /\ Ids(whole) = Ids(g) \cup ItemIds(l)
      BY <2>7, <2>9 DEF Extends
    <3>2. ItemIds(y) \cap Ids(g) = {} /\ ItemIds(y) \cap ItemIds(l) = {}
      BY <1>2, <1>5, <3>1
    <3> QED
      BY <2>7, <2>8, <3>1, <3>2 DEF Extends
  <2>11. SameLayout(new, post)
    <3>1. /\ \A e : e \in Controls(new) <=> e \in Controls(g)
          /\ \A e : e \in Controls(whole) <=> e \in Controls(g)
          /\ \A e : e \in Controls(post) <=> e \in Controls(pre)
      BY <1>2, <1>3, <2>7, <2>8 DEF Extends
    <3>2. Total(new) = Total(g) /\ Total(whole) = Total(g) /\ Total(post) = Total(pre)
      BY <1>2, <1>3, <2>7, <2>8 DEF Extends
    <3>3. Total(g) = Total(pre)
      BY <2>9, <3>2 DEF SameLayout
    <3>4. ASSUME NEW e PROVE e \in Placement(new) <=> e \in Placement(post)
      <4>1. e \in Placement(new) <=>
              e \in Placement(g) \/ \E id \in ItemIds(k) : e = <<id, Total(g)>>
        BY <2>7 DEF Extends
      <4>2. e \in Placement(whole) <=>
              e \in Placement(g) \/ \E id \in ItemIds(l) : e = <<id, Total(g)>>
        BY <2>7 DEF Extends
      <4>3. e \in Placement(post) <=>
              e \in Placement(pre) \/ \E id \in ItemIds(x) : e = <<id, Total(pre)>>
        BY <1>3 DEF Extends
      <4> QED
        BY <1>2, <2>8, <2>9, <3>3, <4>1, <4>2, <4>3 DEF SameLayout
    <3>5. Controls(new) = Controls(post)
      BY <2>9, <3>1 DEF SameLayout
    <3>6. Placement(new) = Placement(post)
      BY <3>4
    <3> QED
      BY <3>2, <3>3, <3>5, <3>6 DEF SameLayout
  <2> QED
    BY <2>4, <2>10, <2>11 DEF new, k, l, post, last
<1> QED
  <2>1. \/ IsEmpty(b) /\ res = Append(out, b)
        \/ Spaced(res, out, b, start, rdy)
        \/ Merged(res, out, b, start, rdy)
    BY PackOneCases
  <2> QED
    BY <1>7, <1>8, <1>9, <2>1 DEF post

\* Every step keeps the operations between their control items.
LEMMA NextLayout == TypeInv /\ LayoutInv /\ [Next]_vars => LayoutInv'
<1> SUFFICES ASSUME TypeInv, LayoutInv, [Next]_vars PROVE LayoutInv'
  OBVIOUS
<1>0. /\ IsSequence(items) /\ IsSequence(packed) /\ IsSequence(segment) /\ Once(items)
      /\ at \in Nat /\ Len(items) \in Nat
  BY DEF TypeInv, LayoutInv, IsSequence
<1>1. CASE EmitFunction \/ EmitLabel
  <2>1. PICK l, func : items' = Append(items, LabelItem(l, func))
    BY <1>1 DEF EmitFunction, EmitLabel
  <2> DEFINE x == LabelItem(l, func)
  <2>2. ItemIds(x) = {} /\ ItemOnce(x)
    BY DEF ItemIds, ItemOnce, IsBundle, LabelItem
  <2>3. phase = "emit" /\ phase' = "emit" /\ at' = at + 1
    BY <1>1 DEF EmitFunction, EmitLabel, Visit
  <2> HIDE DEF x
  <2>4. Extends(items', items, x)
    BY <1>0, <2>1, AppendExtends DEF x
  <2>5. Once(items') /\ Ids(items') = Ids(items)
    BY <1>0, <2>2, <2>4 DEF Extends
  <2>6. Ids(items') \subseteq 1 .. at'
    BY <1>0, <2>3, <2>5 DEF LayoutInv
  <2> QED
    BY <2>3, <2>5, <2>6 DEF LayoutInv
<1>2. CASE EmitSyllable
  <2>1. phase = "emit" /\ at' = at + 1
    BY <1>2 DEF EmitSyllable, Visit
  <2>2. CASE Lowerable(Current.syl)
    <3> DEFINE low == Lower(Current.syl, at + 1)
               slots == ScalarSlot(Processor, Current.syl.opcode)
    <3>1. EmitInSlot(low, slots)
      BY <1>2, <2>2 DEF EmitSyllable
    <3>2. low.opcode = Current.syl.opcode /\ low.id = at + 1
      BY DEF Lower, Asm
    <3>3. slots # {} => \E slot \in Slots(Processor) :
                          slots = {slot} /\ SlotSupports(Processor, slot, low.opcode)
      BY <3>2, ScalarSlotSupports
    <3> HIDE DEF low, slots
    <3> QED
      BY <2>1, <3>1, <3>2, <3>3, EmitLayout
  <2>3. CASE ~Lowerable(Current.syl)
    <3>1. phase' = "error" /\ items' = items
      BY <1>2, <2>3 DEF EmitSyllable
    <3> QED
      BY <1>0, <3>1 DEF LayoutInv
  <2> QED
    BY <2>2, <2>3
<1>3. CASE EmitTerminator
  <2> DEFINE low == LowerTerminator(Current, at + 1)
             slots == ControlSlot(Processor, Current.op)
  <2>1. phase = "emit" /\ at' = at + 1 /\ EmitInSlot(low, slots)
    BY <1>3 DEF EmitTerminator, Visit
  <2>2. low.opcode = Current.op /\ low.id = at + 1
    BY DEF LowerTerminator, Asm
  <2>3. slots # {} => \E slot \in Slots(Processor) :
                        slots = {slot} /\ SlotSupports(Processor, slot, low.opcode)
    BY <2>2, ControlSlotSupports
  <2> HIDE DEF low, slots
  <2> QED
    BY <2>1, <2>2, <2>3, EmitLayout
<1>4. CASE KeepScalar
  <2>1. packed' = items /\ items' = items /\ phase' = "verify"
    BY <1>4 DEF KeepScalar
  <2> QED
    BY <1>0, <2>1 DEF LayoutInv, SameLayout
<1>5. CASE StartPack
  <2>1. /\ packed' = <<>> /\ segment' = <<>> /\ items' = items /\ phase' = "pack" /\ at' = 0
    BY <1>5 DEF StartPack, TypeInv
  <2>2. SubSeq(items, 1, 0) = <<>>
    <3>1. 0 \in 0 .. Len(items)
      BY <1>0
    <3>2. IsSequence(SubSeq(items, 1, 0)) /\ Len(SubSeq(items, 1, 0)) = 0
      BY <1>0, <3>1, PrefixAny
    <3> QED
      BY <3>2, EmptyAny, EqualAny
  <2>3. Out' = <<>> /\ Consumed' = <<>>
    BY <2>1, <2>2, EmptyLayout DEF Out, Consumed
  <2>4. SameLayout(Out', Consumed') /\ Once(Out')
    BY <2>3, EmptyLayout DEF SameLayout
  <2> QED
    BY <1>0, <2>1, <2>4 DEF LayoutInv
<1>6. ASSUME phase = "pack", at < Len(items), at' = at + 1, items' = items
      PROVE  /\ Consumed' = Append(Consumed, Item) /\ IsSequence(Consumed) /\ Once(Consumed')
             /\ at + 1 \in DOMAIN items
  <2>1. at \in 0 .. Len(items) /\ at + 1 \in 0 .. Len(items)
    BY <1>0, <1>6
  <2>2. Consumed' = SubSeq(items, 1, at + 1)
    BY <1>6 DEF Consumed
  <2>3. SubSeq(items, 1, at + 1) = Append(Consumed, Item) /\ IsSequence(Consumed)
    BY <1>0, <1>6, <2>1, PrefixStepAny, PrefixAny DEF Consumed, Item
  <2>4. Once(SubSeq(items, 1, at + 1))
    BY <1>0, <2>1, OncePrefix
  <2> QED
    BY <1>0, <1>6, <2>2, <2>3, <2>4 DEF IsSequence
<1>7. CASE PackBundle
  <2>1. /\ phase = "pack" /\ phase' = "pack" /\ at < Len(items) /\ at' = at + 1 /\ items' = items
        /\ packed' = packed /\ segment' = PackOne(segment, Item.bundle, cycle, ready)
        /\ IsBundle(Item) /\ ~IsTerminator(Item.bundle)
    BY <1>7 DEF PackBundle, IsControl
  <2>2. /\ Consumed' = Append(Consumed, Item) /\ IsSequence(Consumed) /\ Once(Consumed')
        /\ IsScalar(Item.bundle)
    BY <1>6, <2>1 DEF TypeInv, Item
  <2>3. SameLayout(packed \o AsItems(segment), Consumed) /\ Once(packed \o AsItems(segment))
    BY <2>1 DEF LayoutInv, Out
  <2>4. cycle \in Nat /\ Bounded(ready, cycle + 6)
    BY DEF TypeInv
  <2>5. /\ SameLayout(packed \o AsItems(segment'), Append(Consumed, Item))
        /\ Once(packed \o AsItems(segment'))
    BY <1>0, <2>1, <2>2, <2>3, <2>4, PackLayout
  <2>6. Out' = packed \o AsItems(segment')
    BY <2>1 DEF Out, AsItems, BundleItem
  <2>7. SameLayout(Out', Consumed') /\ Once(Out')
    BY <2>2, <2>5, <2>6
  <2> QED
    BY <1>0, <2>1, <2>7 DEF LayoutInv
<1>8. CASE EndSegment
  <2>1. /\ phase = "pack" /\ phase' = "pack" /\ at < Len(items) /\ at' = at + 1 /\ items' = items
        /\ packed' = Append(Out, Item) /\ segment' = <<>>
    BY <1>8 DEF EndSegment, Out
  <2>2. /\ Consumed' = Append(Consumed, Item) /\ IsSequence(Consumed) /\ Once(Consumed')
    BY <1>6, <2>1
  <2>3. IsSequence(Out)
    <3>1. JoinsBundles(packed \o AsItems(segment), packed, segment)
      BY <1>0, ItemsConcat
    <3> QED
      BY <3>1 DEF JoinsBundles, Out
  <2>4. Out' = Append(Out, Item)
    <3>1. IsSequence(Append(Out, Item)) /\ AsItems(<<>>) = <<>>
      BY <2>3, AppendAny, EmptyAny, AsItemsFacts, EqualAny
    <3>2. Out' = Append(Out, Item) \o AsItems(<<>>)
      BY <2>1 DEF Out
    <3> QED
      BY <3>1, <3>2, ConcatEmptyAny
  <2>5. Extends(Out', Out, Item) /\ Extends(Consumed', Consumed, Item)
    BY <2>2, <2>3, <2>4, AppendExtends
  <2>6. SameLayout(Out, Consumed) /\ Once(Out) /\ Ids(Out) = Ids(Consumed)
    BY <2>1, IdsFromPlacement DEF LayoutInv, SameLayout
  <2>7. SameLayout(Out', Consumed')
    BY <2>5, <2>6, ExtendsSame
  <2>8. Once(Out')
    BY <2>2, <2>5, <2>6 DEF Extends
  <2> QED
    BY <1>0, <2>1, <2>7, <2>8 DEF LayoutInv
<1>9. CASE FinishPack
  <2>1. phase = "pack" /\ phase' = "verify" /\ packed' = Out /\ items' = items /\ at = Len(items)
    BY <1>9 DEF FinishPack, Out
  <2>2. Consumed = items
    BY <1>0, <2>1, PrefixFullAny DEF Consumed
  <2>3. SameLayout(packed', items) /\ Once(packed')
    BY <2>1, <2>2 DEF LayoutInv
  <2> QED
    BY <1>0, <2>1, <2>3 DEF LayoutInv
<1>10. CASE Verify
  <2>1. phase = "verify" /\ phase' \in {"done", "error"} /\ packed' = packed /\ items' = items
    BY <1>10 DEF Verify
  <2> QED
    BY <1>0, <2>1 DEF LayoutInv
<1>11. CASE UNCHANGED vars
  <2>1. UNCHANGED <<items, packed, segment, at, phase>>
    BY <1>11 DEF vars
  <2>2. Out' = Out /\ Consumed' = Consumed
    BY <2>1 DEF Out, Consumed, AsItems, BundleItem
  <2> QED
    BY <2>1, <2>2 DEF LayoutInv
<1> QED
  BY <1>1, <1>2, <1>3, <1>4, <1>5, <1>7, <1>8, <1>9, <1>10, <1>11 DEF Next, Terminated

(***************************************************************************)
(* pack_scalar_program keeps every label and every terminator, in their    *)
(* order, and leaves every syllable between the two it was emitted         *)
(* between, once: nothing moves over a branch, a call or a label.          *)
(***************************************************************************)
THEOREM PackingKeepsControlFlow == Spec => []ControlFlowKept
<1>1. TypeInv /\ LayoutInv /\ [Next]_vars => LayoutInv'
  BY NextLayout
<1>2. Spec => []LayoutInv
  BY <1>1, InitLayout, SpecTypeInv, PTL DEF Spec
<1>3. LayoutInv => ControlFlowKept
  BY DEF LayoutInv, ControlFlowKept, SameLayout
<1> QED
  BY <1>2, <1>3, PTL
-----------------------------------------------------------------------------
(***************************************************************************)
(* Results and the cycles they are ready at.                               *)
(***************************************************************************)

\* Slot a of item i writes key k.
Writes(s, i, a, k) ==
  i \in DOMAIN s /\ IsBundle(s[i]) /\ a \in DOMAIN s[i].bundle /\ k \in PendingKeys(s[i].bundle[a])

\* The cycle that result is ready at, and the cycles a stream takes.
ResultAt(s, i, a) == CycleAt(s, i) + Latency(s[i].bundle[a].opcode)
Cycles(s) == Cardinality(BundlesOf(s))

\* The function at the end of a stream.
LastFunction(s) == FunctionAt(s, Len(s))

\* The result is what key k holds at the end of the stream.
Visible(s, i, a, k) ==
  /\ Writes(s, i, a, k) /\ FunctionAt(s, i) = LastFunction(s)
  /\ ~ \E j, b : Writes(s, j, b, k) /\ i < j

\* A syllable behind the stream finds its sources ready.
SylReady(s, syl) ==
  \A k \in ReadKeys(syl) : \A i, a : Visible(s, i, a, k) => ResultAt(s, i, a) <= Cycles(s)

\* Slot b of item j does.
ReaderReady(s, j, b) ==
  \A k \in ReadKeys(s[j].bundle[b]) : \A i, a :
    ( /\ Writes(s, i, a, k) /\ i < j /\ FunctionAt(s, i) = FunctionAt(s, j)
      /\ ~ \E r, c : Writes(s, r, c, k) /\ i < r /\ r < j )
      => ResultAt(s, i, a) <= CycleAt(s, j)

LEMMA WritesIn ==
  ASSUME NEW s, NEW k, NEW i, NEW a
  PROVE  Writes(s, i, a, k) <=>
           <<i, a>> \in SyllablesOf(s) /\ k \in PendingKeys(SylAt(s, <<i, a>>))
<1>1. ASSUME Writes(s, i, a, k)
      PROVE  <<i, a>> \in SyllablesOf(s) /\ k \in PendingKeys(SylAt(s, <<i, a>>))
  BY <1>1, SyllableIn DEF Writes
<1>2. ASSUME <<i, a>> \in SyllablesOf(s), k \in PendingKeys(SylAt(s, <<i, a>>))
      PROVE  Writes(s, i, a, k)
  <2>1. PICK j \in DOMAIN s : IsBundle(s[j]) /\ \E b \in DOMAIN s[j].bundle : <<i, a>> = <<j, b>>
    BY <1>2, SyllableIn
  <2>2. i = j /\ a \in DOMAIN s[i].bundle /\ IsBundle(s[i])
    BY <2>1
  <2>3. SylAt(s, <<i, a>>) = s[i].bundle[a]
    BY <2>1, <2>2, SyllableIn
  <2> QED
    BY <1>2, <2>1, <2>2, <2>3 DEF Writes
<1> QED
  BY <1>1, <1>2

\* StallFreeInLayout, syllable by syllable.
LEMMA StallFreeIn ==
  ASSUME NEW s
  PROVE  StallFreeInLayout(s) <=>
           \A j \in DOMAIN s : IsBundle(s[j]) => \A b \in DOMAIN s[j].bundle : ReaderReady(s, j, b)
<1> DEFINE syls == SyllablesOf(s)
           writers(k) == {p \in syls : k \in PendingKeys(SylAt(s, p))}
           sameFunction(p, q) == FunctionAt(s, p[1]) = FunctionAt(s, q[1])
           overwritten(k, p, q) == \E r \in writers(k) : p[1] < r[1] /\ r[1] < q[1]
           covered(k, p, q) ==
             (p[1] < q[1] /\ sameFunction(p, q) /\ ~overwritten(k, p, q)) =>
               CycleAt(s, p[1]) + Latency(SylAt(s, p).opcode) <= CycleAt(s, q[1])
<1>0. StallFreeInLayout(s) <=>
        \A q \in syls : \A k \in ReadKeys(SylAt(s, q)) : \A p \in writers(k) : covered(k, p, q)
  BY Zenon DEF StallFreeInLayout
<1>1. ASSUME NEW k, NEW i, NEW a PROVE <<i, a>> \in writers(k) <=> Writes(s, i, a, k)
  BY WritesIn
<1>2. ASSUME NEW k, NEW p \in writers(k)
      PROVE  \E i, a : p = <<i, a>> /\ Writes(s, i, a, k) /\ SylAt(s, p) = s[i].bundle[a] /\ p[1] = i
  <2>1. PICK i \in DOMAIN s : IsBundle(s[i]) /\ \E a \in DOMAIN s[i].bundle : p = <<i, a>>
    BY SyllableIn
  <2>2. PICK a \in DOMAIN s[i].bundle : p = <<i, a>>
    BY <2>1
  <2> QED
    BY <1>1, <2>1, <2>2, SyllableIn
<1>3. ASSUME NEW k, NEW p, NEW q
      PROVE  overwritten(k, p, q) <=> \E r, c : Writes(s, r, c, k) /\ p[1] < r /\ r < q[1]
  <2>1. ASSUME NEW w \in writers(k), p[1] < w[1], w[1] < q[1]
        PROVE  \E r, c : Writes(s, r, c, k) /\ p[1] < r /\ r < q[1]
    BY <1>2, <2>1
  <2>2. ASSUME NEW r, NEW c, Writes(s, r, c, k), p[1] < r, r < q[1]
        PROVE  overwritten(k, p, q)
    <3>1. <<r, c>> \in writers(k) /\ <<r, c>>[1] = r
      BY <1>1, <2>2
    <3> QED
      BY <2>2, <3>1
  <2> QED
    BY <2>1, <2>2
<1> HIDE DEF syls, writers, overwritten
<1>4. ASSUME StallFreeInLayout(s), NEW j \in DOMAIN s, IsBundle(s[j]), NEW b \in DOMAIN s[j].bundle
      PROVE  ReaderReady(s, j, b)
  <2> DEFINE q == <<j, b>>
  <2>1. q \in syls /\ SylAt(s, q) = s[j].bundle[b] /\ q[1] = j
    BY <1>4, SyllableIn DEF syls
  <2>2. ASSUME NEW k \in ReadKeys(s[j].bundle[b]), NEW i, NEW a,
               Writes(s, i, a, k), i < j, FunctionAt(s, i) = FunctionAt(s, j),
               ~ \E r, c : Writes(s, r, c, k) /\ i < r /\ r < j
        PROVE  ResultAt(s, i, a) <= CycleAt(s, j)
    <3> DEFINE p == <<i, a>>
    <3>1. p \in writers(k) /\ p[1] = i /\ SylAt(s, p) = s[i].bundle[a]
      BY <1>1, <2>2, SyllableIn DEF Writes
    <3>2. covered(k, p, q)
      <4> HIDE DEF p, q, covered
      <4> QED
        BY <1>0, <1>4, <2>1, <2>2, <3>1
    <3>3. ~overwritten(k, p, q)
      <4> HIDE DEF p, q
      <4>1. overwritten(k, p, q) <=> \E r, c : Writes(s, r, c, k) /\ p[1] < r /\ r < q[1]
        BY <1>3
      <4> QED
        BY <2>1, <2>2, <3>1, <4>1
    <3> HIDE DEF p, q
    <3> QED
      BY <2>1, <2>2, <3>1, <3>2, <3>3 DEF ResultAt
  <2> QED
    BY <2>2 DEF ReaderReady
<1>5. ASSUME \A j \in DOMAIN s : IsBundle(s[j]) => \A b \in DOMAIN s[j].bundle : ReaderReady(s, j, b)
      PROVE  StallFreeInLayout(s)
  <2>1. ASSUME NEW q \in syls, NEW k \in ReadKeys(SylAt(s, q)), NEW p \in writers(k) PROVE covered(k, p, q)
    <3>1. PICK j \in DOMAIN s : IsBundle(s[j]) /\ \E b \in DOMAIN s[j].bundle : q = <<j, b>>
      BY SyllableIn DEF syls
    <3>2. PICK b \in DOMAIN s[j].bundle : q = <<j, b>>
      BY <3>1
    <3>3. SylAt(s, q) = s[j].bundle[b] /\ q[1] = j
      BY <3>1, <3>2, SyllableIn
    <3>4. PICK i, a : p = <<i, a>> /\ Writes(s, i, a, k) /\ SylAt(s, p) = s[i].bundle[a] /\ p[1] = i
      BY <1>2
    <3>5. overwritten(k, p, q) <=> \E r, c : Writes(s, r, c, k) /\ p[1] < r /\ r < q[1]
      BY <1>3
    <3>6. ReaderReady(s, j, b)
      BY <1>5, <3>1
    <3>7. ASSUME i < j, FunctionAt(s, i) = FunctionAt(s, j),
                 ~ \E r, c : Writes(s, r, c, k) /\ i < r /\ r < j
          PROVE  ResultAt(s, i, a) <= CycleAt(s, j)
      BY <3>3, <3>4, <3>6, <3>7 DEF ReaderReady
    <3> QED
      BY <3>3, <3>4, <3>5, <3>7 DEF ResultAt
  <2> QED
    BY <1>0, <2>1
<1> QED
  BY <1>4, <1>5

\* Stream c starts with s.
StartsWith(c, s) ==
  /\ IsSequence(c) /\ IsSequence(s) /\ Len(s) <= Len(c)
  /\ \A i \in 1 .. Len(s) : c[i] = s[i]

\* A prefix of a stream has the writes, functions and cycles of the stream.
LEMMA PrefixFacts ==
  ASSUME NEW c, NEW s, StartsWith(c, s)
  PROVE  /\ Len(s) \in Nat /\ Len(c) \in Nat /\ DOMAIN s = 1 .. Len(s) /\ DOMAIN c = 1 .. Len(c)
         /\ \A i \in 1 .. Len(s) : i \in DOMAIN c /\ c[i] = s[i]
         /\ \A i \in 1 .. Len(s) : \A a, k : Writes(c, i, a, k) <=> Writes(s, i, a, k)
         /\ \A i \in 1 .. Len(s) : FunctionAt(c, i) = FunctionAt(s, i)
         /\ \A i \in 1 .. Len(s) : CycleAt(c, i) = CycleAt(s, i)
         /\ CycleAt(c, Len(s) + 1) = Cycles(s)
<1> DEFINE m == Len(s)
           n == Len(c)
<1>1. /\ m \in Nat /\ n \in Nat /\ m <= n /\ DOMAIN s = 1 .. m /\ DOMAIN c = 1 .. n
      /\ \A i \in 1 .. m : c[i] = s[i]
  BY DEF StartsWith, IsSequence
<1> HIDE DEF m, n
<1>2. \A i \in 1 .. m : i \in DOMAIN c /\ i \in DOMAIN s
  BY <1>1
<1>3. \A i \in 1 .. m : \A a, k : Writes(c, i, a, k) <=> Writes(s, i, a, k)
  BY <1>1, <1>2 DEF Writes
<1>4. ASSUME NEW i \in 1 .. m PROVE FunctionAt(c, i) = FunctionAt(s, i)
  <2>1. \A j \in 1 .. i : c[j] = s[j]
    BY <1>1
  <2>2. {j \in 1 .. i : ~IsBundle(c[j]) /\ c[j].func} = {j \in 1 .. i : ~IsBundle(s[j]) /\ s[j].func}
    BY <2>1
  <2> QED
    BY <2>2 DEF FunctionAt
<1>5. ASSUME NEW i \in 1 .. (m + 1)
      PROVE  {j \in BundlesOf(c) : j < i} = {j \in BundlesOf(s) : j < i}
  <2>1. ASSUME NEW j \in Nat, j < i PROVE j \in BundlesOf(c) <=> j \in BundlesOf(s)
    <3>1. j \in 1 .. n <=> j \in 1 .. m
      BY <1>1, <2>1
    <3>2. j \in 1 .. m => c[j] = s[j]
      BY <1>1
    <3> QED
      BY <1>1, <3>1, <3>2 DEF BundlesOf
  <2>2. BundlesOf(c) \subseteq Nat /\ BundlesOf(s) \subseteq Nat
    BY <1>1 DEF BundlesOf
  <2> QED
    BY <2>1, <2>2
<1>6. ASSUME NEW i \in 1 .. m PROVE CycleAt(c, i) = CycleAt(s, i)
  <2>1. i \in 1 .. (m + 1)
    BY <1>1
  <2> QED
    BY <1>5, <2>1 DEF CycleAt
<1>7. CycleAt(c, m + 1) = Cycles(s)
  <2>1. m + 1 \in 1 .. (m + 1) /\ \A j \in BundlesOf(s) : j < m + 1
    BY <1>1 DEF BundlesOf
  <2>2. {j \in BundlesOf(s) : j < m + 1} = BundlesOf(s)
    BY <2>1
  <2>3. {j \in BundlesOf(c) : j < m + 1} = BundlesOf(s)
    BY <1>5, <2>1, <2>2
  <2> QED
    BY <2>3 DEF CycleAt, Cycles
<1> QED
  BY <1>1, <1>2, <1>3, <1>4, <1>6, <1>7 DEF m, n

\* The counts are finite and grow along the stream.
LEMMA CountFacts ==
  ASSUME NEW s, IsSequence(s)
  PROVE  /\ Cycles(s) \in Nat /\ IsFiniteSet(BundlesOf(s)) /\ LastFunction(s) \in Nat
         /\ \A i \in DOMAIN s : CycleAt(s, i) \in Nat /\ CycleAt(s, i) <= Cycles(s)
         /\ \A i \in DOMAIN s : IsBundle(s[i]) => CycleAt(s, i) + 1 <= Cycles(s)
         /\ \A i \in DOMAIN s : FunctionAt(s, i) \in Nat /\ FunctionAt(s, i) <= LastFunction(s)
<1> DEFINE n == Len(s)
           B == BundlesOf(s)
           F(i) == {j \in 1 .. i : ~IsBundle(s[j]) /\ s[j].func}
<1>1. n \in Nat /\ DOMAIN s = 1 .. n
  BY DEF IsSequence
<1> HIDE DEF n
<1>2. IsFiniteSet(B)
  <2>1. IsFiniteSet(1 .. n) /\ B \subseteq 1 .. n
    BY <1>1, FS_Interval DEF BundlesOf
  <2> HIDE DEF B
  <2> QED
    BY <2>1, FS_Subset
<1>3. ASSUME NEW i \in 0 .. n PROVE IsFiniteSet(F(i))
  <2>1. IsFiniteSet(1 .. i) /\ F(i) \subseteq 1 .. i /\ i \in Int
    BY <1>1, FS_Interval
  <2> HIDE DEF F
  <2> QED
    BY <2>1, FS_Subset
<1>4. ASSUME NEW i \in DOMAIN s
      PROVE  /\ CycleAt(s, i) \in Nat /\ CycleAt(s, i) <= Cycles(s)
             /\ IsBundle(s[i]) => CycleAt(s, i) + 1 <= Cycles(s)
  <2> DEFINE C == {j \in B : j < i}
  <2>1. C \subseteq B /\ i \notin C
    BY <1>1 DEF BundlesOf
  <2>2. IsBundle(s[i]) => C \cup {i} \subseteq B
    BY <2>1 DEF BundlesOf
  <2>3. CycleAt(s, i) = Cardinality(C) /\ Cycles(s) = Cardinality(B)
    BY DEF CycleAt, Cycles
  <2> HIDE DEF B, C
  <2>4. IsFiniteSet(C) /\ Cardinality(C) <= Cardinality(B) /\ Cardinality(C) \in Nat
    BY <1>2, <2>1, FS_Subset, FS_CardinalityType
  <2>5. Cardinality(C \cup {i}) = Cardinality(C) + 1
    BY <2>1, <2>4, FS_AddElement
  <2>6. C \cup {i} \subseteq B => Cardinality(C \cup {i}) <= Cardinality(B)
    BY <1>2, FS_Subset
  <2> QED
    BY <2>2, <2>3, <2>4, <2>5, <2>6
<1>5. ASSUME NEW i \in 0 .. n PROVE FunctionAt(s, i) \in Nat /\ FunctionAt(s, i) <= LastFunction(s)
  <2>1. F(i) \subseteq F(n) /\ n \in 0 .. n
    BY <1>1
  <2>2. FunctionAt(s, i) = Cardinality(F(i)) /\ LastFunction(s) = Cardinality(F(n))
    BY DEF FunctionAt, LastFunction, n
  <2> HIDE DEF F
  <2> QED
    BY <1>3, <2>1, <2>2, FS_Subset, FS_CardinalityType
<1>6. LastFunction(s) \in Nat
  BY <1>1, <1>5 DEF LastFunction, n
<1>7. Cycles(s) \in Nat
  BY <1>2, FS_CardinalityType DEF Cycles
<1>8. \A i \in DOMAIN s : i \in 0 .. n
  BY <1>1
<1> QED
  BY <1>2, <1>4, <1>5, <1>6, <1>7, <1>8

\* A reader within s, and one that follows it.
LEMMA ReaderWithin ==
  ASSUME NEW c, NEW s, StartsWith(c, s), NEW j \in DOMAIN s, NEW b
  PROVE  ReaderReady(c, j, b) <=> ReaderReady(s, j, b)
<1> DEFINE m == Len(s)
<1>1. /\ m \in Nat /\ DOMAIN s = 1 .. m /\ DOMAIN c \subseteq Nat
      /\ \A i \in 1 .. m : i \in DOMAIN c /\ c[i] = s[i]
      /\ \A i \in 1 .. m : \A a, k : Writes(c, i, a, k) <=> Writes(s, i, a, k)
      /\ \A i \in 1 .. m : FunctionAt(c, i) = FunctionAt(s, i)
      /\ \A i \in 1 .. m : CycleAt(c, i) = CycleAt(s, i)
  BY PrefixFacts
<1>2. DOMAIN c = 1 .. Len(c) /\ Len(c) \in Nat
  BY PrefixFacts
<1> HIDE DEF m
<1>3. \A i \in DOMAIN c : i < j => i \in 1 .. m
  BY <1>1, <1>2
<1>4. \A i, a, k : Writes(c, i, a, k) => i \in DOMAIN c
  BY DEF Writes
<1>5. \A i, a, k : Writes(s, i, a, k) => i \in 1 .. m
  BY <1>1 DEF Writes
<1>6. \A i, a, k : i < j => (Writes(c, i, a, k) <=> Writes(s, i, a, k))
  BY <1>1, <1>3, <1>4, <1>5
<1>7. \A i \in 1 .. m : \A a : ResultAt(c, i, a) = ResultAt(s, i, a)
  BY <1>1 DEF ResultAt
<1>8. /\ j \in 1 .. m /\ c[j] = s[j] /\ CycleAt(c, j) = CycleAt(s, j)
      /\ FunctionAt(c, j) = FunctionAt(s, j)
  BY <1>1
<1>9. \A i, k : (\E r, d : Writes(c, r, d, k) /\ i < r /\ r < j)
                  <=> (\E r, d : Writes(s, r, d, k) /\ i < r /\ r < j)
  BY <1>6
<1>10. \A i, a, k : Writes(s, i, a, k) =>
          ResultAt(c, i, a) = ResultAt(s, i, a) /\ FunctionAt(c, i) = FunctionAt(s, i)
  BY <1>1, <1>5, <1>7
<1>11. ASSUME ReaderReady(c, j, b) PROVE ReaderReady(s, j, b)
  BY <1>6, <1>8, <1>9, <1>10, <1>11 DEF ReaderReady
<1>12. ASSUME ReaderReady(s, j, b) PROVE ReaderReady(c, j, b)
  BY <1>6, <1>8, <1>9, <1>10, <1>12 DEF ReaderReady
<1> QED
  BY <1>11, <1>12

LEMMA ReaderNext ==
  ASSUME NEW c, NEW s, StartsWith(c, s), Len(s) + 1 \in DOMAIN c, IsBundle(c[Len(s) + 1]), NEW b
  PROVE  ReaderReady(c, Len(s) + 1, b) <=> SylReady(s, c[Len(s) + 1].bundle[b])
<1> DEFINE m == Len(s)
           j == m + 1
<1>1. /\ m \in Nat /\ DOMAIN s = 1 .. m
      /\ \A i \in 1 .. m : i \in DOMAIN c /\ c[i] = s[i]
      /\ \A i \in 1 .. m : \A a, k : Writes(c, i, a, k) <=> Writes(s, i, a, k)
      /\ \A i \in 1 .. m : FunctionAt(c, i) = FunctionAt(s, i)
      /\ \A i \in 1 .. m : CycleAt(c, i) = CycleAt(s, i)
      /\ CycleAt(c, j) = Cycles(s)
  BY PrefixFacts
<1>2. DOMAIN c = 1 .. Len(c) /\ Len(c) \in Nat
  BY PrefixFacts
<1>3. FunctionAt(c, j) = LastFunction(s)
  <2>1. IsBundle(c[j])
    OBVIOUS
  <2> HIDE DEF m
  <2>2. {i \in 1 .. j : ~IsBundle(c[i]) /\ c[i].func} = {i \in 1 .. m : ~IsBundle(s[i]) /\ s[i].func}
    BY <1>1, <2>1
  <2>3. LastFunction(s) = Cardinality({i \in 1 .. m : ~IsBundle(s[i]) /\ s[i].func})
    BY DEF LastFunction, FunctionAt, m
  <2> HIDE DEF j
  <2> QED
    BY <2>2, <2>3 DEF FunctionAt
<1>4. j \in DOMAIN c
  OBVIOUS
<1> HIDE DEF m
<1>5. \A i \in DOMAIN c : i < j <=> i \in 1 .. m
  BY <1>1, <1>2
<1> HIDE DEF j
<1>6. \A i, a, k : Writes(c, i, a, k) => i \in DOMAIN c
  BY DEF Writes
<1>7. \A i, a, k : Writes(s, i, a, k) => i \in 1 .. m
  BY <1>1 DEF Writes
<1>8. \A i, a, k : (Writes(c, i, a, k) /\ i < j) <=> Writes(s, i, a, k)
  BY <1>1, <1>5, <1>6, <1>7
<1>9. \A i, a, k : Writes(s, i, a, k) =>
          ResultAt(c, i, a) = ResultAt(s, i, a) /\ FunctionAt(c, i) = FunctionAt(s, i)
  BY <1>1, <1>7 DEF ResultAt
<1>10. \A i, k : (\E r, d : Writes(c, r, d, k) /\ i < r /\ r < j)
                   <=> (\E r, d : Writes(s, r, d, k) /\ i < r)
  BY <1>8
<1>11. ASSUME ReaderReady(c, j, b) PROVE SylReady(s, c[j].bundle[b])
  BY <1>1, <1>3, <1>8, <1>9, <1>10, <1>11 DEF ReaderReady, SylReady, Visible
<1>12. ASSUME SylReady(s, c[j].bundle[b]) PROVE ReaderReady(c, j, b)
  BY <1>1, <1>3, <1>8, <1>9, <1>10, <1>12 DEF ReaderReady, SylReady, Visible
<1> QED
  BY <1>11, <1>12 DEF j, m

LEMMA AppendStartsWith ==
  ASSUME NEW s, IsSequence(s), NEW x
  PROVE  StartsWith(Append(s, x), s)
<1> DEFINE t == Append(s, x)
<1>1. IsSequence(t) /\ Len(t) = Len(s) + 1 /\ \A i \in 1 .. Len(s) : t[i] = s[i]
  BY AppendAny
<1>2. Len(s) \in Nat
  BY DEF IsSequence
<1> HIDE DEF t
<1>3. StartsWith(t, s)
  BY <1>1, <1>2 DEF StartsWith
<1> QED
  BY <1>3 DEF t

\* One item more: its sources have to be ready.
LEMMA StallAppend ==
  ASSUME NEW s, IsSequence(s), NEW x
  PROVE  StallFreeInLayout(Append(s, x)) <=>
           /\ StallFreeInLayout(s)
           /\ IsBundle(x) => \A b \in DOMAIN x.bundle : SylReady(s, x.bundle[b])
<1> DEFINE t == Append(s, x)
           m == Len(s)
<1>1. /\ DOMAIN t = 1 .. (m + 1) /\ t[m + 1] = x /\ m \in Nat /\ DOMAIN s = 1 .. m
      /\ \A i \in 1 .. m : t[i] = s[i]
  BY AppendAny DEF IsSequence
<1>2. StartsWith(t, s)
  BY AppendStartsWith
<1> HIDE DEF t
<1>3. \A j \in DOMAIN s : \A b : ReaderReady(t, j, b) <=> ReaderReady(s, j, b)
  BY <1>2, ReaderWithin
<1>4. IsBundle(x) => \A b : ReaderReady(t, m + 1, b) <=> SylReady(s, x.bundle[b])
  <2>1. m + 1 \in DOMAIN t
    BY <1>1
  <2>2. ASSUME IsBundle(x), NEW b PROVE ReaderReady(t, m + 1, b) <=> SylReady(s, t[m + 1].bundle[b])
    BY <1>1, <1>2, <2>1, <2>2, ReaderNext
  <2> QED
    BY <1>1, <2>2
<1> HIDE DEF m
<1>5. /\ \A j \in DOMAIN s : j \in DOMAIN t /\ t[j] = s[j]
      /\ m + 1 \in DOMAIN t
      /\ \A j \in DOMAIN t : j \in DOMAIN s \/ j = m + 1
  BY <1>1
<1>6. StallFreeInLayout(t) <=>
        \A j \in DOMAIN t : IsBundle(t[j]) => \A b \in DOMAIN t[j].bundle : ReaderReady(t, j, b)
  BY StallFreeIn
<1>7. StallFreeInLayout(s) <=>
        \A j \in DOMAIN s : IsBundle(s[j]) => \A b \in DOMAIN s[j].bundle : ReaderReady(s, j, b)
  BY StallFreeIn
<1>8. ASSUME StallFreeInLayout(t)
      PROVE  /\ StallFreeInLayout(s)
             /\ IsBundle(x) => \A b \in DOMAIN x.bundle : SylReady(s, x.bundle[b])
  BY <1>1, <1>3, <1>4, <1>5, <1>6, <1>7, <1>8
<1>9. ASSUME StallFreeInLayout(s), IsBundle(x) => \A b \in DOMAIN x.bundle : SylReady(s, x.bundle[b])
      PROVE  StallFreeInLayout(t)
  BY <1>1, <1>3, <1>4, <1>5, <1>6, <1>7, <1>9
<1> QED
  BY <1>8, <1>9 DEF t

\* c is s with the items of t behind it, all of them bundles.
Issues(c, s, t) ==
  /\ IsSequence(s) /\ IsSequence(t) /\ Joins(c, s, t)
  /\ \A j \in 1 .. Len(t) : IsBundle(t[j])

\* Bundles behind a stream issue in the cycles after it.
LEMMA IssuesFacts ==
  ASSUME NEW c, NEW s, NEW t, Issues(c, s, t)
  PROVE  /\ StartsWith(c, s) /\ Len(s) \in Nat /\ Len(t) \in Nat
         /\ DOMAIN c = 1 .. (Len(s) + Len(t)) /\ DOMAIN s = 1 .. Len(s)
         /\ \A i \in DOMAIN c : i \in 1 .. Len(s) \/ \E j \in 1 .. Len(t) : i = Len(s) + j
         /\ \A j \in 1 .. Len(t) : /\ c[Len(s) + j] = t[j] /\ Len(s) + j \in DOMAIN c
                                   /\ CycleAt(c, Len(s) + j) = Cycles(s) + j - 1
                                   /\ FunctionAt(c, Len(s) + j) = LastFunction(s)
         /\ Cycles(c) = Cycles(s) + Len(t)
         /\ LastFunction(c) = LastFunction(s)
<1> DEFINE m == Len(s)
           n == Len(t)
<1>1. /\ m \in Nat /\ n \in Nat /\ IsSequence(c) /\ IsSequence(s)
      /\ Len(c) = m + n /\ DOMAIN c = 1 .. (m + n) /\ DOMAIN s = 1 .. m
      /\ \A i \in 1 .. m : c[i] = s[i]
      /\ \A j \in 1 .. n : c[m + j] = t[j] /\ IsBundle(t[j])
  BY DEF Issues, Joins, IsSequence
<1>2. StartsWith(c, s)
  <2> HIDE DEF n
  <2> QED
    BY <1>1 DEF StartsWith
<1>3. Cycles(s) \in Nat /\ IsFiniteSet(BundlesOf(s))
  BY <1>1, CountFacts
<1> HIDE DEF m, n
<1>4. \A i \in DOMAIN c : i \notin 1 .. m => i - m \in 1 .. n /\ m + (i - m) = i
  BY <1>1
<1>5. \A i \in DOMAIN c : i \in 1 .. m \/ \E j \in 1 .. n : i = m + j
  BY <1>4
<1>6. \A i \in (m + 1) .. (m + n) : i \in DOMAIN c /\ IsBundle(c[i])
  <2>1. ASSUME NEW i \in (m + 1) .. (m + n) PROVE i \in DOMAIN c /\ IsBundle(c[i])
    <3>1. i - m \in 1 .. n /\ m + (i - m) = i /\ i \in 1 .. (m + n)
      BY <1>1
    <3> QED
      BY <1>1, <3>1
  <2> QED
    BY <2>1
<1>7. ASSUME NEW k \in 0 .. n
      PROVE  Cardinality(BundlesOf(s) \cup ((m + 1) .. (m + k))) = Cycles(s) + k
  <2> DEFINE I == (m + 1) .. (m + k)
             B == BundlesOf(s)
  <2>1. IsFiniteSet(I) /\ Cardinality(I) = k
    <3>1. /\ IsFiniteSet((m + 1) .. (m + k))
          /\ Cardinality((m + 1) .. (m + k)) = IF m + 1 > m + k THEN 0 ELSE (m + k) - (m + 1) + 1
      BY <1>1, FS_Interval
    <3> DEFINE card == Cardinality(I)
    <3>2. card = IF m + 1 > m + k THEN 0 ELSE (m + k) - (m + 1) + 1
      BY <3>1
    <3> HIDE DEF card
    <3>3. card = k
      BY <1>1, <3>2
    <3> QED
      BY <3>1, <3>3 DEF card
  <2>2. B \cap I = {}
    BY <1>1 DEF BundlesOf
  <2>3. Cardinality({}) = 0
    BY FS_EmptySet
  <2>4. IsFiniteSet(B) /\ Cardinality(B) = Cycles(s)
    BY <1>3 DEF Cycles
  <2> HIDE DEF I, B
  <2>5. Cardinality(B \cup I) = Cardinality(B) + Cardinality(I) - Cardinality(B \cap I)
    BY <2>1, <2>4, FS_Union
  <2>6. Cardinality(B \cup I) = Cycles(s) + k
    <3>1. Cardinality(B \cap I) = 0
      BY <2>2, <2>3
    <3>2. Cardinality(B \cup I) = Cycles(s) + k - 0
      BY <2>1, <2>4, <2>5, <3>1
    <3> QED
      BY <1>3, <3>2
  <2> QED
    BY <2>6 DEF I, B
<1>8. ASSUME NEW j \in 1 .. n PROVE CycleAt(c, m + j) = Cycles(s) + j - 1
  <2>1. {i \in BundlesOf(c) : i < m + j} = BundlesOf(s) \cup ((m + 1) .. (m + (j - 1)))
    <3>1. ASSUME NEW i \in BundlesOf(c), i < m + j, i \notin 1 .. m PROVE i \in (m + 1) .. (m + (j - 1))
      BY <1>1, <3>1 DEF BundlesOf
    <3>2. ASSUME NEW i \in (m + 1) .. (m + (j - 1)) PROVE i \in BundlesOf(c) /\ i < m + j
      <4>1. i \in (m + 1) .. (m + n) /\ i < m + j
        BY <1>1
      <4> QED
        BY <1>6, <4>1 DEF BundlesOf
    <3>3. \A i \in 1 .. m : i < m + j /\ (i \in BundlesOf(c) <=> i \in BundlesOf(s))
      BY <1>1 DEF BundlesOf
    <3>4. BundlesOf(s) \subseteq 1 .. m
      BY <1>1 DEF BundlesOf
    <3> QED
      BY <3>1, <3>2, <3>3, <3>4
  <2>2. j - 1 \in 0 .. n /\ Cycles(s) + (j - 1) = Cycles(s) + j - 1
    BY <1>1, <1>3
  <2> QED
    BY <1>7, <2>1, <2>2 DEF CycleAt
<1>9. Cycles(c) = Cycles(s) + n
  <2>1. BundlesOf(c) = BundlesOf(s) \cup ((m + 1) .. (m + n))
    <3>1. \A i \in 1 .. (m + n) : i \in 1 .. m \/ i \in (m + 1) .. (m + n)
      BY <1>1
    <3>2. \A i \in 1 .. m : i \in BundlesOf(c) <=> i \in BundlesOf(s)
      BY <1>1 DEF BundlesOf
    <3>3. BundlesOf(s) \subseteq 1 .. m /\ BundlesOf(c) \subseteq 1 .. (m + n)
      BY <1>1 DEF BundlesOf
    <3>4. (m + 1) .. (m + n) \subseteq BundlesOf(c)
      BY <1>6 DEF BundlesOf
    <3> QED
      BY <3>1, <3>2, <3>3, <3>4
  <2>2. n \in 0 .. n
    BY <1>1
  <2> QED
    BY <1>7, <2>1, <2>2 DEF Cycles
<1>10. ASSUME NEW k \in 0 .. n PROVE FunctionAt(c, m + k) = LastFunction(s)
  <2>1. {i \in 1 .. (m + k) : ~IsBundle(c[i]) /\ c[i].func} = {i \in 1 .. m : ~IsBundle(s[i]) /\ s[i].func}
    <3>1. \A i \in 1 .. (m + k) : i \in 1 .. m \/ i \in (m + 1) .. (m + n)
      BY <1>1
    <3>2. \A i \in 1 .. m : i \in 1 .. (m + k)
      BY <1>1
    <3> QED
      BY <1>1, <1>6, <3>1, <3>2
  <2>2. LastFunction(s) = Cardinality({i \in 1 .. m : ~IsBundle(s[i]) /\ s[i].func})
    BY DEF LastFunction, FunctionAt, m
  <2> QED
    BY <2>1, <2>2 DEF FunctionAt
<1>11. LastFunction(c) = LastFunction(s)
  <2>1. n \in 0 .. n
    BY <1>1
  <2> QED
    BY <1>1, <1>10, <2>1 DEF LastFunction
<1>12. \A j \in 1 .. n : j \in 0 .. n /\ m + j \in 1 .. (m + n)
  BY <1>1
<1> QED
  BY <1>1, <1>2, <1>5, <1>8, <1>9, <1>10, <1>11, <1>12 DEF m, n

\* Empty bundles read nothing.
LEMMA EmptyIssues ==
  ASSUME NEW c, NEW s, NEW t, Issues(c, s, t),
         \A j \in 1 .. Len(t) : t[j] = BundleItem(EmptyBundle)
  PROVE  /\ \A i, a, k : Writes(c, i, a, k) <=> Writes(s, i, a, k)
         /\ StallFreeInLayout(s) => StallFreeInLayout(c)
<1>2. IsBundle(BundleItem(EmptyBundle)) /\ BundleItem(EmptyBundle).bundle = EmptyBundle
  BY DEF IsBundle, BundleItem
<1>3. DOMAIN EmptyBundle = {}
  BY DEF EmptyBundle
<1>6. /\ StartsWith(c, s) /\ DOMAIN s = 1 .. Len(s)
      /\ \A i \in DOMAIN c : i \in 1 .. Len(s) \/ \E j \in 1 .. Len(t) : i = Len(s) + j
      /\ \A j \in 1 .. Len(t) : c[Len(s) + j] = t[j]
  BY IssuesFacts
<1>7. \A i \in DOMAIN c : i \in DOMAIN s \/ (IsBundle(c[i]) /\ DOMAIN c[i].bundle = {})
  BY <1>2, <1>3, <1>6
<1>8. ASSUME NEW i, NEW a, NEW k PROVE Writes(c, i, a, k) <=> Writes(s, i, a, k)
  <2>1. i \in DOMAIN s => (Writes(c, i, a, k) <=> Writes(s, i, a, k))
    BY <1>6, PrefixFacts
  <2>2. Writes(s, i, a, k) => i \in DOMAIN s
    BY DEF Writes
  <2>3. Writes(c, i, a, k) => i \in DOMAIN s
    BY <1>7 DEF Writes
  <2> QED
    BY <2>1, <2>2, <2>3
<1>9. ASSUME StallFreeInLayout(s) PROVE StallFreeInLayout(c)
  <2>1. \A j \in DOMAIN s : IsBundle(s[j]) => \A b \in DOMAIN s[j].bundle : ReaderReady(s, j, b)
    BY <1>9, StallFreeIn
  <2>2. \A j \in DOMAIN s : c[j] = s[j] /\ \A b : ReaderReady(c, j, b) <=> ReaderReady(s, j, b)
    BY <1>6, ReaderWithin DEF StartsWith
  <2>3. \A j \in DOMAIN c : IsBundle(c[j]) => \A b \in DOMAIN c[j].bundle : ReaderReady(c, j, b)
    BY <1>7, <2>1, <2>2
  <2> QED
    BY <2>3, StallFreeIn
<1> QED
  BY <1>8, <1>9

LEMMA PaddingIssues ==
  ASSUME NEW s, IsSequence(s), NEW n \in Nat
  PROVE  /\ Issues(s \o AsItems(Padding(n)), s, AsItems(Padding(n)))
         /\ Len(AsItems(Padding(n))) = n
         /\ \A j \in 1 .. n : AsItems(Padding(n))[j] = BundleItem(EmptyBundle)
<1> DEFINE t == AsItems(Padding(n))
<1>1. /\ IsSequence(t) /\ Len(t) = n
      /\ \A j \in 1 .. n : t[j] = BundleItem(EmptyBundle)
  <2>1. IsSequence(Padding(n)) /\ Len(Padding(n)) = n /\ \A i \in 1 .. n : Padding(n)[i] = EmptyBundle
    BY PaddingFacts
  <2> QED
    BY <2>1, AsItemsFacts
<1>2. IsBundle(BundleItem(EmptyBundle))
  BY DEF IsBundle, BundleItem
<1> HIDE DEF t
<1>3. Joins(s \o t, s, t)
  BY <1>1, ConcatAny
<1>4. Issues(s \o t, s, t)
  BY <1>1, <1>2, <1>3 DEF Issues
<1> QED
  BY <1>1, <1>4 DEF t
-----------------------------------------------------------------------------
(***************************************************************************)
(* What the ready tables say of the results.                               *)
(***************************************************************************)

\* A bundle of the processor's slots in which two writers of a key have the
\* same latency.
Sound(bundle) ==
  /\ DOMAIN bundle \subseteq Slots(Processor)
  /\ \A a, b \in DOMAIN bundle : \A k \in PendingKeys(bundle[a]) \cap PendingKeys(bundle[b]) :
       Latency(bundle[a].opcode) = Latency(bundle[b].opcode)

\* The verifier refuses two writers of a general register, and all operations
\* on predicates take one cycle.
LEMMA PredicateLatency ==
  \A op : WritesPred(op) => Latency(op) = 1
  BY DEF WritesPred, Latency, CompareOps, PredLogicOps, LoadOps, MultiplierOps, AesOps

\* Two writers in one legal bundle have the same latency.
LEMMA VerifiedSound ==
  ASSUME NEW bundle, VerifyBundle(Processor, bundle), DOMAIN bundle \subseteq Slots(Processor)
  PROVE  Sound(bundle)
<1>1. ASSUME NEW a \in DOMAIN bundle, NEW b \in DOMAIN bundle,
             NEW k \in PendingKeys(bundle[a]), k \in PendingKeys(bundle[b]), a # b
      PROVE  Latency(bundle[a].opcode) = Latency(bundle[b].opcode)
  <2>1. k \in WriteKeys(bundle[a]) /\ k \in WriteKeys(bundle[b])
    BY <1>1 DEF PendingKeys
  <2>2. CASE \E r : k = Key("Gpr", r)
    <3>1. PICK r : k = Key("Gpr", r)
      BY <2>2
    <3>2. r \in GprWrites(bundle[a]) /\ r \in GprWrites(bundle[b])
      BY <2>1, <3>1 DEF WriteKeys, Key
    <3>3. WritesGpr(bundle[a].opcode) /\ WritesGpr(bundle[b].opcode)
      BY <3>2 DEF GprWrites
    <3>4. ~WritesGpr("nop")
      BY DEF WritesGpr, IntegerAluOps, CompareOps, LoadOps, MultiplierOps, FloatOps, AesOps
    <3>5. a \in Checked(Processor, bundle) /\ b \in Checked(Processor, bundle)
      BY <3>3, <3>4 DEF Checked
    <3>6. GprWrites(bundle[a]) \cap GprWrites(bundle[b]) = {}
      BY <1>1, <3>5 DEF VerifyBundle, NoGprWaw
    <3> QED
      BY <3>2, <3>6
  <2>3. CASE ~ \E r : k = Key("Gpr", r)
    <3>1. PredWrites(bundle[a]) # {} /\ PredWrites(bundle[b]) # {}
      BY <2>1, <2>3 DEF WriteKeys
    <3>2. WritesPred(bundle[a].opcode) /\ WritesPred(bundle[b].opcode)
      BY <3>1 DEF PredWrites
    <3> QED
      BY <3>2, PredicateLatency
  <2> QED
    BY <2>2, <2>3
<1> QED
  BY <1>1 DEF Sound

\* update_ready_after_bundle: what it writes and what it leaves.
LEMMA AfterBundleValue ==
  ASSUME NEW bundle, Sound(bundle), NEW rdy, NEW c, NEW k,
         NEW after, after = ReadyAfterBundle(rdy, bundle, c)
  PROVE  /\ \A a \in DOMAIN bundle : k \in PendingKeys(bundle[a]) =>
              k \in DOMAIN after /\ after[k] = c + Latency(bundle[a].opcode)
         /\ k \notin BundlePendingKeys(bundle) =>
              (k \in DOMAIN after <=> k \in DOMAIN rdy) /\ (k \in DOMAIN rdy => after[k] = rdy[k])
         /\ k \in DOMAIN after => k \in DOMAIN rdy \/ k \in BundlePendingKeys(bundle)
<1> DEFINE W == {s \in DOMAIN bundle : k \in PendingKeys(bundle[s])}
<1>1. /\ DOMAIN after = DOMAIN rdy \cup BundlePendingKeys(bundle)
      /\ k \in DOMAIN after =>
           after[k] = IF W = {} THEN rdy[k] ELSE c + Latency(bundle[Max(W)].opcode)
  BY DEF ReadyAfterBundle
<1>2. ASSUME NEW a \in DOMAIN bundle, k \in PendingKeys(bundle[a])
      PROVE  k \in DOMAIN after /\ after[k] = c + Latency(bundle[a].opcode)
  <2>1. a \in W /\ k \in BundlePendingKeys(bundle)
    BY <1>2 DEF BundlePendingKeys
  <2>2. Processor.width \in Nat /\ W \in SUBSET (0 .. Processor.width) /\ W # {}
    BY <2>1, ProcessorAssumption DEF Sound, Slots
  <2>3. Max(W) \in W
    <3> HIDE DEF W
    <3> QED
      BY <2>2, MaxOf
  <2>4. Latency(bundle[Max(W)].opcode) = Latency(bundle[a].opcode)
    BY <1>2, <2>3 DEF Sound
  <2> QED
    BY <1>1, <2>1, <2>4
<1>3. ASSUME k \notin BundlePendingKeys(bundle)
      PROVE  (k \in DOMAIN after <=> k \in DOMAIN rdy) /\ (k \in DOMAIN rdy => after[k] = rdy[k])
  <2>1. W = {}
    BY <1>3 DEF BundlePendingKeys
  <2> QED
    BY <1>1, <1>3, <2>1
<1> QED
  BY <1>1, <1>2, <1>3

\* The table has an entry for every result the stream leaves, no earlier than
\* the result.  Its cycles count from cycle off of the stream.
Covers(s, rdy, off) ==
  \A k, i, a : Visible(s, i, a, k) => k \in DOMAIN rdy /\ ResultAt(s, i, a) <= rdy[k] + off

\* If the table covers the results of a stream, operands that are ready by the
\* table are ready.
LEMMA CoversReady ==
  ASSUME NEW s, IsSequence(s), NEW rdy, NEW off \in Nat, Covers(s, rdy, off),
         NEW B \in Nat, Bounded(rdy, B), NEW c \in Nat, c + off <= Cycles(s),
         NEW syl, \A k \in ReadKeys(syl) : ReadyAt(rdy, k) <= c
  PROVE  SylReady(s, syl)
<1>1. ASSUME NEW k \in ReadKeys(syl), NEW i, NEW a, Visible(s, i, a, k)
      PROVE  ResultAt(s, i, a) <= Cycles(s)
  <2>1. k \in DOMAIN rdy /\ ResultAt(s, i, a) <= rdy[k] + off
    BY <1>1 DEF Covers
  <2>2. rdy[k] <= c /\ rdy[k] \in Nat
    BY <2>1 DEF ReadyAt, Bounded
  <2>3. ResultAt(s, i, a) \in Nat /\ Cycles(s) \in Nat
    <3>1. CycleAt(s, i) \in Nat /\ Cycles(s) \in Nat
      BY <1>1, CountFacts DEF Visible, Writes
    <3>2. Latency(s[i].bundle[a].opcode) \in 0 .. 6
      BY LatencyNat
    <3> QED
      BY <3>1, <3>2 DEF ResultAt
  <2> QED
    BY <2>1, <2>2, <2>3
<1> QED
  BY <1>1 DEF SylReady

LEMMA LabelFacts ==
  ASSUME NEW s, IsSequence(s), NEW x, ~IsBundle(x), NEW t, t = Append(s, x)
  PROVE  /\ \A i, a, k : Writes(t, i, a, k) <=> Writes(s, i, a, k)
         /\ Cycles(t) = Cycles(s)
         /\ LastFunction(t) = IF x.func THEN LastFunction(s) + 1 ELSE LastFunction(s)
<1> DEFINE m == Len(s)
           F == {i \in 1 .. m : ~IsBundle(s[i]) /\ s[i].func}
           G == {i \in 1 .. (m + 1) : ~IsBundle(t[i]) /\ t[i].func}
<1>1. /\ DOMAIN t = 1 .. (m + 1) /\ t[m + 1] = x /\ m \in Nat /\ DOMAIN s = 1 .. m /\ Len(t) = m + 1
      /\ \A i \in 1 .. m : t[i] = s[i]
  BY AppendAny DEF IsSequence
<1> HIDE DEF m
<1>2. /\ \A i \in DOMAIN s : i \in DOMAIN t /\ t[i] = s[i]
      /\ \A i \in DOMAIN t : i \in DOMAIN s \/ i = m + 1
      /\ m + 1 \notin DOMAIN s
  BY <1>1
<1>3. \A i, a, k : Writes(t, i, a, k) <=> Writes(s, i, a, k)
  BY <1>1, <1>2 DEF Writes
<1>4. BundlesOf(t) = BundlesOf(s)
  BY <1>1, <1>2 DEF BundlesOf
<1>5. LastFunction(t) = IF x.func THEN LastFunction(s) + 1 ELSE LastFunction(s)
  <2>1. LastFunction(s) = Cardinality(F) /\ LastFunction(t) = Cardinality(G)
    <3>1. LastFunction(s) = Cardinality(F)
      BY DEF LastFunction, FunctionAt, m
    <3>2. LastFunction(t) = Cardinality(G)
      <4>1. LastFunction(t) = FunctionAt(t, m + 1)
        BY <1>1 DEF LastFunction
      <4> QED
        BY <4>1 DEF FunctionAt
    <3> QED
      BY <3>1, <3>2
  <2>2. IsFiniteSet(F) /\ m + 1 \notin F
    <3>1. IsFiniteSet(1 .. m) /\ F \subseteq 1 .. m /\ m + 1 \notin F
      BY <1>1, FS_Interval
    <3> HIDE DEF F
    <3> QED
      BY <3>1, FS_Subset
  <2>3. CASE x.func
    <3>1. G = F \cup {m + 1}
      BY <1>1, <1>2, <2>3
    <3> HIDE DEF F, G
    <3> QED
      BY <2>1, <2>2, <2>3, <3>1, FS_AddElement
  <2>4. CASE ~x.func
    <3>1. G = F
      BY <1>1, <1>2, <2>4
    <3> HIDE DEF F, G
    <3> QED
      BY <2>1, <2>4, <3>1
  <2> QED
    BY <2>3, <2>4
<1> QED
  BY <1>3, <1>4, <1>5 DEF Cycles

\* A label leaves the results; the label of a function leaves none.
LEMMA CoversLabel ==
  ASSUME NEW s, IsSequence(s), NEW x, ~IsBundle(x), NEW rdy, NEW off, Covers(s, rdy, off)
  PROVE  Covers(Append(s, x), rdy, off)
<1> DEFINE t == Append(s, x)
<1>1. /\ \A i, a, k : Writes(t, i, a, k) <=> Writes(s, i, a, k)
      /\ LastFunction(t) = IF x.func THEN LastFunction(s) + 1 ELSE LastFunction(s)
  BY LabelFacts
<1>2. StartsWith(t, s)
  BY AppendStartsWith
<1> HIDE DEF t
<1>3. ASSUME NEW k, NEW i, NEW a, Visible(t, i, a, k)
      PROVE  k \in DOMAIN rdy /\ ResultAt(t, i, a) <= rdy[k] + off
  <2>1. /\ Writes(s, i, a, k) /\ FunctionAt(t, i) = LastFunction(t)
        /\ ~ \E j, b : Writes(s, j, b, k) /\ i < j
    BY <1>1, <1>3 DEF Visible
  <2>2. i \in DOMAIN s /\ i \in 1 .. Len(s)
    BY <2>1 DEF Writes, IsSequence
  <2>3. /\ FunctionAt(t, i) = FunctionAt(s, i) /\ CycleAt(t, i) = CycleAt(s, i) /\ t[i] = s[i]
    BY <1>2, <2>2, PrefixFacts
  <2>4. FunctionAt(s, i) \in Nat /\ FunctionAt(s, i) <= LastFunction(s) /\ LastFunction(s) \in Nat
    BY <2>2, CountFacts
  <2>5. FunctionAt(s, i) = LastFunction(s)
    BY <1>1, <2>1, <2>3, <2>4
  <2>6. Visible(s, i, a, k)
    BY <2>1, <2>5 DEF Visible
  <2>7. ResultAt(t, i, a) = ResultAt(s, i, a)
    BY <2>3 DEF ResultAt
  <2> QED
    BY <2>6, <2>7 DEF Covers
<1> QED
  BY <1>3 DEF Covers, t

\* A new function has no pending results.
LEMMA CoversFunction ==
  ASSUME NEW s, IsSequence(s), NEW x, ~IsBundle(x), x.func, NEW rdy, NEW off
  PROVE  Covers(Append(s, x), rdy, off)
<1> DEFINE t == Append(s, x)
<1>1. /\ \A i, a, k : Writes(t, i, a, k) <=> Writes(s, i, a, k)
      /\ LastFunction(t) = LastFunction(s) + 1
  BY LabelFacts
<1>2. StartsWith(t, s)
  BY AppendStartsWith
<1> HIDE DEF t
<1>3. ASSUME NEW k, NEW i, NEW a, Visible(t, i, a, k) PROVE FALSE
  <2>1. Writes(s, i, a, k) /\ FunctionAt(t, i) = LastFunction(t)
    BY <1>1, <1>3 DEF Visible
  <2>2. i \in DOMAIN s /\ i \in 1 .. Len(s)
    BY <2>1 DEF Writes, IsSequence
  <2>3. FunctionAt(t, i) = FunctionAt(s, i)
    BY <1>2, <2>2, PrefixFacts
  <2>4. FunctionAt(s, i) \in Nat /\ FunctionAt(s, i) <= LastFunction(s) /\ LastFunction(s) \in Nat
    BY <2>2, CountFacts
  <2> QED
    BY <1>1, <2>1, <2>3, <2>4
<1> QED
  BY <1>3 DEF Covers, t

\* What is visible behind the bundles that issued: a result of one of them
\* that no later one overwrites, or one from before that none overwrites.
LEMMA VisibleBehind ==
  ASSUME NEW c, NEW s, NEW t, Issues(c, s, t), NEW k, NEW i, NEW a, Visible(c, i, a, k)
  PROVE  \/ /\ Visible(s, i, a, k) /\ ResultAt(c, i, a) = ResultAt(s, i, a)
            /\ \A j \in 1 .. Len(t) : k \notin BundlePendingKeys(t[j].bundle)
         \/ \E j \in 1 .. Len(t) :
              /\ a \in DOMAIN t[j].bundle /\ k \in PendingKeys(t[j].bundle[a])
              /\ ResultAt(c, i, a) = Cycles(s) + j - 1 + Latency(t[j].bundle[a].opcode)
              /\ \A l \in 1 .. Len(t) : j < l => k \notin BundlePendingKeys(t[l].bundle)
<1> DEFINE m == Len(s)
           n == Len(t)
<1>1. /\ StartsWith(c, s) /\ m \in Nat /\ n \in Nat
      /\ DOMAIN s = 1 .. m
      /\ \A x \in DOMAIN c : x \in 1 .. m \/ \E j \in 1 .. n : x = m + j
      /\ \A j \in 1 .. n : /\ c[m + j] = t[j] /\ m + j \in DOMAIN c
                           /\ CycleAt(c, m + j) = Cycles(s) + j - 1
      /\ LastFunction(c) = LastFunction(s)
  BY IssuesFacts
<1>2. \A j \in 1 .. n : IsBundle(t[j])
  BY DEF Issues
<1> HIDE DEF m, n
<1>3. Writes(c, i, a, k) /\ FunctionAt(c, i) = LastFunction(c) /\ i \in DOMAIN c
      /\ \A j, b : Writes(c, j, b, k) => ~(i < j)
  BY DEF Visible, Writes
<1>4. ASSUME NEW l \in 1 .. n, i < m + l PROVE k \notin BundlePendingKeys(t[l].bundle)
  <2>1. ASSUME k \in BundlePendingKeys(t[l].bundle) PROVE FALSE
    <3>1. PICK b \in DOMAIN t[l].bundle : k \in PendingKeys(t[l].bundle[b])
      BY <2>1 DEF BundlePendingKeys
    <3>2. Writes(c, m + l, b, k)
      BY <1>1, <1>2, <3>1 DEF Writes
    <3> QED
      BY <1>3, <1>4, <3>2
  <2> QED
    BY <2>1
<1>5. CASE i \in 1 .. m
  <2>1. /\ \A x \in 1 .. m : \A b : Writes(c, x, b, k) <=> Writes(s, x, b, k)
        /\ FunctionAt(c, i) = FunctionAt(s, i) /\ CycleAt(c, i) = CycleAt(s, i) /\ c[i] = s[i]
    BY <1>1, <1>5, PrefixFacts DEF m
  <2>2. \A x, b : Writes(s, x, b, k) => x \in 1 .. m
    BY <1>1 DEF Writes
  <2>3. Visible(s, i, a, k)
    BY <1>1, <1>3, <1>5, <2>1, <2>2 DEF Visible
  <2>4. ResultAt(c, i, a) = ResultAt(s, i, a)
    BY <2>1 DEF ResultAt
  <2>5. \A j \in 1 .. n : i < m + j
    BY <1>1, <1>5
  <2> QED
    BY <1>4, <2>3, <2>4, <2>5 DEF n
<1>6. ASSUME NEW j \in 1 .. n, i = m + j
      PROVE  \E l \in 1 .. n :
              /\ a \in DOMAIN t[l].bundle /\ k \in PendingKeys(t[l].bundle[a])
              /\ ResultAt(c, i, a) = Cycles(s) + l - 1 + Latency(t[l].bundle[a].opcode)
              /\ \A h \in 1 .. n : l < h => k \notin BundlePendingKeys(t[h].bundle)
  <2>1. c[i] = t[j] /\ CycleAt(c, i) = Cycles(s) + j - 1
    BY <1>1, <1>6
  <2>2. a \in DOMAIN t[j].bundle /\ k \in PendingKeys(t[j].bundle[a])
    BY <1>3, <2>1 DEF Writes
  <2>3. ResultAt(c, i, a) = Cycles(s) + j - 1 + Latency(t[j].bundle[a].opcode)
    BY <2>1 DEF ResultAt
  <2>4. \A h \in 1 .. n : j < h => i < m + h
    BY <1>1, <1>6
  <2> QED
    BY <1>4, <2>2, <2>3, <2>4
<1> QED
  BY <1>1, <1>3, <1>5, <1>6 DEF n

\* One bundle more, at cycle c of the table.
LEMMA AppendIssues ==
  ASSUME NEW s, IsSequence(s), NEW x, IsBundle(x)
  PROVE  Issues(Append(s, x), s, <<x>>) /\ Len(<<x>>) = 1 /\ <<x>>[1] = x
<1> DEFINE t == Append(s, x)
           u == <<x>>
<1>1. /\ IsSequence(t) /\ Len(t) = Len(s) + 1 /\ Len(s) \in Nat
      /\ \A i \in 1 .. Len(s) : t[i] = s[i]
      /\ t[Len(s) + 1] = x
  BY AppendAny DEF IsSequence
<1>2. u \in Seq({x}) /\ Len(u) = 1 /\ u[1] = x
  OBVIOUS
<1>3. IsSequence(u)
  BY <1>2, SeqIsSequence
<1> HIDE DEF t, u
<1>4. Joins(t, s, u)
  BY <1>1, <1>2 DEF Joins
<1>5. Issues(t, s, u)
  BY <1>2, <1>3, <1>4 DEF Issues
<1> QED
  BY <1>2, <1>5 DEF t, u

LEMMA AppendCycles ==
  ASSUME NEW s, IsSequence(s), NEW x, IsBundle(x)
  PROVE  Cycles(Append(s, x)) = Cycles(s) + 1
<1> DEFINE t == Append(s, x)
           u == <<x>>
<1>1. Issues(t, s, u) /\ Len(u) = 1
  BY AppendIssues
<1> HIDE DEF t, u
<1>2. Cycles(t) = Cycles(s) + 1
  BY <1>1, IssuesFacts
<1> QED
  BY <1>2 DEF t

\* update_ready_after_bundle keeps the table covering.
LEMMA CoversBundle ==
  ASSUME NEW s, IsSequence(s), NEW rdy, NEW off \in Nat, Covers(s, rdy, off),
         NEW x, IsBundle(x), Sound(x.bundle), NEW c \in Nat, c + off = Cycles(s)
  PROVE  Covers(Append(s, x), ReadyAfterBundle(rdy, x.bundle, c), off)
<1> DEFINE t == Append(s, x)
           after == ReadyAfterBundle(rdy, x.bundle, c)
           u == <<x>>
<1>1. Issues(t, s, u) /\ Len(u) = 1 /\ u[1] = x
  BY AppendIssues
<1> HIDE DEF t, u
<1>2. ASSUME NEW k
      PROVE  /\ \A a \in DOMAIN x.bundle : k \in PendingKeys(x.bundle[a]) =>
                  k \in DOMAIN after /\ after[k] = c + Latency(x.bundle[a].opcode)
             /\ k \notin BundlePendingKeys(x.bundle) =>
                  (k \in DOMAIN after <=> k \in DOMAIN rdy) /\ (k \in DOMAIN rdy => after[k] = rdy[k])
  BY AfterBundleValue
<1> HIDE DEF after
<1>3. ASSUME NEW k, NEW i, NEW a, Visible(t, i, a, k)
      PROVE  k \in DOMAIN after /\ ResultAt(t, i, a) <= after[k] + off
  <2>1. \/ /\ Visible(s, i, a, k) /\ ResultAt(t, i, a) = ResultAt(s, i, a)
           /\ \A j \in 1 .. Len(u) : k \notin BundlePendingKeys(u[j].bundle)
        \/ \E j \in 1 .. Len(u) :
             /\ a \in DOMAIN u[j].bundle /\ k \in PendingKeys(u[j].bundle[a])
             /\ ResultAt(t, i, a) = Cycles(s) + j - 1 + Latency(u[j].bundle[a].opcode)
             /\ \A l \in 1 .. Len(u) : j < l => k \notin BundlePendingKeys(u[l].bundle)
    BY <1>1, <1>3, VisibleBehind
  <2>2. CASE Visible(s, i, a, k) /\ ResultAt(t, i, a) = ResultAt(s, i, a)
             /\ k \notin BundlePendingKeys(x.bundle)
    BY <1>2, <2>2 DEF Covers
  <2>3. CASE /\ a \in DOMAIN x.bundle /\ k \in PendingKeys(x.bundle[a])
             /\ ResultAt(t, i, a) = Cycles(s) + 1 - 1 + Latency(x.bundle[a].opcode)
    <3>1. k \in DOMAIN after /\ after[k] = c + Latency(x.bundle[a].opcode)
      BY <1>2, <2>3
    <3> DEFINE lat == Latency(x.bundle[a].opcode)
    <3>2. lat \in 0 .. 6
      BY LatencyNat
    <3>3. after[k] = c + lat /\ ResultAt(t, i, a) = Cycles(s) + 1 - 1 + lat
      BY <2>3, <3>1
    <3> HIDE DEF lat
    <3>4. Cycles(s) \in Nat
      BY CountFacts
    <3> QED
      BY <3>1, <3>2, <3>3, <3>4
  <2>4. 1 \in 1 .. Len(u) /\ \A j \in 1 .. Len(u) : j = 1
    BY <1>1
  <2> QED
    BY <1>1, <2>1, <2>2, <2>3, <2>4
<1> QED
  BY <1>3 DEF Covers, t, after

\* ready_after_bundles: the value of a key.
LEMMA AfterBundlesValue ==
  ASSUME NEW bundles, IsSequence(bundles), \A j \in DOMAIN bundles : Sound(bundles[j]),
         NEW rdy, NEW start, NEW k, NEW after, after = ReadyAfterBundles(rdy, start, bundles)
  PROVE  /\ (\A j \in 1 .. Len(bundles) : k \notin BundlePendingKeys(bundles[j])) =>
              (k \in DOMAIN after <=> k \in DOMAIN rdy) /\ (k \in DOMAIN rdy => after[k] = rdy[k])
         /\ \A j \in 1 .. Len(bundles) : \A a \in DOMAIN bundles[j] :
              ( /\ k \in PendingKeys(bundles[j][a])
                /\ \A l \in 1 .. Len(bundles) : j < l => k \notin BundlePendingKeys(bundles[l]) )
                => k \in DOMAIN after /\ after[k] = start + j - 1 + Latency(bundles[j][a].opcode)
<1> DEFINE n == Len(bundles)
           W == {i \in DOMAIN bundles : k \in BundlePendingKeys(bundles[i])}
           written == UNION {BundlePendingKeys(bundles[i]) : i \in DOMAIN bundles}
<1>1. n \in Nat /\ DOMAIN bundles = 1 .. n
  BY DEF IsSequence
<1>2. /\ DOMAIN after = DOMAIN rdy \cup written
      /\ k \in DOMAIN after =>
           after[k] = IF W = {} THEN rdy[k]
                      ELSE ReadyAfterBundle(<<>>, bundles[Max(W)], start + Max(W) - 1)[k]
  BY DEF ReadyAfterBundles
<1>3. k \in written <=> W # {}
  OBVIOUS
<1> HIDE DEF n, written
<1>4. ASSUME \A j \in 1 .. n : k \notin BundlePendingKeys(bundles[j])
      PROVE  (k \in DOMAIN after <=> k \in DOMAIN rdy) /\ (k \in DOMAIN rdy => after[k] = rdy[k])
  <2>1. W = {}
    BY <1>1, <1>4
  <2> HIDE DEF W
  <2> QED
    BY <1>2, <1>3, <2>1
<1>5. ASSUME NEW j \in 1 .. n, NEW a \in DOMAIN bundles[j], k \in PendingKeys(bundles[j][a]),
             \A l \in 1 .. n : j < l => k \notin BundlePendingKeys(bundles[l])
      PROVE  k \in DOMAIN after /\ after[k] = start + j - 1 + Latency(bundles[j][a].opcode)
  <2>1. j \in W
    BY <1>1, <1>5 DEF BundlePendingKeys
  <2>2. W \in SUBSET (0 .. n) /\ W # {} /\ W \subseteq 1 .. n
    BY <1>1, <2>1
  <2>3. Max(W) \in W /\ j <= Max(W)
    <3> HIDE DEF W
    <3> QED
      BY <1>1, <2>1, <2>2, MaxOf
  <2>4. k \in BundlePendingKeys(bundles[Max(W)])
    BY <2>3
  <2>5. Max(W) = j
    <3> DEFINE w == Max(W)
    <3>1. w \in 1 .. n /\ j <= w /\ k \in BundlePendingKeys(bundles[w])
      BY <2>2, <2>3, <2>4
    <3> HIDE DEF w, W
    <3>2. ~(j < w)
      BY <1>5, <3>1
    <3>3. w = j
      BY <1>1, <3>1, <3>2
    <3> QED
      BY <3>3 DEF w
  <2> HIDE DEF W
  <2> DEFINE one == ReadyAfterBundle(<<>>, bundles[j], start + j - 1)
  <2>6. k \in DOMAIN after /\ after[k] = one[k]
    BY <1>2, <1>3, <2>2, <2>5
  <2>7. Sound(bundles[j])
    BY <1>1
  <2>8. one[k] = start + j - 1 + Latency(bundles[j][a].opcode)
    BY <1>5, <2>7, AfterBundleValue
  <2> HIDE DEF one
  <2> QED
    BY <2>6, <2>8
<1> QED
  BY <1>4, <1>5 DEF n

AllSound(bundles) == \A j \in DOMAIN bundles : Sound(bundles[j])

\* So does ready_after_bundles over a segment.
LEMMA CoversBundles ==
  ASSUME NEW s, IsSequence(s), NEW rdy, NEW off \in Nat, Covers(s, rdy, off),
         NEW bundles, IsSequence(bundles), AllSound(bundles),
         NEW start \in Nat, start + off = Cycles(s)
  PROVE  /\ Covers(s \o AsItems(bundles), ReadyAfterBundles(rdy, start, bundles), off)
         /\ Cycles(s \o AsItems(bundles)) = Cycles(s) + Len(bundles)
<1> DEFINE t == AsItems(bundles)
           c == s \o t
           after == ReadyAfterBundles(rdy, start, bundles)
<1>1. IsSequence(t) /\ Len(t) = Len(bundles) /\ \A i \in 1 .. Len(bundles) : t[i] = BundleItem(bundles[i])
  BY AsItemsFacts
<1> HIDE DEF t
<1>2. \A i \in 1 .. Len(bundles) : IsBundle(t[i]) /\ t[i].bundle = bundles[i]
  <2>1. \A b : IsBundle(BundleItem(b)) /\ BundleItem(b).bundle = b
    BY DEF IsBundle, BundleItem
  <2> QED
    BY <1>1, <2>1
<1>3. Issues(c, s, t)
  <2>1. Joins(c, s, t)
    BY <1>1, ConcatAny
  <2> HIDE DEF c
  <2> QED
    BY <1>1, <1>2, <2>1 DEF Issues
<1> HIDE DEF c
<1>4. Cycles(c) = Cycles(s) + Len(bundles)
  BY <1>1, <1>3, IssuesFacts
<1>5. ASSUME NEW k
      PROVE  /\ (\A j \in 1 .. Len(bundles) : k \notin BundlePendingKeys(bundles[j])) =>
                  (k \in DOMAIN after <=> k \in DOMAIN rdy) /\ (k \in DOMAIN rdy => after[k] = rdy[k])
             /\ \A j \in 1 .. Len(bundles) : \A a \in DOMAIN bundles[j] :
                  ( /\ k \in PendingKeys(bundles[j][a])
                    /\ \A l \in 1 .. Len(bundles) : j < l => k \notin BundlePendingKeys(bundles[l]) )
                    => k \in DOMAIN after /\ after[k] = start + j - 1 + Latency(bundles[j][a].opcode)
  BY AfterBundlesValue DEF AllSound
<1> HIDE DEF after
<1>6. ASSUME NEW k, NEW i, NEW a, Visible(c, i, a, k)
      PROVE  k \in DOMAIN after /\ ResultAt(c, i, a) <= after[k] + off
  <2>1. \/ /\ Visible(s, i, a, k) /\ ResultAt(c, i, a) = ResultAt(s, i, a)
           /\ \A j \in 1 .. Len(t) : k \notin BundlePendingKeys(t[j].bundle)
        \/ \E j \in 1 .. Len(t) :
             /\ a \in DOMAIN t[j].bundle /\ k \in PendingKeys(t[j].bundle[a])
             /\ ResultAt(c, i, a) = Cycles(s) + j - 1 + Latency(t[j].bundle[a].opcode)
             /\ \A l \in 1 .. Len(t) : j < l => k \notin BundlePendingKeys(t[l].bundle)
    BY <1>3, <1>6, VisibleBehind
  <2>2. CASE /\ Visible(s, i, a, k) /\ ResultAt(c, i, a) = ResultAt(s, i, a)
             /\ \A j \in 1 .. Len(t) : k \notin BundlePendingKeys(t[j].bundle)
    <3>1. \A j \in 1 .. Len(bundles) : k \notin BundlePendingKeys(bundles[j])
      BY <1>1, <1>2, <2>2
    <3>2. k \in DOMAIN rdy /\ ResultAt(s, i, a) <= rdy[k] + off
      BY <2>2 DEF Covers
    <3> QED
      BY <1>5, <2>2, <3>1, <3>2
  <2>3. ASSUME NEW j \in 1 .. Len(t),
               a \in DOMAIN t[j].bundle, k \in PendingKeys(t[j].bundle[a]),
               ResultAt(c, i, a) = Cycles(s) + j - 1 + Latency(t[j].bundle[a].opcode),
               \A l \in 1 .. Len(t) : j < l => k \notin BundlePendingKeys(t[l].bundle)
        PROVE  k \in DOMAIN after /\ ResultAt(c, i, a) <= after[k] + off
    <3> DEFINE lat == Latency(bundles[j][a].opcode)
    <3>1. /\ j \in 1 .. Len(bundles) /\ a \in DOMAIN bundles[j] /\ k \in PendingKeys(bundles[j][a])
          /\ \A l \in 1 .. Len(bundles) : j < l => k \notin BundlePendingKeys(bundles[l])
          /\ ResultAt(c, i, a) = Cycles(s) + j - 1 + lat
      BY <1>1, <1>2, <2>3
    <3>2. k \in DOMAIN after /\ after[k] = start + j - 1 + lat
      BY <1>5, <3>1
    <3>3. lat \in 0 .. 6 /\ j \in Nat
      BY <3>1, LatencyNat
    <3> HIDE DEF lat
    <3>4. Cycles(s) \in Nat
      BY CountFacts
    <3> QED
      BY <3>1, <3>2, <3>3, <3>4
  <2> QED
    BY <2>1, <2>2, <2>3
<1> QED
  BY <1>4, <1>6 DEF Covers, c, t, after

\* Padding lets cycles pass and changes nothing else.
LEMMA CoversPadding ==
  ASSUME NEW s, IsSequence(s), NEW rdy, NEW off, Covers(s, rdy, off), NEW n \in Nat
  PROVE  /\ Covers(s \o AsItems(Padding(n)), rdy, off)
         /\ Cycles(s \o AsItems(Padding(n))) = Cycles(s) + n
         /\ StallFreeInLayout(s) => StallFreeInLayout(s \o AsItems(Padding(n)))
<1> DEFINE t == AsItems(Padding(n))
           c == s \o t
<1>1. Issues(c, s, t) /\ Len(t) = n /\ \A j \in 1 .. n : t[j] = BundleItem(EmptyBundle)
  BY PaddingIssues
<1> HIDE DEF t, c
<1>2. \A j \in 1 .. Len(t) : t[j].bundle = EmptyBundle
  BY <1>1 DEF BundleItem
<1>3. \A j \in 1 .. Len(t) : DOMAIN t[j].bundle = {}
  BY <1>2 DEF EmptyBundle
<1>4. Cycles(c) = Cycles(s) + n
  BY <1>1, IssuesFacts
<1>5. StallFreeInLayout(s) => StallFreeInLayout(c)
  BY <1>1, EmptyIssues
<1>6. ASSUME NEW k, NEW i, NEW a, Visible(c, i, a, k)
      PROVE  k \in DOMAIN rdy /\ ResultAt(c, i, a) <= rdy[k] + off
  <2>1. \/ /\ Visible(s, i, a, k) /\ ResultAt(c, i, a) = ResultAt(s, i, a)
           /\ \A j \in 1 .. Len(t) : k \notin BundlePendingKeys(t[j].bundle)
        \/ \E j \in 1 .. Len(t) :
             /\ a \in DOMAIN t[j].bundle /\ k \in PendingKeys(t[j].bundle[a])
             /\ ResultAt(c, i, a) = Cycles(s) + j - 1 + Latency(t[j].bundle[a].opcode)
             /\ \A l \in 1 .. Len(t) : j < l => k \notin BundlePendingKeys(t[l].bundle)
    BY <1>1, <1>6, VisibleBehind
  <2>2. Visible(s, i, a, k) /\ ResultAt(c, i, a) = ResultAt(s, i, a)
    BY <1>3, <2>1
  <2> QED
    BY <2>2 DEF Covers
<1> QED
  BY <1>4, <1>5, <1>6 DEF Covers, c, t

\* A syllable that reads only predicates is ready one bundle after any other.
LEMMA PredicatesReady ==
  ASSUME NEW s, IsSequence(s), NEW syl, GprReads(syl) = {}
  PROVE  SylReady(s, syl)
<1>1. ASSUME NEW k \in ReadKeys(syl), NEW i, NEW a, Visible(s, i, a, k)
      PROVE  ResultAt(s, i, a) <= Cycles(s)
  <2>1. PICK p : k = Key("Pred", p)
    BY <1>1 DEF ReadKeys
  <2>2. Writes(s, i, a, k)
    BY <1>1 DEF Visible
  <2>3. PredWrites(s[i].bundle[a]) # {}
    BY <2>1, <2>2 DEF Writes, PendingKeys, WriteKeys, Key
  <2>4. Latency(s[i].bundle[a].opcode) = 1
    BY <2>3, PredicateLatency DEF PredWrites
  <2>5. CycleAt(s, i) + 1 <= Cycles(s)
    BY <2>2, CountFacts DEF Writes
  <2> QED
    BY <2>4, <2>5 DEF ResultAt
<1> QED
  BY <1>1 DEF SylReady

LEMMA MaxTwo ==
  ASSUME NEW a \in Int, NEW b \in Int, NEW n, n = Max({a, b})
  PROVE  n >= a /\ n >= b
<1>1. \E x \in {a, b} : \A y \in {a, b} : x >= y
  OBVIOUS
<1>2. Max({a, b}) \in {a, b} /\ \A y \in {a, b} : Max({a, b}) >= y
  BY <1>1 DEF Max
<1> QED
  BY <1>2

\* emit_asm_syllable_in_slot pads until the sources are ready, and records the
\* result.
LEMMA EmittedStall ==
  ASSUME NEW s, IsSequence(s), StallFreeInLayout(s), NEW rdy, NEW off \in Nat, Covers(s, rdy, off),
         NEW c \in Nat, c + off = Cycles(s), Bounded(rdy, c + 6),
         NEW t, NEW slot, NEW syl, NEW n, Emitted(s, t, slot, syl, n), RequiredCycle(rdy, syl) <= c + n
  PROVE  /\ StallFreeInLayout(t) /\ Cycles(t) = Cycles(s) + n + 1
         /\ Covers(t, ReadyAfterBundle(rdy, BundleWith(slot, syl), c + n), off)
<1> DEFINE u == s \o AsItems(Padding(n))
           x == BundleItem(BundleWith(slot, syl))
<1>1. n \in Nat /\ t = Append(u, x) /\ SlotSupports(Processor, slot, syl.opcode)
      /\ slot \in Slots(Processor)
  BY DEF Emitted
<1>2. IsSequence(u)
  BY <1>1, PaddingKeeps
<1>3. Covers(u, rdy, off) /\ Cycles(u) = Cycles(s) + n /\ StallFreeInLayout(u)
  BY <1>1, CoversPadding
<1>4. IsBundle(x) /\ x.bundle = BundleWith(slot, syl)
  BY DEF IsBundle, BundleItem
<1> HIDE DEF u, x
<1>5. DOMAIN x.bundle = {slot} /\ x.bundle[slot] = syl
  BY <1>4 DEF BundleWith
<1>6. Sound(x.bundle)
  <2>1. VerifyBundle(Processor, x.bundle)
    BY <1>1, <1>4, SingleVerified
  <2> QED
    BY <1>1, <1>5, <2>1, VerifiedSound
<1>7. Cycles(s) \in Nat
  BY CountFacts
<1>8. c + n \in Nat /\ c + 6 \in Nat /\ (c + n) + off = Cycles(u) /\ (c + n) + off <= Cycles(u)
  BY <1>1, <1>3, <1>7
<1>9. ASSUME NEW k \in ReadKeys(syl) PROVE ReadyAt(rdy, k) <= c + n
  <2>1. RequiredCycle(rdy, syl) \in 0 .. (c + 6) /\ ReadyAt(rdy, k) <= RequiredCycle(rdy, syl)
    BY <1>8, RequiredBounded
  <2>2. ReadyAt(rdy, k) \in Nat
    BY DEF ReadyAt, Bounded
  <2> QED
    BY <1>8, <2>1, <2>2
<1>10. SylReady(u, syl)
  BY <1>2, <1>3, <1>8, <1>9, CoversReady
<1>11. StallFreeInLayout(t)
  BY <1>1, <1>2, <1>3, <1>5, <1>10, StallAppend
<1>12. Covers(t, ReadyAfterBundle(rdy, x.bundle, c + n), off)
  BY <1>1, <1>2, <1>3, <1>4, <1>6, <1>8, CoversBundle
<1>13. Cycles(t) = Cycles(u) + 1
  BY <1>1, <1>2, <1>4, AppendCycles
<1> QED
  BY <1>3, <1>4, <1>11, <1>12, <1>13

\* One turn of pack_bundle_segment: the sources of the bundle are ready where
\* it is put.
LEMMA PackStall ==
  ASSUME NEW done, IsSequence(done), NEW out, IsSequence(out), \A i \in DOMAIN out : Sound(out[i]),
         NEW b, IsScalar(b), VerifyBundle(Processor, b),
         StallFreeInLayout(done \o AsItems(out)),
         NEW start \in Nat, start = Cycles(done), NEW rdy, Covers(done, rdy, 0), Bounded(rdy, start + 6),
         NEW res, res = PackOne(out, b, start, rdy)
  PROVE  StallFreeInLayout(done \o AsItems(res)) /\ \A i \in DOMAIN res : Sound(res[i])
<1> DEFINE y == BundleItem(b)
           whole == done \o AsItems(out)
           n == Len(out)
           B == start + n + 6
<1>1. y.bundle = b /\ IsBundle(y)
  BY DEF BundleItem, IsBundle
<1>2. IsSequence(whole) /\ n \in Nat /\ DOMAIN out = 1 .. n /\ B \in Nat
  <2>1. JoinsBundles(whole, done, out)
    BY ItemsConcat
  <2> QED
    BY <2>1 DEF JoinsBundles, IsSequence
<1>3. Sound(b)
  <2>1. DOMAIN b \subseteq Slots(Processor)
    BY DEF IsScalar, IsEmpty
  <2> QED
    BY <2>1, VerifiedSound
<1>4. ASSUME NEW s, IsSequence(s), \A i \in DOMAIN s : Sound(s[i]), NEW x, Sound(x)
      PROVE  \A i \in DOMAIN Append(s, x) : Sound(Append(s, x)[i])
  <2> DEFINE m == Len(s)
  <2>1. /\ m \in Nat /\ DOMAIN s = 1 .. m /\ DOMAIN Append(s, x) = 1 .. (m + 1)
        /\ \A i \in 1 .. m : Append(s, x)[i] = s[i]
        /\ Append(s, x)[m + 1] = x
    BY <1>4, AppendAny DEF IsSequence
  <2> HIDE DEF m
  <2>2. \A i \in 1 .. (m + 1) : i \in 1 .. m \/ i = m + 1
    BY <2>1
  <2> QED
    BY <1>4, <2>1, <2>2
<1>5. ASSUME NEW s, IsSequence(s), StallFreeInLayout(s), NEW tbl, NEW bound \in Nat, Bounded(tbl, bound),
             Covers(s, tbl, 0), BundleRequiredCycle(tbl, b) <= Cycles(s)
      PROVE  StallFreeInLayout(Append(s, y)) /\ \A a \in DOMAIN b : SylReady(s, b[a])
  <2>1. ASSUME NEW a \in DOMAIN b PROVE SylReady(s, b[a])
    <3>1. BundleRequiredCycle(tbl, b) \in 0 .. bound
      BY <1>5, BundleRequiredBounded
    <3>2. \A k \in ReadKeys(b[a]) : ReadyAt(tbl, k) <= BundleRequiredCycle(tbl, b)
      BY <1>5, BundleRequiredBounded
    <3>3. Cycles(s) \in Nat
      BY <1>5, CountFacts
    <3>4. \A k \in ReadKeys(b[a]) : ReadyAt(tbl, k) \in Nat
      BY <1>5 DEF ReadyAt, Bounded
    <3>5. \A k \in ReadKeys(b[a]) : ReadyAt(tbl, k) <= Cycles(s)
      BY <1>5, <3>1, <3>2, <3>3, <3>4
    <3>6. Cycles(s) + 0 <= Cycles(s) /\ 0 \in Nat
      BY <3>3
    <3> QED
      BY <1>5, <3>3, <3>5, <3>6, CoversReady
  <2> HIDE DEF y
  <2>2. StallFreeInLayout(Append(s, y))
    BY <1>1, <1>5, <2>1, StallAppend
  <2> QED
    BY <2>1, <2>2
<1>6. CASE IsEmpty(b) /\ res = Append(out, b)
  <2>1. done \o AsItems(res) = Append(whole, y)
    <3>1. AsItems(Append(out, b)) = Append(AsItems(out), y)
      BY AsItemsAppend
    <3>2. IsSequence(AsItems(out))
      BY AsItemsFacts
    <3> QED
      BY <1>6, <3>1, <3>2, ConcatAppendAny
  <2>2. StallFreeInLayout(Append(whole, y))
    <3>1. \A a \in DOMAIN y.bundle : SylReady(whole, y.bundle[a])
      BY <1>1, <1>6 DEF IsEmpty
    <3>2. StallFreeInLayout(whole)
      OBVIOUS
    <3> HIDE DEF whole, y
    <3> QED
      BY <1>2, <3>1, <3>2, StallAppend
  <2> QED
    BY <1>3, <1>4, <1>6, <2>1, <2>2
<1>7. CASE Spaced(res, out, b, start, rdy)
  <2> DEFINE tbl == ReadyAfterBundles(rdy, start, out)
             req == BundleRequiredCycle(tbl, b)
  <2>1. PICK m \in Nat : /\ res = Append(out \o Padding(m), b)
                         /\ m = Max({0, req - (start + n)})
    BY <1>7 DEF Spaced
  <2>2. start + 0 = Cycles(done) /\ 0 \in Nat
    OBVIOUS
  <2>3. Covers(whole, tbl, 0) /\ Cycles(whole) = start + n
    BY <2>2, CoversBundles DEF AllSound
  <2>4. Bounded(tbl, B)
    <3>1. start + n + 5 <= B /\ Bounded(rdy, B)
      BY <1>2 DEF Bounded
    <3> HIDE DEF B
    <3> QED
      BY <1>2, <3>1, AfterBundlesBounded
  <2> DEFINE c == whole \o AsItems(Padding(m))
  <2>5. done \o AsItems(res) = Append(c, y)
    <3>1. done \o AsItems(Append(out \o Padding(m), b)) = Append(c, y)
      BY SpacedItems
    <3>2. res = Append(out \o Padding(m), b)
      BY <2>1
    <3> QED
      BY <3>1, <3>2, Zenon
  <2>6. StallFreeInLayout(whole)
    OBVIOUS
  <2> HIDE DEF whole, tbl
  <2>7. IsSequence(c) /\ Covers(c, tbl, 0) /\ Cycles(c) = Cycles(whole) + m /\ StallFreeInLayout(c)
    BY <1>2, <2>3, <2>6, CoversPadding, PaddingKeeps
  <2>8. req <= Cycles(c)
    <3>1. req \in 0 .. B
      BY <1>2, <2>4, BundleRequiredBounded
    <3> DEFINE d == req - (start + n)
    <3> HIDE DEF req
    <3>2. d \in Int
      BY <1>2, <3>1
    <3>3. m >= d
      BY <2>1, <3>2, MaxTwo
    <3> QED
      BY <1>2, <2>1, <2>3, <2>7, <3>1, <3>3
  <2>9. StallFreeInLayout(Append(c, y))
    <3> HIDE DEF c, B
    <3> QED
      BY <1>2, <1>5, <2>4, <2>7, <2>8
  <2>10. \A i \in DOMAIN res : Sound(res[i])
    <3> DEFINE pad == Padding(m)
               o == out \o pad
    <3>1. IsSequence(pad) /\ Len(pad) = m /\ \A i \in 1 .. m : pad[i] = EmptyBundle
      BY PaddingFacts
    <3>2. Sound(EmptyBundle)
      BY EmptyVerified, VerifiedSound DEF EmptyBundle
    <3> HIDE DEF pad
    <3>3. Joins(o, out, pad)
      BY <3>1, ConcatAny
    <3> HIDE DEF o
    <3>4. IsSequence(o) /\ DOMAIN o = 1 .. (n + m) /\ (\A i \in 1 .. n : o[i] = out[i])
          /\ \A i \in 1 .. m : o[n + i] = EmptyBundle
      BY <3>1, <3>3 DEF Joins, IsSequence
    <3>5. ASSUME NEW i \in DOMAIN o PROVE Sound(o[i])
      <4>1. CASE i \in 1 .. n
        BY <1>2, <3>4, <4>1
      <4>2. CASE ~(i <= n)
        <5>1. i - n \in 1 .. m /\ n + (i - n) = i
          BY <1>2, <3>4, <4>2
        <5> QED
          BY <3>2, <3>4, <5>1
      <4> QED
        BY <1>2, <3>4, <4>1, <4>2
    <3>6. res = Append(o, b)
      BY <2>1 DEF o, pad
    <3> QED
      BY <1>3, <1>4, <3>4, <3>5, <3>6
  <2> QED
    BY <2>5, <2>9, <2>10
<1>8. CASE Merged(res, out, b, start, rdy)
  <2> DEFINE last == out[n]
             f == Front(out)
             g == done \o AsItems(f)
             tbl == ReadyAfterBundles(rdy, start, f)
  <2>1. PICK m \in MergeBundles(last, b) :
          /\ ~IsEmpty(b) /\ out # <<>> /\ VerifyBundle(Processor, m)
          /\ ~(BundleRequiredCycle(tbl, b) > start + n - 1)
          /\ res = Append(f, m)
    BY <1>8 DEF Merged
  <2>2. IsSequence(f) /\ out = Append(f, last) /\ Len(f) = n - 1 /\ n \in Nat \ {0}
    BY <2>1, FrontAny
  <2>3. \A i \in DOMAIN f : i \in DOMAIN out /\ f[i] = out[i]
    <3>1. \A i \in 1 .. Len(f) : Append(f, last)[i] = f[i]
      BY <2>2, AppendAny
    <3> QED
      BY <1>2, <2>2, <3>1 DEF IsSequence
  <2>4. IsSequence(g) /\ IsSequence(AsItems(f))
    <3>1. JoinsBundles(g, done, f)
      BY <2>2, ItemsConcat
    <3> QED
      BY <2>2, <3>1, AsItemsFacts DEF JoinsBundles
  <2>5. whole = Append(g, BundleItem(last)) /\ done \o AsItems(res) = Append(g, BundleItem(m))
    <3>1. AsItems(out) = Append(AsItems(f), BundleItem(last))
      BY <2>2, AsItemsAppend
    <3>2. AsItems(res) = Append(AsItems(f), BundleItem(m))
      BY <2>1, <2>2, AsItemsAppend
    <3> HIDE DEF last, f
    <3> QED
      BY <2>4, <3>1, <3>2, ConcatAppendAny
  <2>6. PICK slot, open : MergeAdds(m, last, b, slot, open)
    BY <2>1, MergeFacts
  <2>7. Sound(last)
    BY <1>2, <2>2
  <2>8. /\ DOMAIN b = {slot} /\ DOMAIN m = DOMAIN last \cup {open} /\ m[open] = b[slot]
        /\ \A a \in DOMAIN last : m[a] = last[a]
        /\ open \in Slots(Processor)
    BY <2>6 DEF MergeAdds
  <2>9. Sound(m)
    <3>1. DOMAIN m \subseteq Slots(Processor)
      BY <2>7, <2>8 DEF Sound
    <3> QED
      BY <2>1, <3>1, VerifiedSound
  <2>10. Covers(g, tbl, 0) /\ Cycles(g) = start + n - 1
    <3>1. /\ start + 0 = Cycles(done) /\ 0 \in Nat /\ start \in Nat
          /\ IsSequence(done) /\ Covers(done, rdy, 0) /\ AllSound(f)
      BY <2>3 DEF AllSound
    <3>2. Covers(g, tbl, 0) /\ Cycles(g) = Cycles(done) + Len(f)
      <4> HIDE DEF f
      <4> QED
        BY <2>2, <3>1, CoversBundles
    <3> QED
      BY <2>2, <3>2
  <2>11. Bounded(tbl, B)
    <3>1. start + Len(f) + 5 <= B /\ Bounded(rdy, B)
      BY <1>2, <2>2 DEF Bounded
    <3> HIDE DEF B, f
    <3> QED
      BY <1>2, <2>2, <3>1, AfterBundlesBounded
  <2>12. StallFreeInLayout(Append(g, BundleItem(last)))
    BY <2>5
  <2> HIDE DEF g, tbl, last, f, whole
  <2>13. BundleRequiredCycle(tbl, b) <= Cycles(g)
    <3>1. BundleRequiredCycle(tbl, b) \in 0 .. B
      BY <1>2, <2>11, BundleRequiredBounded
    <3> QED
      BY <1>2, <2>1, <2>2, <2>10, <3>1
  <2>14. \A x : IsBundle(BundleItem(x)) /\ BundleItem(x).bundle = x
    BY DEF IsBundle, BundleItem
  <2>15. StallFreeInLayout(g) /\ \A a \in DOMAIN last : SylReady(g, last[a])
    <3> DEFINE l == BundleItem(last)
    <3>1. IsBundle(l) /\ l.bundle = last
      BY <2>14
    <3> HIDE DEF l
    <3>2. StallFreeInLayout(g) /\ \A a \in DOMAIN l.bundle : SylReady(g, l.bundle[a])
      BY <2>4, <2>12, <3>1, StallAppend DEF l
    <3> QED
      BY <3>1, <3>2
  <2>16. SylReady(g, b[slot])
    <3> HIDE DEF B
    <3> QED
      BY <1>2, <1>5, <2>4, <2>8, <2>10, <2>11, <2>13, <2>15
  <2>17. \A a \in DOMAIN m : SylReady(g, m[a])
    BY <2>8, <2>15, <2>16
  <2>18. StallFreeInLayout(Append(g, BundleItem(m)))
    <3> DEFINE l == BundleItem(m)
    <3>1. IsBundle(l) /\ l.bundle = m
      BY <2>14
    <3> HIDE DEF l
    <3>2. StallFreeInLayout(Append(g, l))
      BY <2>4, <2>15, <2>17, <3>1, StallAppend
    <3> QED
      BY <3>2 DEF l
  <2>19. \A i \in DOMAIN res : Sound(res[i])
    BY <1>4, <2>1, <2>2, <2>3, <2>9
  <2> QED
    BY <2>5, <2>18, <2>19
<1> QED
  <2>1. \/ IsEmpty(b) /\ res = Append(out, b)
        \/ Spaced(res, out, b, start, rdy)
        \/ Merged(res, out, b, start, rdy)
    BY PackOneCases
  <2> QED
    BY <1>6, <1>7, <1>8, <2>1
-----------------------------------------------------------------------------
(***************************************************************************)
(* Latencies.                                                              *)
(***************************************************************************)

\* Branches, calls and returns read predicates only.
BranchesReadPredicates(s) ==
  \A i \in DOMAIN s : IsBundle(s[i]) =>
    \A a \in DOMAIN s[i].bundle : s[i].bundle[a].opcode \in TerminatorOps => GprReads(s[i].bundle[a]) = {}

\* The inductive invariant: what has been emitted and packed is free of
\* stalls, and the ready tables, which the next step relies on, cover every
\* result the stream leaves.
StallInv ==
  /\ source \in Programs
  /\ StallFreeInLayout(items)
  /\ BranchesReadPredicates(items)
  /\ phase = "emit" => cycle <= Cycles(items) /\ Covers(items, ready, Cycles(items) - cycle)
  /\ phase = "pack" => /\ StallFreeInLayout(Out) /\ cycle = Cycles(packed)
                       /\ Covers(packed, ready, 0)
                       /\ \A i \in DOMAIN segment : Sound(segment[i])
  /\ phase \in {"verify", "done"} => StallFreeInLayout(packed)

LEMMA EmptyStall ==
  /\ StallFreeInLayout(<<>>) /\ Cycles(<<>>) = 0 /\ \A rdy, off : Covers(<<>>, rdy, off)
  /\ BranchesReadPredicates(<<>>)
<1>1. DOMAIN <<>> = {}
  OBVIOUS
<1>2. StallFreeInLayout(<<>>)
  BY <1>1, StallFreeIn
<1>3. Cycles(<<>>) = 0
  <2>1. BundlesOf(<<>>) = {}
    BY <1>1 DEF BundlesOf
  <2> QED
    BY <2>1, FS_EmptySet DEF Cycles
<1>4. \A i, a, k : ~Visible(<<>>, i, a, k)
  BY <1>1 DEF Visible, Writes
<1> QED
  BY <1>1, <1>2, <1>3, <1>4 DEF Covers, BranchesReadPredicates

LEMMA InitStall == Init => StallInv
<1> SUFFICES ASSUME Init PROVE StallInv
  OBVIOUS
<1>1. /\ source \in Programs /\ items = <<>> /\ cycle = 0 /\ phase = "emit" /\ ready = NothingPending
  BY DEF Init
<1>2. 0 <= Cycles(<<>>) /\ Cycles(<<>>) - 0 = 0
  BY EmptyStall
<1> QED
  BY <1>1, <1>2, EmptyStall DEF StallInv

LEMMA BranchesAppend ==
  ASSUME NEW s, IsSequence(s), BranchesReadPredicates(s), NEW x,
         IsBundle(x) => \A a \in DOMAIN x.bundle :
           x.bundle[a].opcode \in TerminatorOps => GprReads(x.bundle[a]) = {}
  PROVE  BranchesReadPredicates(Append(s, x))
<1> DEFINE n == Len(s)
           t == Append(s, x)
<1>1. /\ DOMAIN s = 1 .. n /\ n \in Nat /\ DOMAIN t = 1 .. (n + 1)
      /\ \A i \in 1 .. n : t[i] = s[i]
      /\ t[n + 1] = x
  BY AppendAny DEF IsSequence
<1> HIDE DEF n, t
<1>2. \A i \in 1 .. (n + 1) : i \in 1 .. n \/ i = n + 1
  BY <1>1
<1>3. BranchesReadPredicates(t)
  BY <1>1, <1>2 DEF BranchesReadPredicates
<1> QED
  BY <1>3 DEF t

LEMMA BranchesEmitted ==
  ASSUME NEW s, IsSequence(s), BranchesReadPredicates(s),
         NEW t, NEW slot, NEW syl, NEW n, Emitted(s, t, slot, syl, n),
         syl.opcode \in TerminatorOps => GprReads(syl) = {}
  PROVE  BranchesReadPredicates(t)
<1> DEFINE pad == AsItems(Padding(n))
           c == s \o pad
           x == BundleItem(BundleWith(slot, syl))
<1>1. n \in Nat /\ t = Append(c, x)
  BY DEF Emitted
<1>2. Issues(c, s, pad) /\ Len(pad) = n /\ \A j \in 1 .. n : pad[j] = BundleItem(EmptyBundle)
  BY <1>1, PaddingIssues
<1>3. BundleItem(EmptyBundle).bundle = EmptyBundle /\ DOMAIN EmptyBundle = {}
  BY DEF BundleItem, EmptyBundle
<1>4. x.bundle = BundleWith(slot, syl)
  BY DEF BundleItem
<1>5. DOMAIN x.bundle = {slot} /\ x.bundle[slot] = syl
  BY <1>4 DEF BundleWith
<1> HIDE DEF pad, c, x
<1>6. /\ StartsWith(c, s) /\ DOMAIN s = 1 .. Len(s)
      /\ \A i \in DOMAIN c : i \in 1 .. Len(s) \/ \E j \in 1 .. Len(pad) : i = Len(s) + j
      /\ \A j \in 1 .. Len(pad) : c[Len(s) + j] = pad[j]
  BY <1>2, IssuesFacts
<1>7. BranchesReadPredicates(c)
  <2> SUFFICES ASSUME NEW i \in DOMAIN c, IsBundle(c[i]), NEW a \in DOMAIN c[i].bundle,
                      c[i].bundle[a].opcode \in TerminatorOps
               PROVE  GprReads(c[i].bundle[a]) = {}
    BY DEF BranchesReadPredicates
  <2>1. CASE i \in 1 .. Len(s)
    <3>1. i \in DOMAIN s /\ c[i] = s[i]
      BY <1>6, <2>1 DEF StartsWith
    <3> QED
      BY <3>1 DEF BranchesReadPredicates
  <2>2. CASE \E j \in 1 .. Len(pad) : i = Len(s) + j
    <3>1. PICK j \in 1 .. Len(pad) : i = Len(s) + j
      BY <2>2
    <3>2. c[i] = BundleItem(EmptyBundle)
      BY <1>2, <1>6, <3>1
    <3> QED
      BY <1>3, <3>2
  <2> QED
    BY <1>6, <2>1, <2>2
<1>8. IsSequence(c)
  BY <1>6 DEF StartsWith
<1> QED
  BY <1>1, <1>5, <1>7, <1>8, BranchesAppend

\* emit_terminator: ret, jmp and call read nothing, br its predicate.
LEMMA TerminatorReads ==
  ASSUME NEW term, NEW id PROVE GprReads(LowerTerminator(term, id)) = {}
<1> DEFINE syl == LowerTerminator(term, id)
           ops == CASE term.op = "br"            -> <<PredOp(term.cond), LabelOp(term.label)>>
                    [] term.op \in {"jmp", "call"} -> <<LabelOp(term.label)>>
                    [] OTHER                     -> <<>>
<1>1. syl = Asm(term.op, ops, id)
  BY DEF LowerTerminator
<1>2. syl.operands = ops
  BY <1>1 DEF Asm
<1>3. ASSUME NEW k \in DOMAIN ops PROVE ops[k].kind \notin {"Reg", "MemAddr"}
  <2>1. CASE term.op = "br"
    <3>1. ops = <<PredOp(term.cond), LabelOp(term.label)>>
      BY <2>1
    <3>2. k \in {1, 2} /\ (ops[k] = PredOp(term.cond) \/ ops[k] = LabelOp(term.label))
      BY <3>1
    <3> HIDE DEF ops
    <3> QED
      BY <3>2 DEF PredOp, LabelOp
  <2>2. CASE term.op # "br" /\ term.op \in {"jmp", "call"}
    <3>1. ops = <<LabelOp(term.label)>>
      BY <2>2
    <3>2. ops[k] = LabelOp(term.label)
      BY <3>1
    <3> HIDE DEF ops
    <3> QED
      BY <3>2 DEF LabelOp
  <2>3. CASE term.op # "br" /\ term.op \notin {"jmp", "call"}
    <3>1. ops = <<>>
      BY <2>3
    <3> QED
      BY <3>1
  <2> QED
    BY <2>1, <2>2, <2>3
<1> HIDE DEF ops, syl
<1>4. \A skip : Sources(syl, "Reg", skip) = {} /\ Sources(syl, "MemAddr", skip) = {}
  BY <1>2, <1>3 DEF Sources
<1> QED
  BY <1>4 DEF GprReads, syl

\* Emission waits for its operands.
LEMMA EmitStall ==
  ASSUME TypeInv, StallInv, phase = "emit", NEW syl, NEW slots,
         syl.opcode \in TerminatorOps => GprReads(syl) = {},
         slots # {} => \E slot \in Slots(Processor) :
                         slots = {slot} /\ SlotSupports(Processor, slot, syl.opcode),
         EmitInSlot(syl, slots), source' = source
  PROVE  StallInv'
<1>1. CASE slots = {}
  <2>1. phase' = "error" /\ items' = items
    BY <1>1 DEF EmitInSlot
  <2> QED
    BY <2>1 DEF StallInv
<1>2. CASE slots # {}
  <2>1. PICK slot, n :
           /\ Emitted(items, items', slot, syl, n)
           /\ RequiredCycle(ready, syl) <= cycle + n
           /\ cycle' = cycle + n + 1
           /\ ready' = ReadyAfterBundle(ready, BundleWith(slot, syl), cycle + n)
           /\ UNCHANGED phase
    BY <1>2, EmitInSlotFacts
  <2> DEFINE off == Cycles(items) - cycle
  <2>2. /\ IsSequence(items) /\ StallFreeInLayout(items) /\ BranchesReadPredicates(items)
        /\ cycle \in Nat /\ cycle <= Cycles(items) /\ Covers(items, ready, off)
        /\ Bounded(ready, cycle + 6) /\ n \in Nat
    BY <2>1 DEF TypeInv, StallInv, Emitted
  <2>3. Cycles(items) \in Nat
    BY <2>2, CountFacts
  <2>4. off \in Nat /\ cycle + off = Cycles(items)
    BY <2>2, <2>3
  <2> HIDE DEF off
  <2>5. /\ StallFreeInLayout(items') /\ Cycles(items') = Cycles(items) + n + 1
        /\ Covers(items', ready', off)
    BY <2>1, <2>2, <2>4, EmittedStall
  <2>6. BranchesReadPredicates(items')
    BY <2>1, <2>2, BranchesEmitted
  <2>7. cycle' <= Cycles(items') /\ Cycles(items') - cycle' = off
    BY <2>1, <2>2, <2>3, <2>4, <2>5
  <2>8. phase' = "emit" /\ source' \in Programs
    BY <2>1 DEF StallInv
  <2> QED
    BY <2>5, <2>6, <2>7, <2>8 DEF StallInv
<1> QED
  BY <1>1, <1>2

\* pack_scalar_program does not look at the sources of a terminator: it needs
\* not, they are predicates.
LEMMA TerminatorStall ==
  ASSUME NEW s, IsSequence(s), StallFreeInLayout(s), NEW rdy, Covers(s, rdy, 0),
         NEW c \in Nat, c = Cycles(s), NEW x, IsBundle(x), IsScalar(x.bundle),
         VerifyBundle(Processor, x.bundle), IsTerminator(x.bundle),
         \A a \in DOMAIN x.bundle : x.bundle[a].opcode \in TerminatorOps => GprReads(x.bundle[a]) = {}
  PROVE  /\ StallFreeInLayout(Append(s, x)) /\ Cycles(Append(s, x)) = c + 1
         /\ Covers(Append(s, x), ReadyAfterBundle(rdy, x.bundle, c), 0)
<1>1. PICK slot \in Slots(Processor) : DOMAIN x.bundle = {slot}
  BY DEF IsTerminator, IsScalar, IsEmpty
<1>2. \A a \in DOMAIN x.bundle : GprReads(x.bundle[a]) = {}
  BY <1>1 DEF IsTerminator
<1>3. \A a \in DOMAIN x.bundle : SylReady(s, x.bundle[a])
  BY <1>2, PredicatesReady
<1>4. StallFreeInLayout(Append(s, x))
  BY <1>3, StallAppend
<1>5. Sound(x.bundle)
  BY <1>1, VerifiedSound
<1>6. c + 0 = Cycles(s) /\ 0 \in Nat
  OBVIOUS
<1>7. Covers(Append(s, x), ReadyAfterBundle(rdy, x.bundle, c), 0)
  BY <1>5, <1>6, CoversBundle
<1>8. Cycles(Append(s, x)) = c + 1
  BY AppendCycles
<1> QED
  BY <1>4, <1>7, <1>8

\* Every step keeps both streams free of stalls.
LEMMA NextStall == TypeInv /\ StallInv /\ [Next]_vars => StallInv'
<1> SUFFICES ASSUME TypeInv, StallInv, [Next]_vars PROVE StallInv'
  OBVIOUS
<1>0. /\ IsSequence(items) /\ IsSequence(packed) /\ IsSequence(segment)
      /\ at \in Nat /\ Len(items) \in Nat /\ cycle \in Nat
      /\ source \in Programs /\ StallFreeInLayout(items) /\ BranchesReadPredicates(items)
  BY DEF TypeInv, StallInv, IsSequence
<1>1. CASE EmitFunction \/ EmitLabel
  <2>1. PICK l, func : /\ items' = Append(items, LabelItem(l, func)) /\ func \in BOOLEAN
                       /\ func => cycle' = 0
                       /\ ~func => cycle' = cycle /\ ready' = ready
    BY <1>1 DEF EmitFunction, EmitLabel
  <2> DEFINE x == LabelItem(l, func)
             t == Append(items, x)
  <2>2. ~IsBundle(x) /\ x.func = func
    BY DEF IsBundle, LabelItem
  <2>3. phase = "emit" /\ phase' = "emit" /\ source' = source
    BY <1>1 DEF EmitFunction, EmitLabel, Visit
  <2> HIDE DEF x
  <2>4. Cycles(t) = Cycles(items) /\ Cycles(items) \in Nat
    BY <1>0, <2>2, LabelFacts, CountFacts
  <2>5. StallFreeInLayout(t) /\ BranchesReadPredicates(t)
    BY <1>0, <2>2, StallAppend, BranchesAppend
  <2>6. func => Covers(t, ready', Cycles(t) - 0)
    BY <1>0, <2>2, CoversFunction
  <2>7. cycle <= Cycles(items) /\ Covers(items, ready, Cycles(items) - cycle)
    BY <2>3 DEF StallInv
  <2>8. Covers(t, ready, Cycles(t) - cycle)
    BY <1>0, <2>2, <2>4, <2>7, CoversLabel
  <2>9. items' = t
    BY <2>1 DEF x
  <2> HIDE DEF t
  <2>10. CASE func
    <3>1. cycle' = 0 /\ 0 <= Cycles(t)
      BY <2>1, <2>4, <2>10
    <3> QED
      BY <1>0, <2>3, <2>5, <2>6, <2>9, <2>10, <3>1 DEF StallInv
  <2>11. CASE ~func
    <3>1. cycle' = cycle /\ ready' = ready /\ cycle <= Cycles(t)
      BY <2>1, <2>4, <2>7, <2>11
    <3> QED
      BY <1>0, <2>3, <2>5, <2>8, <2>9, <3>1 DEF StallInv
  <2> QED
    BY <2>10, <2>11
<1>2. CASE EmitSyllable
  <2>1. /\ phase = "emit" /\ at < Len(source) /\ Current.kind = "Syllable" /\ source' = source
    BY <1>2 DEF EmitSyllable, Visit
  <2>2. CASE Lowerable(Current.syl)
    <3> DEFINE low == Lower(Current.syl, at + 1)
               slots == ScalarSlot(Processor, Current.syl.opcode)
    <3>1. EmitInSlot(low, slots)
      BY <1>2, <2>2 DEF EmitSyllable
    <3>2. low.opcode = Current.syl.opcode
      BY DEF Lower, Asm
    <3>3. slots # {} => \E slot \in Slots(Processor) :
                          slots = {slot} /\ SlotSupports(Processor, slot, low.opcode)
      BY <3>2, ScalarSlotSupports
    <3>4. low.opcode \notin TerminatorOps
      <4>1. Len(source) \in Nat
        BY <1>0, ProgramsAssumption
      <4>2. at + 1 \in 1 .. Len(source)
        BY <1>0, <2>1, <4>1
      <4>3. Current.syl.opcode \notin TerminatorOps
        BY <1>0, <2>1, <4>2, ProgramsAssumption DEF Current
      <4> QED
        BY <3>2, <4>3
    <3> HIDE DEF low, slots
    <3> QED
      BY <2>1, <3>1, <3>3, <3>4, EmitStall
  <2>3. CASE ~Lowerable(Current.syl)
    <3>1. phase' = "error" /\ items' = items
      BY <1>2, <2>3 DEF EmitSyllable
    <3> QED
      BY <1>0, <2>1, <3>1 DEF StallInv
  <2> QED
    BY <2>2, <2>3
<1>3. CASE EmitTerminator
  <2> DEFINE low == LowerTerminator(Current, at + 1)
             slots == ControlSlot(Processor, Current.op)
  <2>1. phase = "emit" /\ source' = source /\ EmitInSlot(low, slots)
    BY <1>3 DEF EmitTerminator, Visit
  <2>2. low.opcode = Current.op
    BY DEF LowerTerminator, Asm
  <2>3. slots # {} => \E slot \in Slots(Processor) :
                        slots = {slot} /\ SlotSupports(Processor, slot, low.opcode)
    BY <2>2, ControlSlotSupports
  <2>4. GprReads(low) = {}
    BY TerminatorReads
  <2> HIDE DEF low, slots
  <2> QED
    BY <2>1, <2>3, <2>4, EmitStall
<1>4. CASE KeepScalar
  <2>1. packed' = items /\ items' = items /\ phase' = "verify" /\ source' = source
    BY <1>4 DEF KeepScalar
  <2> QED
    BY <1>0, <2>1 DEF StallInv
<1>5. CASE StartPack
  <2>1. /\ packed' = <<>> /\ segment' = <<>> /\ items' = items /\ phase' = "pack"
        /\ cycle' = 0 /\ source' = source
    BY <1>5 DEF StartPack, TypeInv
  <2>2. Out' = <<>>
    BY <2>1, EmptyLayout DEF Out
  <2>3. StallFreeInLayout(Out') /\ cycle' = Cycles(packed') /\ Covers(packed', ready', 0)
    BY <2>1, <2>2, EmptyStall
  <2>4. \A i \in DOMAIN segment' : Sound(segment'[i])
    <3>1. DOMAIN segment' = {}
      BY <2>1
    <3> QED
      BY <3>1
  <2> QED
    BY <1>0, <2>1, <2>3, <2>4 DEF StallInv
<1>6. CASE PackBundle
  <2>1. /\ phase = "pack" /\ phase' = "pack" /\ at < Len(items) /\ items' = items /\ source' = source
        /\ packed' = packed /\ segment' = PackOne(segment, Item.bundle, cycle, ready)
        /\ cycle' = cycle /\ ready' = ready /\ IsBundle(Item)
    BY <1>6 DEF PackBundle, IsControl
  <2>2. at + 1 \in DOMAIN items
    BY <1>0, <2>1 DEF IsSequence
  <2>3. IsScalar(Item.bundle) /\ VerifyBundle(Processor, Item.bundle)
    BY <2>1, <2>2 DEF TypeInv, AllVerified, Item
  <2>4. /\ StallFreeInLayout(packed \o AsItems(segment)) /\ cycle = Cycles(packed)
        /\ Covers(packed, ready, 0) /\ \A i \in DOMAIN segment : Sound(segment[i])
        /\ Bounded(ready, cycle + 6)
    BY <2>1 DEF StallInv, TypeInv, Out
  <2>5. StallFreeInLayout(packed \o AsItems(segment')) /\ \A i \in DOMAIN segment' : Sound(segment'[i])
    BY <1>0, <2>1, <2>3, <2>4, PackStall
  <2>6. Out' = packed \o AsItems(segment')
    BY <2>1 DEF Out, AsItems, BundleItem
  <2> QED
    BY <1>0, <2>1, <2>4, <2>5, <2>6 DEF StallInv
<1>7. CASE EndSegment
  <2> DEFINE rdy == ReadyAfterBundles(ready, cycle, segment)
             c == cycle + Len(segment)
  <2>1. /\ phase = "pack" /\ phase' = "pack" /\ at < Len(items) /\ items' = items /\ source' = source
        /\ packed' = Append(Out, Item) /\ segment' = <<>> /\ IsControl(Item)
        /\ ready' = IF IsBundle(Item) THEN ReadyAfterBundle(rdy, Item.bundle, c) ELSE rdy
        /\ cycle' = IF IsBundle(Item) THEN c + 1 ELSE c
    BY <1>7 DEF EndSegment, Out
  <2>2. at + 1 \in DOMAIN items
    BY <1>0, <2>1 DEF IsSequence
  <2>3. IsSequence(Out)
    <3>1. JoinsBundles(packed \o AsItems(segment), packed, segment)
      BY <1>0, ItemsConcat
    <3> QED
      BY <3>1 DEF JoinsBundles, Out
  <2>4. Out' = Append(Out, Item)
    <3>1. IsSequence(Append(Out, Item)) /\ AsItems(<<>>) = <<>>
      BY <2>3, AppendAny, EmptyAny, AsItemsFacts, EqualAny
    <3>2. Out' = Append(Out, Item) \o AsItems(<<>>)
      BY <2>1 DEF Out
    <3> QED
      BY <3>1, <3>2, ConcatEmptyAny
  <2>5. /\ StallFreeInLayout(Out) /\ cycle = Cycles(packed) /\ Covers(packed, ready, 0)
        /\ \A i \in DOMAIN segment : Sound(segment[i])
    BY <2>1 DEF StallInv
  <2>6. 0 \in Nat /\ cycle + 0 = Cycles(packed) /\ c \in Nat
    BY <1>0, <2>5 DEF IsSequence
  <2>7. Covers(Out, rdy, 0) /\ Cycles(Out) = c
    BY <1>0, <2>5, <2>6, CoversBundles DEF Out, AllSound
  <2> HIDE DEF rdy, c
  <2>8. \A i \in DOMAIN segment' : Sound(segment'[i])
    <3>1. DOMAIN segment' = {}
      BY <2>1
    <3> QED
      BY <3>1
  <2>9. StallFreeInLayout(Append(Out, Item)) /\ cycle' = Cycles(Append(Out, Item))
        /\ Covers(Append(Out, Item), ready', 0)
    <3>1. CASE IsBundle(Item)
      <4>1. /\ IsScalar(Item.bundle) /\ VerifyBundle(Processor, Item.bundle)
            /\ IsTerminator(Item.bundle)
            /\ \A a \in DOMAIN Item.bundle :
                 Item.bundle[a].opcode \in TerminatorOps => GprReads(Item.bundle[a]) = {}
        BY <1>0, <2>1, <2>2, <3>1
        DEF TypeInv, AllVerified, Item, IsControl, BranchesReadPredicates
      <4>2. ready' = ReadyAfterBundle(rdy, Item.bundle, c) /\ cycle' = c + 1
        BY <2>1, <3>1
      <4> QED
        BY <2>3, <2>5, <2>6, <2>7, <3>1, <4>1, <4>2, TerminatorStall
    <3>2. CASE ~IsBundle(Item)
      <4>1. ready' = rdy /\ cycle' = c
        BY <2>1, <3>2
      <4>2. Cycles(Append(Out, Item)) = Cycles(Out)
        BY <2>3, <3>2, LabelFacts
      <4> QED
        BY <2>3, <2>5, <2>7, <3>2, <4>1, <4>2, CoversLabel, StallAppend
    <3> QED
      BY <3>1, <3>2
  <2> QED
    BY <1>0, <2>1, <2>4, <2>8, <2>9 DEF StallInv
<1>8. CASE FinishPack
  <2>1. phase = "pack" /\ phase' = "verify" /\ packed' = Out /\ items' = items /\ source' = source
    BY <1>8 DEF FinishPack, Out
  <2>2. StallFreeInLayout(packed')
    BY <2>1 DEF StallInv
  <2> QED
    BY <1>0, <2>1, <2>2 DEF StallInv
<1>9. CASE Verify
  <2>1. /\ phase = "verify" /\ phase' \in {"done", "error"} /\ packed' = packed
        /\ items' = items /\ source' = source
    BY <1>9 DEF Verify
  <2> QED
    BY <1>0, <2>1 DEF StallInv
<1>10. CASE UNCHANGED vars
  <2>1. UNCHANGED <<source, items, packed, segment, phase, cycle, ready>>
    BY <1>10 DEF vars
  <2>2. Out' = Out
    BY <2>1 DEF Out, AsItems, BundleItem
  <2> QED
    BY <2>1, <2>2 DEF StallInv
<1> QED
  BY <1>1, <1>2, <1>3, <1>4, <1>5, <1>6, <1>7, <1>8, <1>9, <1>10 DEF Next, Terminated

(***************************************************************************)
(* In the order of the text of a function no syllable of the scalar stream *)
(* or of the packed one issues before its sources are ready: merging keeps *)
(* the padding, and the terminators, which pack_scalar_program does not    *)
(* look at again, read predicates only.                                    *)
(***************************************************************************)
THEOREM PackingLeavesNoStall == Spec => []LayoutStallFree
<1>1. TypeInv /\ StallInv /\ [Next]_vars => StallInv'
  BY NextStall
<1>2. Spec => []StallInv
  BY <1>1, InitStall, SpecTypeInv, PTL DEF Spec
<1>3. StallInv => LayoutStallFree
  BY DEF StallInv, LayoutStallFree
<1> QED
  BY <1>2, <1>3, PTL
-----------------------------------------------------------------------------
(***************************************************************************)
(* The length of the packed stream.                                        *)
(***************************************************************************)

\* res is out with the syllables of b added, the last bundle of res has them
\* all.
Adds(res, out, b) ==
  /\ IsSequence(res) /\ Len(out) <= Len(res) /\ Len(res) > 0
  /\ \A j \in 1 .. Len(out) : \A a \in DOMAIN out[j] : a \in DOMAIN res[j] /\ res[j][a] = out[j][a]
  /\ \A j \in 1 .. Len(res) : \A a \in DOMAIN res[j] :
       (j <= Len(out) /\ a \in DOMAIN out[j]) \/ \E c \in DOMAIN b : res[j][a] = b[c]
  /\ \A c \in DOMAIN b : \E a \in DOMAIN res[Len(res)] : res[Len(res)][a] = b[c]

LEMMA AppendAdds ==
  ASSUME NEW out, IsSequence(out), NEW b, NEW n \in Nat
  PROVE  Adds(Append(out \o Padding(n), b), out, b) /\ Len(Append(out \o Padding(n), b)) = Len(out) + n + 1
<1> DEFINE pad == Padding(n)
           o == out \o pad
           res == Append(o, b)
           m == Len(out)
<1>1. IsSequence(pad) /\ Len(pad) = n /\ \A i \in 1 .. n : pad[i] = EmptyBundle
  BY PaddingFacts
<1>2. m \in Nat
  BY DEF IsSequence
<1> HIDE DEF pad
<1>3. Joins(o, out, pad)
  BY <1>1, ConcatAny
<1>4. IsSequence(o) /\ Len(o) = m + n /\ (\A i \in 1 .. m : o[i] = out[i])
      /\ \A i \in 1 .. n : o[m + i] = EmptyBundle
  BY <1>1, <1>3 DEF Joins
<1> HIDE DEF o
<1>5. IsSequence(res) /\ Len(res) = m + n + 1 /\ (\A i \in 1 .. (m + n) : res[i] = o[i])
      /\ res[m + n + 1] = b
  BY <1>4, AppendAny
<1> HIDE DEF res
<1>6. \A i \in 1 .. m : i \in 1 .. (m + n) /\ res[i] = out[i]
  BY <1>2, <1>4, <1>5
<1>7. DOMAIN EmptyBundle = {}
  BY DEF EmptyBundle
<1>8. ASSUME NEW j \in 1 .. (m + n + 1), NEW a \in DOMAIN res[j]
      PROVE  (j <= m /\ a \in DOMAIN out[j]) \/ \E c \in DOMAIN b : res[j][a] = b[c]
  <2>1. CASE j <= m
    <3>1. j \in 1 .. m
      BY <1>2, <2>1
    <3> QED
      BY <1>6, <1>8, <2>1, <3>1
  <2>2. CASE ~(j <= m) /\ j # m + n + 1
    <3>1. j - m \in 1 .. n /\ m + (j - m) = j /\ j \in 1 .. (m + n)
      BY <1>2, <2>2
    <3>2. res[j] = EmptyBundle
      BY <1>4, <1>5, <3>1
    <3> QED
      BY <1>7, <1>8, <3>2
  <2>3. CASE j = m + n + 1
    BY <1>5, <1>8, <2>3
  <2> QED
    BY <2>1, <2>2, <2>3
<1>9. m <= Len(res) /\ Len(res) > 0
  BY <1>2, <1>5
<1>10. Adds(res, out, b)
  BY <1>5, <1>6, <1>8, <1>9 DEF Adds, m
<1> QED
  BY <1>5, <1>10 DEF res, o, pad, m

LEMMA MergeKeeps ==
  ASSUME NEW f, IsSequence(f), NEW last, NEW m, NEW b, NEW slot, NEW open, MergeAdds(m, last, b, slot, open)
  PROVE  Adds(Append(f, m), Append(f, last), b) /\ Len(Append(f, m)) = Len(Append(f, last))
<1> DEFINE res == Append(f, m)
           out == Append(f, last)
           n == Len(f)
<1>1. /\ IsSequence(res) /\ Len(res) = n + 1 /\ (\A i \in 1 .. n : res[i] = f[i]) /\ res[n + 1] = m
      /\ IsSequence(out) /\ Len(out) = n + 1 /\ (\A i \in 1 .. n : out[i] = f[i]) /\ out[n + 1] = last
      /\ n \in Nat
  BY AppendAny DEF IsSequence
<1>2. /\ DOMAIN b = {slot} /\ DOMAIN m = DOMAIN last \cup {open} /\ m[open] = b[slot]
      /\ \A a \in DOMAIN last : m[a] = last[a]
  BY DEF MergeAdds
<1> HIDE DEF res, out, n
<1>3. \A j \in 1 .. (n + 1) : j \in 1 .. n \/ j = n + 1
  BY <1>1
<1>4. \A j \in 1 .. (n + 1) : \A a \in DOMAIN out[j] : a \in DOMAIN res[j] /\ res[j][a] = out[j][a]
  BY <1>1, <1>2, <1>3
<1>5. \A j \in 1 .. (n + 1) : \A a \in DOMAIN res[j] :
        (j <= n + 1 /\ a \in DOMAIN out[j]) \/ \E c \in DOMAIN b : res[j][a] = b[c]
  BY <1>1, <1>2, <1>3
<1>6. n + 1 > 0 /\ n + 1 <= n + 1
  BY <1>1
<1>7. Adds(res, out, b)
  BY <1>1, <1>2, <1>4, <1>5, <1>6 DEF Adds
<1> QED
  BY <1>1, <1>7 DEF res, out

\* One turn of pack_bundle_segment ends no later than one bundle behind the
\* cycle N the sources of b are ready at.
LEMMA PackAdds ==
  ASSUME NEW out, IsSequence(out), NEW b, IsScalar(b),
         NEW start \in Nat, NEW rdy, Bounded(rdy, start + 6),
         NEW res, res = PackOne(out, b, start, rdy),
         NEW N \in Nat, start + Len(out) <= N,
         BundleRequiredCycle(ReadyAfterBundles(rdy, start, out), b) <= N
  PROVE  Adds(res, out, b) /\ start + Len(res) <= N + 1
<1>0. Len(out) \in Nat
  BY DEF IsSequence
<1>1. CASE IsEmpty(b) /\ res = Append(out, b)
  <2>1. out \o Padding(0) = out
    <3>1. IsSequence(Padding(0)) /\ Len(Padding(0)) = 0
      BY PaddingFacts
    <3>2. Padding(0) = <<>>
      BY <3>1, EmptyAny, EqualAny
    <3> QED
      BY <3>2, ConcatEmptyAny
  <2>2. res = Append(out \o Padding(0), b)
    BY <1>1, <2>1
  <2>3. Adds(res, out, b) /\ Len(res) = Len(out) + 0 + 1
    BY <2>2, AppendAdds
  <2> QED
    BY <1>0, <2>3
<1>2. CASE Spaced(res, out, b, start, rdy)
  <2> DEFINE req == BundleRequiredCycle(ReadyAfterBundles(rdy, start, out), b)
             d == req - (start + Len(out))
  <2>1. PICK n \in Nat : res = Append(out \o Padding(n), b) /\ n = Max({0, d})
    BY <1>2 DEF Spaced
  <2>2. Adds(res, out, b) /\ Len(res) = Len(out) + n + 1
    BY <2>1, AppendAdds
  <2>3. req \in Nat
    <3> DEFINE B == start + Len(out) + 6
    <3>1. B \in Nat /\ start + Len(out) + 5 <= B /\ Bounded(rdy, B)
      BY <1>0 DEF Bounded
    <3> HIDE DEF B
    <3>2. Bounded(ReadyAfterBundles(rdy, start, out), B)
      BY <3>1, AfterBundlesBounded
    <3> QED
      BY <3>1, <3>2, BundleRequiredBounded
  <2>4. req <= N
    OBVIOUS
  <2> HIDE DEF req
  <2>5. n = 0 \/ n = d
    <3>1. d \in Int
      BY <1>0, <2>3
    <3> HIDE DEF d
    <3>2. \E x \in {0, d} : \A y \in {0, d} : x >= y
      BY <3>1
    <3>3. Max({0, d}) \in {0, d}
      BY <3>2 DEF Max
    <3> QED
      BY <2>1, <3>3
  <2> QED
    BY <1>0, <2>2, <2>3, <2>4, <2>5
<1>3. CASE Merged(res, out, b, start, rdy)
  <2> DEFINE last == out[Len(out)]
             f == Front(out)
  <2>1. PICK m \in MergeBundles(last, b) : ~IsEmpty(b) /\ out # <<>> /\ res = Append(f, m)
    BY <1>3 DEF Merged
  <2>2. IsSequence(f) /\ out = Append(f, last)
    BY <2>1, FrontAny
  <2>3. PICK slot, open : MergeAdds(m, last, b, slot, open)
    BY <2>1, MergeFacts
  <2> HIDE DEF f, last
  <2>4. Adds(res, out, b) /\ Len(res) = Len(out)
    BY <2>1, <2>2, <2>3, MergeKeeps
  <2> QED
    BY <1>0, <2>4
<1> QED
  <2>1. \/ IsEmpty(b) /\ res = Append(out, b)
        \/ Spaced(res, out, b, start, rdy)
        \/ Merged(res, out, b, start, rdy)
    BY PackOneCases
  <2> QED
    BY <1>1, <1>2, <1>3, <2>1

\* ready_after_bundles after the turn: the results of b are those of the last
\* bundle, the others are what they were.
LEMMA AddsTable ==
  ASSUME NEW out, IsSequence(out), \A i \in DOMAIN out : Sound(out[i]),
         NEW b, NEW res, Adds(res, out, b), \A i \in DOMAIN res : Sound(res[i]),
         NEW start \in Nat, NEW rdy, NEW k,
         NEW old, old = ReadyAfterBundles(rdy, start, out),
         NEW new, new = ReadyAfterBundles(rdy, start, res)
  PROVE  /\ k \notin BundlePendingKeys(b) =>
              (k \in DOMAIN new <=> k \in DOMAIN old) /\ (k \in DOMAIN old => new[k] = old[k])
         /\ \A a \in DOMAIN b : k \in PendingKeys(b[a]) =>
              new[k] = start + Len(res) - 1 + Latency(b[a].opcode)
<1> DEFINE n == Len(out)
           m == Len(res)
<1>1. /\ n \in Nat /\ DOMAIN out = 1 .. n /\ m \in Nat /\ DOMAIN res = 1 .. m /\ n <= m /\ m > 0
      /\ \A j \in 1 .. n : \A a \in DOMAIN out[j] : a \in DOMAIN res[j] /\ res[j][a] = out[j][a]
      /\ \A j \in 1 .. m : \A a \in DOMAIN res[j] :
           (j <= n /\ a \in DOMAIN out[j]) \/ \E c \in DOMAIN b : res[j][a] = b[c]
      /\ \A c \in DOMAIN b : \E a \in DOMAIN res[m] : res[m][a] = b[c]
  BY DEF Adds, IsSequence
<1>2. /\ (\A j \in 1 .. n : k \notin BundlePendingKeys(out[j])) =>
           (k \in DOMAIN old <=> k \in DOMAIN rdy) /\ (k \in DOMAIN rdy => old[k] = rdy[k])
      /\ \A j \in 1 .. n : \A a \in DOMAIN out[j] :
           ( /\ k \in PendingKeys(out[j][a])
             /\ \A l \in 1 .. n : j < l => k \notin BundlePendingKeys(out[l]) )
             => k \in DOMAIN old /\ old[k] = start + j - 1 + Latency(out[j][a].opcode)
  BY AfterBundlesValue
<1>3. IsSequence(res)
  BY DEF Adds
<1>4. /\ (\A j \in 1 .. m : k \notin BundlePendingKeys(res[j])) =>
           (k \in DOMAIN new <=> k \in DOMAIN rdy) /\ (k \in DOMAIN rdy => new[k] = rdy[k])
      /\ \A j \in 1 .. m : \A a \in DOMAIN res[j] :
           ( /\ k \in PendingKeys(res[j][a])
             /\ \A l \in 1 .. m : j < l => k \notin BundlePendingKeys(res[l]) )
             => k \in DOMAIN new /\ new[k] = start + j - 1 + Latency(res[j][a].opcode)
  BY <1>3, AfterBundlesValue
<1> HIDE DEF n, m
<1>5. ASSUME k \notin BundlePendingKeys(b)
      PROVE  (k \in DOMAIN new <=> k \in DOMAIN old) /\ (k \in DOMAIN old => new[k] = old[k])
  <2>1. ASSUME NEW j \in 1 .. m, k \in BundlePendingKeys(res[j])
        PROVE  j \in 1 .. n /\ k \in BundlePendingKeys(out[j])
    <3>1. PICK a \in DOMAIN res[j] : k \in PendingKeys(res[j][a])
      BY <2>1 DEF BundlePendingKeys
    <3>2. \A c \in DOMAIN b : res[j][a] # b[c]
      BY <1>5, <3>1 DEF BundlePendingKeys
    <3>3. j <= n /\ a \in DOMAIN out[j]
      BY <1>1, <3>2
    <3>4. j \in 1 .. n
      BY <1>1, <3>3
    <3>5. res[j][a] = out[j][a]
      BY <1>1, <3>3, <3>4
    <3> QED
      BY <3>1, <3>3, <3>4, <3>5 DEF BundlePendingKeys
  <2> DEFINE W == {j \in 1 .. n : k \in BundlePendingKeys(out[j])}
  <2>2. CASE W = {}
    <3>1. \A j \in 1 .. n : k \notin BundlePendingKeys(out[j])
      BY <2>2
    <3>2. \A j \in 1 .. m : k \notin BundlePendingKeys(res[j])
      BY <2>1, <3>1
    <3> QED
      BY <1>2, <1>4, <3>1, <3>2
  <2>3. CASE W # {}
    <3>1. W \in SUBSET (0 .. n)
      BY <1>1
    <3>2. PICK j \in W : \A l \in W : l <= j
      <4> HIDE DEF W
      <4> QED
        BY <1>1, <2>3, <3>1, MaxOf
    <3>3. j \in 1 .. n /\ k \in BundlePendingKeys(out[j])
      BY <3>2
    <3>4. \A l \in 1 .. n : j < l => k \notin BundlePendingKeys(out[l])
      <4>1. ASSUME NEW l \in 1 .. n, j < l, k \in BundlePendingKeys(out[l]) PROVE FALSE
        <5>1. l <= j
          BY <3>2, <4>1
        <5> QED
          BY <1>1, <3>3, <4>1, <5>1
      <4> QED
        BY <4>1
    <3>5. PICK a \in DOMAIN out[j] : k \in PendingKeys(out[j][a])
      BY <3>3 DEF BundlePendingKeys
    <3>6. a \in DOMAIN res[j] /\ res[j][a] = out[j][a] /\ j \in 1 .. m
      BY <1>1, <3>3
    <3>7. \A l \in 1 .. m : j < l => k \notin BundlePendingKeys(res[l])
      BY <2>1, <3>4
    <3>8. k \in DOMAIN old /\ old[k] = start + j - 1 + Latency(out[j][a].opcode)
      BY <1>2, <3>3, <3>4, <3>5
    <3>9. k \in DOMAIN new /\ new[k] = start + j - 1 + Latency(out[j][a].opcode)
      BY <1>4, <3>5, <3>6, <3>7
    <3> QED
      BY <3>8, <3>9
  <2> QED
    BY <2>2, <2>3
<1>6. ASSUME NEW c \in DOMAIN b, k \in PendingKeys(b[c])
      PROVE  new[k] = start + m - 1 + Latency(b[c].opcode)
  <2>1. PICK a \in DOMAIN res[m] : res[m][a] = b[c]
    BY <1>1
  <2>2. m \in 1 .. m /\ \A l \in 1 .. m : ~(m < l)
    BY <1>1
  <2> QED
    BY <1>4, <1>6, <2>1, <2>2
<1> QED
  BY <1>5, <1>6 DEF m

\* The table expects no result later than the stream has it.
Early(rdy, s) == \A k \in DOMAIN rdy : \E i, a : Visible(s, i, a, k) /\ rdy[k] <= ResultAt(s, i, a)

\* What its readers find ready in the stream is ready by the table.
LEMMA EarlyRequired ==
  ASSUME NEW s, IsSequence(s), NEW rdy, Early(rdy, s), NEW B \in Nat, Bounded(rdy, B),
         NEW b, \A a \in DOMAIN b : SylReady(s, b[a])
  PROVE  BundleRequiredCycle(rdy, b) <= Cycles(s)
<1>1. Cycles(s) \in Nat
  BY CountFacts
<1>2. ASSUME NEW a \in DOMAIN b, NEW k \in ReadKeys(b[a]) PROVE ReadyAt(rdy, k) <= Cycles(s)
  <2>1. CASE k \in DOMAIN rdy
    <3>1. PICK i, x : Visible(s, i, x, k) /\ rdy[k] <= ResultAt(s, i, x)
      BY <2>1 DEF Early
    <3>2. ResultAt(s, i, x) <= Cycles(s)
      BY <1>2, <3>1 DEF SylReady
    <3>3. ResultAt(s, i, x) \in Nat
      <4>1. CycleAt(s, i) \in Nat
        BY <3>1, CountFacts DEF Visible, Writes
      <4>2. Latency(s[i].bundle[x].opcode) \in 0 .. 6
        BY LatencyNat
      <4> QED
        BY <4>1, <4>2 DEF ResultAt
    <3>4. rdy[k] \in Nat /\ ReadyAt(rdy, k) = rdy[k]
      BY <2>1 DEF Bounded, ReadyAt
    <3> QED
      BY <1>1, <3>1, <3>2, <3>3, <3>4
  <2>2. CASE k \notin DOMAIN rdy
    BY <1>1, <2>2 DEF ReadyAt
  <2> QED
    BY <2>1, <2>2
<1>3. ASSUME NEW a \in DOMAIN b PROVE RequiredCycle(rdy, b[a]) \in 0 .. B /\ RequiredCycle(rdy, b[a]) <= Cycles(s)
  <2> DEFINE T == {0} \cup {ReadyAt(rdy, k) : k \in ReadKeys(b[a])}
  <2>1. T \in SUBSET (0 .. B) /\ T # {}
    BY DEF Bounded, ReadyAt
  <2>2. \A y \in T : y <= Cycles(s)
    BY <1>1, <1>2
  <2>3. RequiredCycle(rdy, b[a]) = Max(T)
    BY DEF RequiredCycle
  <2> HIDE DEF T
  <2>4. Max(T) \in T
    BY <2>1, MaxOf
  <2> QED
    BY <2>1, <2>2, <2>3, <2>4
<1> DEFINE T == {0} \cup {RequiredCycle(rdy, b[a]) : a \in DOMAIN b}
<1>4. T \in SUBSET (0 .. B) /\ T # {}
  BY <1>3
<1>5. \A y \in T : y <= Cycles(s)
  BY <1>1, <1>3
<1>6. BundleRequiredCycle(rdy, b) = Max(T)
  BY DEF BundleRequiredCycle
<1> HIDE DEF T
<1>7. Max(T) \in T
  BY <1>4, MaxOf
<1> QED
  BY <1>5, <1>6, <1>7

\* One bundle more in the stream, and a table that has its results no later.
LEMMA EarlyBundle ==
  ASSUME NEW s, IsSequence(s), NEW old, Early(old, s), NEW x, IsBundle(x), NEW new,
         \A k \in DOMAIN new :
           /\ k \notin BundlePendingKeys(x.bundle) => k \in DOMAIN old /\ new[k] = old[k]
           /\ \A a \in DOMAIN x.bundle : k \in PendingKeys(x.bundle[a]) =>
                new[k] <= Cycles(s) + Latency(x.bundle[a].opcode)
  PROVE  Early(new, Append(s, x))
<1> DEFINE t == Append(s, x)
           u == <<x>>
           n == Len(s)
<1>1. Issues(t, s, u) /\ Len(u) = 1 /\ u[1] = x /\ 1 \in 1 .. 1
  BY AppendIssues
<1>2. /\ IsSequence(t) /\ DOMAIN t = 1 .. (n + 1) /\ t[n + 1] = x /\ n \in Nat /\ DOMAIN s = 1 .. n
  BY AppendAny DEF IsSequence
<1> HIDE DEF t, u
<1>3. /\ StartsWith(t, s) /\ LastFunction(t) = LastFunction(s)
      /\ CycleAt(t, n + 1) = Cycles(s) + 1 - 1 /\ FunctionAt(t, n + 1) = LastFunction(s)
  BY <1>1, IssuesFacts
<1>4. /\ \A i \in 1 .. n : t[i] = s[i] /\ FunctionAt(t, i) = FunctionAt(s, i) /\ CycleAt(t, i) = CycleAt(s, i)
      /\ \A i \in 1 .. n : \A a, k : Writes(t, i, a, k) <=> Writes(s, i, a, k)
  BY <1>3, PrefixFacts
<1>5. Cycles(s) \in Nat
  BY CountFacts
<1> HIDE DEF n
<1>6. \A i \in 1 .. (n + 1) : i \in 1 .. n \/ i = n + 1
  BY <1>2
<1>7. \A i, a, k : Writes(t, i, a, k) => i \in 1 .. (n + 1)
  BY <1>2 DEF Writes
<1>8. \A i, a, k : Writes(s, i, a, k) => i \in 1 .. n
  BY <1>2 DEF Writes
<1>9. ASSUME NEW k \in DOMAIN new, k \notin BundlePendingKeys(x.bundle)
      PROVE  \E i, a : Visible(t, i, a, k) /\ new[k] <= ResultAt(t, i, a)
  <2>1. k \in DOMAIN old /\ new[k] = old[k]
    BY <1>9
  <2>2. PICK i, a : Visible(s, i, a, k) /\ old[k] <= ResultAt(s, i, a)
    BY <2>1 DEF Early
  <2>3. Writes(s, i, a, k) /\ FunctionAt(s, i) = LastFunction(s) /\ i \in 1 .. n
        /\ \A j, b : Writes(s, j, b, k) => ~(i < j)
    BY <1>8, <2>2 DEF Visible
  <2>4. \A b : ~Writes(t, n + 1, b, k)
    BY <1>2, <1>9 DEF Writes, BundlePendingKeys
  <2>5. \A j, b : Writes(t, j, b, k) => ~(i < j)
    BY <1>4, <1>6, <1>7, <2>3, <2>4
  <2>6. Visible(t, i, a, k)
    BY <1>3, <1>4, <2>3, <2>5 DEF Visible
  <2>7. ResultAt(t, i, a) = ResultAt(s, i, a)
    BY <1>4, <2>3 DEF ResultAt
  <2> QED
    BY <2>1, <2>2, <2>6, <2>7
<1>10. ASSUME NEW k \in DOMAIN new, k \in BundlePendingKeys(x.bundle)
       PROVE  \E i, a : Visible(t, i, a, k) /\ new[k] <= ResultAt(t, i, a)
  <2>1. PICK a \in DOMAIN x.bundle : k \in PendingKeys(x.bundle[a])
    BY <1>10 DEF BundlePendingKeys
  <2>2. Writes(t, n + 1, a, k)
    <3>1. n + 1 \in DOMAIN t
      BY <1>2
    <3> QED
      BY <1>2, <2>1, <3>1 DEF Writes
  <2>3. \A j, b : Writes(t, j, b, k) => ~(n + 1 < j)
    BY <1>2, <1>7
  <2>4. Visible(t, n + 1, a, k)
    BY <1>3, <2>2, <2>3 DEF Visible
  <2>5. new[k] <= Cycles(s) + Latency(x.bundle[a].opcode)
    BY <2>1
  <2>6. ResultAt(t, n + 1, a) = Cycles(s) + 1 - 1 + Latency(x.bundle[a].opcode)
    BY <1>2, <1>3 DEF ResultAt
  <2>7. Cycles(s) + 1 - 1 = Cycles(s)
    BY <1>5
  <2> QED
    BY <2>4, <2>5, <2>6, <2>7
<1> QED
  BY <1>9, <1>10 DEF Early, t

LEMMA EarlyLabel ==
  ASSUME NEW s, IsSequence(s), NEW rdy, Early(rdy, s), NEW x, ~IsBundle(x), ~x.func
  PROVE  Early(rdy, Append(s, x))
<1> DEFINE t == Append(s, x)
<1>1. /\ \A i, a, k : Writes(t, i, a, k) <=> Writes(s, i, a, k)
      /\ LastFunction(t) = LastFunction(s)
  BY LabelFacts
<1>2. StartsWith(t, s)
  BY AppendStartsWith
<1> HIDE DEF t
<1>3. ASSUME NEW k, NEW i, NEW a, Visible(s, i, a, k)
      PROVE  Visible(t, i, a, k) /\ ResultAt(t, i, a) = ResultAt(s, i, a)
  <2>1. i \in 1 .. Len(s)
    BY <1>3 DEF Visible, Writes, IsSequence
  <2>2. FunctionAt(t, i) = FunctionAt(s, i) /\ CycleAt(t, i) = CycleAt(s, i) /\ t[i] = s[i]
    BY <1>2, <2>1, PrefixFacts
  <2>3. ResultAt(t, i, a) = ResultAt(s, i, a)
    BY <2>2 DEF ResultAt
  <2> QED
    BY <1>1, <1>3, <2>2, <2>3 DEF Visible
<1> QED
  BY <1>3 DEF Early, t

\* A table with the same entries.
LEMMA EarlyAfterNothing ==
  ASSUME NEW s, NEW rdy, Early(rdy, s), NEW start
  PROVE  Early(ReadyAfterBundles(rdy, start, <<>>), s)
<1> DEFINE new == ReadyAfterBundles(rdy, start, <<>>)
<1>1. IsSequence(<<>>) /\ Len(<<>>) = 0 /\ DOMAIN <<>> = {}
  BY EmptyAny
<1>2. ASSUME NEW k PROVE (k \in DOMAIN new <=> k \in DOMAIN rdy) /\ (k \in DOMAIN rdy => new[k] = rdy[k])
  BY <1>1, AfterBundlesValue
<1> HIDE DEF new
<1> QED
  BY <1>2 DEF Early, new

\* A stream whose first item is the label of a function.
StartsFunction(s) == Len(s) > 0 => ~IsBundle(s[1]) /\ s[1].func

\* Every item belongs to a function.
LEMMA FirstFunction ==
  ASSUME NEW s, IsSequence(s), StartsFunction(s), NEW i \in DOMAIN s
  PROVE  FunctionAt(s, i) >= 1
<1> DEFINE F == {j \in 1 .. i : ~IsBundle(s[j]) /\ s[j].func}
<1>1. i \in 1 .. Len(s) /\ Len(s) \in Nat
  BY DEF IsSequence
<1>2. IsFiniteSet(1 .. i) /\ F \subseteq 1 .. i /\ 1 \in F
  <2>1. 1 \in Int /\ i \in Int /\ 1 \in 1 .. i /\ Len(s) > 0
    BY <1>1
  <2>2. IsFiniteSet(1 .. i)
    BY <2>1, FS_Interval
  <2> QED
    BY <2>1, <2>2 DEF StartsFunction
<1>3. FunctionAt(s, i) = Cardinality(F)
  BY DEF FunctionAt
<1> HIDE DEF F
<1>4. IsFiniteSet(F)
  BY <1>2, FS_Subset
<1>5. Cardinality(F) \in Nat /\ Cardinality(F) # 0
  BY <1>2, <1>4, FS_EmptySet, FS_CardinalityType
<1> QED
  BY <1>3, <1>5

\* No result comes before the first function.
LEMMA EarlyFunction ==
  ASSUME NEW s, IsSequence(s), StartsFunction(s), LastFunction(s) = 0, NEW rdy, Early(rdy, s), NEW t
  PROVE  Early(rdy, t)
<1>1. ASSUME NEW k \in DOMAIN rdy PROVE FALSE
  <2>1. PICK i, a : Visible(s, i, a, k)
    BY <1>1 DEF Early
  <2>2. i \in DOMAIN s /\ FunctionAt(s, i) = 0
    BY <2>1 DEF Visible, Writes
  <2>3. FunctionAt(s, i) >= 1
    BY <2>2, FirstFunction
  <2> QED
    BY <2>2, <2>3
<1> QED
  BY <1>1 DEF Early

\* The ready table at the end of the segment.
Table == ReadyAfterBundles(ready, cycle, segment)

\* The inductive invariant: while a single function is packed, what is packed
\* is no longer than what it was packed from, and no result is expected later.
LengthInv ==
  /\ source \in Programs
  /\ phase = "emit" => (at = 0 <=> items = <<>>)
  /\ StartsFunction(items)
  /\ phase = "pack" /\ LastFunction(items) = 1 =>
       Cycles(Out) <= Cycles(Consumed) /\ Early(Table, Consumed)
  /\ phase \in {"verify", "done"} /\ LastFunction(items) = 1 => Cycles(packed) <= Cycles(items)

LEMMA InitLength == Init => LengthInv
<1> SUFFICES ASSUME Init PROVE LengthInv
  OBVIOUS
<1>1. source \in Programs /\ phase = "emit" /\ items = <<>> /\ at = 0
  BY DEF Init
<1>2. StartsFunction(<<>>)
  BY DEF StartsFunction
<1> QED
  BY <1>1, <1>2 DEF LengthInv

\* The first item of a stream stays.
LEMMA StartKept ==
  ASSUME NEW s, NEW t, StartsWith(t, s), Len(s) > 0, StartsFunction(s)
  PROVE  StartsFunction(t)
<1>1. Len(s) \in Nat /\ 1 \in 1 .. Len(s)
  BY DEF StartsWith, IsSequence
<1> QED
  BY <1>1 DEF StartsWith, StartsFunction

LEMMA EmptyOrLong ==
  ASSUME NEW s, IsSequence(s), s # <<>>
  PROVE  Len(s) > 0
<1>1. Len(s) \in Nat
  BY DEF IsSequence
<1>2. ASSUME Len(s) = 0 PROVE FALSE
  BY <1>2, EmptyAny, EqualAny
<1> QED
  BY <1>1, <1>2
\* The emit loops put items behind the stream, the label of a function first.
LEMMA EmitLength ==
  ASSUME TypeInv, LengthInv, phase = "emit", phase' \in {"emit", "error"}, at' = at + 1, source' = source,
         \/ phase' = "error" /\ items' = items
         \/ StartsWith(items', items) /\ Len(items') > 0 /\ (at = 0 => StartsFunction(items'))
  PROVE  LengthInv'
<1>1. /\ IsSequence(items) /\ at \in Nat /\ source \in Programs /\ StartsFunction(items)
      /\ at = 0 <=> items = <<>>
  BY DEF TypeInv, LengthInv
<1>2. at' # 0 /\ Len(<<>>) = 0
  BY <1>1
<1>3. CASE phase' = "error" /\ items' = items
  BY <1>1, <1>3 DEF LengthInv
<1>4. CASE StartsWith(items', items) /\ Len(items') > 0 /\ (at = 0 => StartsFunction(items'))
  <2>1. StartsFunction(items')
    BY <1>1, <1>4, EmptyOrLong, StartKept
  <2>2. items' # <<>>
    BY <1>2, <1>4
  <2> QED
    BY <1>1, <1>2, <2>1, <2>2 DEF LengthInv
<1> QED
  BY <1>3, <1>4

\* Emission is before packing, where there is nothing to compare.
LEMMA EmitInSlotLength ==
  ASSUME TypeInv, LengthInv, phase = "emit", NEW syl, NEW slots,
         slots # {} => \E slot \in Slots(Processor) :
                         slots = {slot} /\ SlotSupports(Processor, slot, syl.opcode),
         EmitInSlot(syl, slots), at' = at + 1, source' = source, at # 0
  PROVE  LengthInv'
<1>0. IsSequence(items)
  BY DEF TypeInv
<1>1. CASE slots = {}
  <2>1. phase' = "error" /\ items' = items
    BY <1>1 DEF EmitInSlot
  <2> QED
    BY <2>1, EmitLength
<1>2. CASE slots # {}
  <2>1. PICK slot, n : Emitted(items, items', slot, syl, n) /\ UNCHANGED phase
    BY <1>2, EmitInSlotFacts
  <2> DEFINE pad == AsItems(Padding(n))
             c == items \o pad
             x == BundleItem(BundleWith(slot, syl))
  <2>2. n \in Nat /\ items' = Append(c, x)
    BY <2>1 DEF Emitted
  <2>3. Issues(c, items, pad)
    BY <1>0, <2>2, PaddingIssues
  <2> HIDE DEF c, x, pad
  <2>4. StartsWith(c, items)
    BY <2>3, IssuesFacts
  <2>5. StartsWith(Append(c, x), c)
    BY <2>4, AppendStartsWith DEF StartsWith
  <2>6. StartsWith(items', items) /\ Len(items') > 0
    <3> DEFINE t == Append(c, x)
    <3>1. Len(t) = Len(c) + 1
      BY <2>4, AppendAny DEF StartsWith
    <3> HIDE DEF t
    <3>2. StartsWith(t, items) /\ Len(t) > 0
      BY <2>4, <2>5, <3>1 DEF StartsWith, IsSequence, t
    <3> QED
      BY <2>2, <3>2 DEF t
  <2>7. phase' = "emit"
    BY <2>1
  <2> QED
    BY <2>6, <2>7, EmitLength
<1> QED
  BY <1>1, <1>2

\* Only a function can come first.
LEMMA FirstVisited ==
  ASSUME TypeInv, LengthInv, NEW kind, kind # "Function", Visit(kind)
  PROVE  at # 0
<1>1. ASSUME at = 0 PROVE FALSE
  <2>1. source \in Programs /\ at < Len(source) /\ Current.kind = kind
    BY DEF LengthInv, Visit
  <2>2. Len(source) > 0 /\ Current = source[1]
    BY <1>1, <2>1, ProgramsAssumption DEF Current
  <2>3. source[1].kind = "Function"
    BY <2>1, <2>2, ProgramsAssumption
  <2> QED
    BY <2>1, <2>2, <2>3
<1> QED
  BY <1>1

\* A turn of packing consumes one item.
LEMMA ConsumedStep ==
  ASSUME TypeInv, phase = "pack", at < Len(items), at' = at + 1, items' = items
  PROVE  /\ Consumed' = Append(Consumed, Item) /\ IsSequence(Consumed) /\ Len(Consumed) = at
         /\ StartsWith(items, Consumed) /\ StartsWith(items, Append(Consumed, Item))
         /\ at + 1 \in DOMAIN items
<1>1. IsSequence(items) /\ at \in Nat /\ Len(items) \in Nat
  BY DEF TypeInv, IsSequence
<1>2. at \in 0 .. Len(items) /\ at + 1 \in 0 .. Len(items)
  BY <1>1
<1>3. /\ IsSequence(Consumed) /\ Len(Consumed) = at /\ \A i \in 1 .. at : Consumed[i] = items[i]
  BY <1>1, <1>2, PrefixAny DEF Consumed
<1>4. SubSeq(items, 1, at + 1) = Append(Consumed, Item)
  BY <1>1, <1>2, PrefixStepAny DEF Consumed, Item
<1>5. Consumed' = SubSeq(items, 1, at + 1)
  BY DEF Consumed
<1>6. StartsWith(items, Consumed)
  BY <1>1, <1>2, <1>3 DEF StartsWith
<1> DEFINE u == SubSeq(items, 1, at + 1)
<1>7. IsSequence(u) /\ Len(u) = at + 1 /\ \A i \in 1 .. (at + 1) : u[i] = items[i]
  BY <1>1, <1>2, PrefixAny
<1> HIDE DEF u
<1>8. StartsWith(items, u)
  BY <1>1, <1>2, <1>7 DEF StartsWith
<1>9. at + 1 \in DOMAIN items
  BY <1>1, <1>2 DEF IsSequence
<1> QED
  BY <1>3, <1>4, <1>5, <1>6, <1>8, <1>9 DEF u

\* The item that comes next finds its sources ready in the scalar stream.
LEMMA ItemReady ==
  ASSUME NEW s, NEW c, StartsWith(c, s), Len(s) + 1 \in DOMAIN c, StallFreeInLayout(c),
         NEW x, x = c[Len(s) + 1], IsBundle(x)
  PROVE  \A a \in DOMAIN x.bundle : SylReady(s, x.bundle[a])
<1> DEFINE j == Len(s) + 1
<1>1. \A a \in DOMAIN c[j].bundle : ReaderReady(c, j, a)
  BY StallFreeIn
<1>2. \A a : ReaderReady(c, j, a) <=> SylReady(s, c[j].bundle[a])
  BY ReaderNext
<1> QED
  BY <1>1, <1>2

\* Segment and table while a segment is packed.
LEMMA SegmentFacts ==
  ASSUME TypeInv, StallInv, phase = "pack"
  PROVE  /\ IsSequence(packed) /\ IsSequence(segment) /\ \A i \in DOMAIN segment : Sound(segment[i])
         /\ Len(segment) \in Nat /\ cycle \in Nat
         /\ cycle = Cycles(packed) /\ Cycles(Out) = cycle + Len(segment)
         /\ Bounded(ready, cycle + 6) /\ Bounded(Table, cycle + Len(segment) + 6)
<1>1. /\ IsSequence(packed) /\ IsSequence(segment) /\ \A i \in DOMAIN segment : Sound(segment[i])
      /\ cycle \in Nat /\ cycle = Cycles(packed) /\ Bounded(ready, cycle + 6) /\ Covers(packed, ready, 0)
  BY DEF TypeInv, StallInv
<1>2. Len(segment) \in Nat
  BY <1>1 DEF IsSequence
<1>3. cycle + 0 = Cycles(packed) /\ 0 \in Nat
  BY <1>1
<1>4. Cycles(Out) = Cycles(packed) + Len(segment)
  BY <1>1, <1>3, CoversBundles DEF Out, AllSound
<1>5. Bounded(Table, cycle + Len(segment) + 6)
  <2> DEFINE B == cycle + Len(segment) + 6
  <2>1. B \in Nat /\ cycle + Len(segment) + 5 <= B /\ Bounded(ready, B)
    BY <1>1, <1>2 DEF Bounded
  <2> HIDE DEF B
  <2>2. Bounded(Table, B)
    BY <1>1, <1>2, <2>1, AfterBundlesBounded DEF Table
  <2> QED
    BY <2>2 DEF B
<1> QED
  BY <1>1, <1>2, <1>4, <1>5

\* A bundle packed is no later than the scalar stream has it.
LEMMA PackLength ==
  ASSUME TypeInv, StallInv, TypeInv', StallInv', LengthInv, PackBundle, LastFunction(items) = 1
  PROVE  Cycles(Out') <= Cycles(Consumed') /\ Early(Table', Consumed')
<1> DEFINE b == Item.bundle
           N == Cycles(Consumed)
<1>1. /\ phase = "pack" /\ phase' = "pack" /\ at < Len(items) /\ at' = at + 1 /\ items' = items
      /\ packed' = packed /\ segment' = PackOne(segment, b, cycle, ready)
      /\ cycle' = cycle /\ ready' = ready /\ IsBundle(Item)
  BY DEF PackBundle, IsControl
<1>2. /\ Consumed' = Append(Consumed, Item) /\ IsSequence(Consumed) /\ Len(Consumed) = at
      /\ StartsWith(items, Consumed) /\ at + 1 \in DOMAIN items
  BY <1>1, ConsumedStep
<1>3. IsScalar(b)
  BY <1>1, <1>2 DEF TypeInv, Item
<1>4. \A a \in DOMAIN b : SylReady(Consumed, b[a])
  BY <1>1, <1>2, ItemReady DEF StallInv, Item
<1>5. /\ IsSequence(segment) /\ (\A i \in DOMAIN segment : Sound(segment[i]))
      /\ Len(segment) \in Nat /\ cycle \in Nat
      /\ Cycles(Out) = cycle + Len(segment) /\ Bounded(ready, cycle + 6)
      /\ Bounded(Table, cycle + Len(segment) + 6)
  BY <1>1, SegmentFacts
<1>6. Cycles(Out) <= N /\ Early(Table, Consumed)
  BY <1>1 DEF LengthInv
<1>7. N \in Nat
  BY <1>2, CountFacts
<1>8. BundleRequiredCycle(Table, b) <= N
  <2> DEFINE B == cycle + Len(segment) + 6
  <2>1. B \in Nat
    BY <1>5
  <2> HIDE DEF B, b
  <2>2. Bounded(Table, B)
    BY <1>5 DEF B
  <2> QED
    BY <1>2, <1>4, <1>6, <2>1, <2>2, EarlyRequired
<1> HIDE DEF b
<1>9. Adds(segment', segment, b) /\ cycle + Len(segment') <= N + 1
  <2>1. BundleRequiredCycle(ReadyAfterBundles(ready, cycle, segment), b) <= N
    BY <1>8 DEF Table
  <2>2. cycle + Len(segment) <= N
    BY <1>5, <1>6
  <2> HIDE DEF N
  <2> QED
    BY <1>1, <1>3, <1>5, <1>7, <2>1, <2>2, PackAdds
<1>10. /\ Cycles(Out') = cycle + Len(segment') /\ Len(segment') \in Nat
       /\ \A i \in DOMAIN segment' : Sound(segment'[i])
  <2>1. /\ IsSequence(packed) /\ IsSequence(segment') /\ \A i \in DOMAIN segment' : Sound(segment'[i])
        /\ cycle = Cycles(packed) /\ Covers(packed, ready, 0)
    BY <1>1 DEF TypeInv, StallInv
  <2>2. cycle + 0 = Cycles(packed) /\ 0 \in Nat
    BY <1>5, <2>1
  <2>3. Cycles(packed \o AsItems(segment')) = Cycles(packed) + Len(segment')
    BY <1>5, <2>1, <2>2, CoversBundles DEF AllSound
  <2>4. Out' = packed \o AsItems(segment')
    BY <1>1 DEF Out, AsItems, BundleItem
  <2>5. Len(segment') \in Nat
    BY <2>1 DEF IsSequence
  <2> QED
    BY <2>1, <2>3, <2>4, <2>5
<1>11. Table' = ReadyAfterBundles(ready, cycle, segment')
  <2>1. Table' = ReadyAfterBundles(ready', cycle', segment')
    BY DEF Table
  <2> QED
    BY <1>1, <2>1
<1>12. ASSUME NEW k
       PROVE  /\ k \notin BundlePendingKeys(b) =>
                   (k \in DOMAIN Table' <=> k \in DOMAIN Table) /\ (k \in DOMAIN Table => Table'[k] = Table[k])
              /\ \A a \in DOMAIN b : k \in PendingKeys(b[a]) =>
                   Table'[k] = cycle + Len(segment') - 1 + Latency(b[a].opcode)
  BY <1>5, <1>9, <1>10, <1>11, AddsTable DEF Table
<1>13. \A k \in DOMAIN Table' :
         /\ k \notin BundlePendingKeys(b) => k \in DOMAIN Table /\ Table'[k] = Table[k]
         /\ \A a \in DOMAIN b : k \in PendingKeys(b[a]) => Table'[k] <= N + Latency(b[a].opcode)
  <2>1. ASSUME NEW k \in DOMAIN Table', NEW a \in DOMAIN b, k \in PendingKeys(b[a])
        PROVE  Table'[k] <= N + Latency(b[a].opcode)
    <3> DEFINE lat == Latency(b[a].opcode)
    <3>1. lat \in 0 .. 6 /\ Table'[k] = cycle + Len(segment') - 1 + lat
      BY <1>12, <2>1, LatencyNat
    <3> HIDE DEF lat, N
    <3> QED
      BY <1>5, <1>7, <1>9, <1>10, <3>1 DEF lat
  <2> QED
    BY <1>12, <2>1
<1>14. Early(Table', Append(Consumed, Item))
  BY <1>1, <1>2, <1>6, <1>13, EarlyBundle DEF b
<1>15. Cycles(Append(Consumed, Item)) = N + 1
  BY <1>1, <1>2, AppendCycles
<1> QED
  BY <1>2, <1>9, <1>10, <1>14, <1>15

\* Neither is the end of a segment.
LEMMA EndLength ==
  ASSUME TypeInv, StallInv, LengthInv, EndSegment, LastFunction(items) = 1
  PROVE  Cycles(Out') <= Cycles(Consumed') /\ Early(Table', Consumed')
<1> DEFINE c == cycle + Len(segment)
           N == Cycles(Consumed)
<1>1. /\ phase = "pack" /\ phase' = "pack" /\ at < Len(items) /\ at' = at + 1 /\ items' = items
      /\ packed' = Append(Out, Item) /\ segment' = <<>> /\ IsControl(Item)
      /\ ready' = IF IsBundle(Item) THEN ReadyAfterBundle(Table, Item.bundle, c) ELSE Table
  BY DEF EndSegment, Out, Table
<1>2. /\ Consumed' = Append(Consumed, Item) /\ IsSequence(Consumed) /\ Len(Consumed) = at
      /\ StartsWith(items, Consumed) /\ StartsWith(items, Append(Consumed, Item))
      /\ at + 1 \in DOMAIN items
  BY <1>1, ConsumedStep
<1>3. /\ IsSequence(segment) /\ IsSequence(packed) /\ Len(segment) \in Nat /\ cycle \in Nat
      /\ Cycles(Out) = c
  BY <1>1, SegmentFacts
<1>4. Cycles(Out) <= N /\ Early(Table, Consumed)
  BY <1>1 DEF LengthInv
<1>5. N \in Nat /\ c \in Nat
  BY <1>2, <1>3, CountFacts
<1>6. IsSequence(Out)
  <2>1. JoinsBundles(packed \o AsItems(segment), packed, segment)
    BY <1>3, ItemsConcat
  <2> QED
    BY <2>1 DEF JoinsBundles, Out
<1>7. Out' = Append(Out, Item)
  <2>1. IsSequence(Append(Out, Item)) /\ AsItems(<<>>) = <<>>
    BY <1>6, AppendAny, EmptyAny, AsItemsFacts, EqualAny
  <2>2. Out' = Append(Out, Item) \o AsItems(<<>>)
    BY <1>1 DEF Out
  <2> QED
    BY <2>1, <2>2, ConcatEmptyAny
<1>8. Table' = ReadyAfterBundles(ready', cycle', <<>>)
  BY <1>1 DEF Table
<1> HIDE DEF c, N
<1>9. CASE IsBundle(Item)
  <2> DEFINE b == Item.bundle
             new == ReadyAfterBundle(Table, b, c)
  <2>1. Sound(b)
    <3>1. IsScalar(b) /\ VerifyBundle(Processor, b)
      BY <1>2, <1>9 DEF TypeInv, AllVerified, Item
    <3> QED
      BY <3>1, VerifiedSound DEF IsScalar, IsEmpty
  <2> HIDE DEF b
  <2>2. ASSUME NEW k
        PROVE  /\ \A a \in DOMAIN b : k \in PendingKeys(b[a]) =>
                    k \in DOMAIN new /\ new[k] = c + Latency(b[a].opcode)
               /\ k \notin BundlePendingKeys(b) =>
                    (k \in DOMAIN new <=> k \in DOMAIN Table) /\ (k \in DOMAIN Table => new[k] = Table[k])
    BY <2>1, AfterBundleValue
  <2>3. ready' = new
    BY <1>1, <1>9 DEF b
  <2> HIDE DEF new
  <2>4. \A k \in DOMAIN new :
          /\ k \notin BundlePendingKeys(b) => k \in DOMAIN Table /\ new[k] = Table[k]
          /\ \A a \in DOMAIN b : k \in PendingKeys(b[a]) => new[k] <= N + Latency(b[a].opcode)
    <3>1. ASSUME NEW k \in DOMAIN new, NEW a \in DOMAIN b, k \in PendingKeys(b[a])
          PROVE  new[k] <= N + Latency(b[a].opcode)
      <4> DEFINE lat == Latency(b[a].opcode)
      <4>1. lat \in 0 .. 6 /\ new[k] = c + lat
        BY <2>2, <3>1, LatencyNat
      <4> HIDE DEF lat
      <4> QED
        BY <1>3, <1>4, <1>5, <4>1 DEF lat
    <3> QED
      BY <2>2, <3>1
  <2>5. Early(new, Append(Consumed, Item))
    BY <1>2, <1>4, <1>9, <2>4, EarlyBundle DEF b, N
  <2>6. Early(Table', Consumed')
    BY <1>2, <1>8, <2>3, <2>5, EarlyAfterNothing
  <2>7. Cycles(Out') = Cycles(Out) + 1 /\ Cycles(Consumed') = N + 1
    BY <1>2, <1>6, <1>7, <1>9, AppendCycles DEF N
  <2> QED
    BY <1>3, <1>4, <1>5, <2>6, <2>7
<1>10. CASE ~IsBundle(Item)
  <2>1. ready' = Table
    BY <1>1, <1>10
  <2>2. Cycles(Out') = Cycles(Out) /\ Cycles(Consumed') = N
    BY <1>2, <1>6, <1>7, <1>10, LabelFacts DEF N
  <2>3. Early(Table, Append(Consumed, Item))
    <3>1. CASE Item.func
      <4> DEFINE t == Append(Consumed, Item)
      <4>1. LastFunction(t) = LastFunction(Consumed) + 1
        BY <1>2, <1>10, <3>1, LabelFacts
      <4>2. IsSequence(t) /\ Len(t) = at + 1 /\ at \in Nat
        BY <1>2, AppendAny DEF TypeInv
      <4> HIDE DEF t
      <4>3. StartsWith(items, t)
        BY <1>2 DEF t
      <4>4. FunctionAt(items, at + 1) = LastFunction(t)
        <5>1. at + 1 \in 1 .. Len(t)
          BY <4>2
        <5> QED
          BY <4>2, <4>3, <5>1, PrefixFacts DEF LastFunction
      <4>5. FunctionAt(items, at + 1) <= 1 /\ LastFunction(Consumed) \in Nat
        BY <1>2, <4>3, CountFacts DEF StartsWith
      <4>6. LastFunction(Consumed) = 0
        BY <4>1, <4>4, <4>5
      <4>7. StartsFunction(Consumed)
        <5>1. ASSUME Len(Consumed) > 0 PROVE Consumed[1] = items[1] /\ Len(items) > 0
          <6>1. Len(Consumed) \in Nat /\ 1 \in 1 .. Len(Consumed) /\ Len(items) \in Nat
            BY <1>2, <5>1 DEF IsSequence, StartsWith
          <6> QED
            BY <1>2, <5>1, <6>1 DEF StartsWith
        <5>2. StartsFunction(items)
          BY DEF LengthInv
        <5> QED
          BY <5>1, <5>2 DEF StartsFunction
      <4> QED
        BY <1>2, <1>4, <4>6, <4>7, EarlyFunction
    <3>2. CASE ~Item.func
      BY <1>2, <1>4, <1>10, <3>2, EarlyLabel
    <3> QED
      BY <3>1, <3>2
  <2>4. Early(Table', Consumed')
    BY <1>2, <1>8, <2>1, <2>3, EarlyAfterNothing
  <2> QED
    BY <1>4, <2>2, <2>4
<1> QED
  BY <1>9, <1>10

\* Every step keeps the packed stream from falling behind.
LEMMA NextLength ==
  TypeInv /\ StallInv /\ TypeInv' /\ StallInv' /\ LengthInv /\ [Next]_vars => LengthInv'
<1> SUFFICES ASSUME TypeInv, StallInv, TypeInv', StallInv', LengthInv, [Next]_vars PROVE LengthInv'
  OBVIOUS
<1>0. /\ IsSequence(items) /\ at \in Nat /\ Len(items) \in Nat
      /\ source \in Programs /\ StartsFunction(items)
  BY DEF TypeInv, LengthInv, IsSequence
<1>1. CASE EmitFunction \/ EmitLabel
  <2>1. PICK l, func : items' = Append(items, LabelItem(l, func)) /\ (EmitFunction => func = TRUE)
    BY <1>1 DEF EmitFunction, EmitLabel
  <2> DEFINE x == LabelItem(l, func)
  <2>2. phase = "emit" /\ phase' = "emit" /\ source' = source /\ at' = at + 1
    BY <1>1 DEF EmitFunction, EmitLabel, Visit
  <2>3. /\ StartsWith(items', items) /\ Len(items') > 0
    <3>1. Len(Append(items, x)) = Len(items) + 1 /\ StartsWith(Append(items, x), items)
      BY <1>0, AppendAny, AppendStartsWith
    <3> QED
      BY <1>0, <2>1, <3>1
  <2>4. ASSUME at = 0 PROVE StartsFunction(items')
    <3>1. EmitFunction
      <4>1. EmitLabel => at # 0
        BY FirstVisited DEF EmitLabel
      <4> QED
        BY <1>1, <2>4, <4>1
    <3>2. items = <<>>
      BY <2>2, <2>4 DEF LengthInv
    <3>3. Append(items, x)[Len(items) + 1] = x /\ Len(items) = 0
      BY <1>0, <3>2, AppendAny
    <3>4. items'[1] = x
      BY <2>1, <3>3
    <3>5. ~IsBundle(x) /\ x.func = func
      BY DEF IsBundle, LabelItem
    <3> HIDE DEF x
    <3> QED
      BY <2>1, <3>1, <3>4, <3>5 DEF StartsFunction
  <2> QED
    BY <2>2, <2>3, <2>4, EmitLength
<1>2. CASE EmitSyllable
  <2>1. phase = "emit" /\ at' = at + 1 /\ source' = source /\ at # 0
    <3>1. Visit("Syllable")
      BY <1>2 DEF EmitSyllable
    <3>2. at # 0
      BY <3>1, FirstVisited
    <3> QED
      BY <1>2, <3>1, <3>2 DEF EmitSyllable, Visit
  <2>2. CASE Lowerable(Current.syl)
    <3> DEFINE low == Lower(Current.syl, at + 1)
               slots == ScalarSlot(Processor, Current.syl.opcode)
    <3>1. EmitInSlot(low, slots)
      BY <1>2, <2>2 DEF EmitSyllable
    <3>2. low.opcode = Current.syl.opcode
      BY DEF Lower, Asm
    <3>3. slots # {} => \E slot \in Slots(Processor) :
                          slots = {slot} /\ SlotSupports(Processor, slot, low.opcode)
      BY <3>2, ScalarSlotSupports
    <3> HIDE DEF low, slots
    <3> QED
      BY <2>1, <3>1, <3>3, EmitInSlotLength
  <2>3. CASE ~Lowerable(Current.syl)
    <3>1. phase' = "error" /\ items' = items
      BY <1>2, <2>3 DEF EmitSyllable
    <3> QED
      BY <2>1, <3>1, EmitLength
  <2> QED
    BY <2>2, <2>3
<1>3. CASE EmitTerminator
  <2> DEFINE low == LowerTerminator(Current, at + 1)
             slots == ControlSlot(Processor, Current.op)
  <2>1. phase = "emit" /\ at' = at + 1 /\ source' = source /\ at # 0
    <3>1. Visit("Terminator")
      BY <1>3 DEF EmitTerminator
    <3>2. at # 0
      BY <3>1, FirstVisited
    <3> QED
      BY <1>3, <3>1, <3>2 DEF EmitTerminator, Visit
  <2>2. EmitInSlot(low, slots)
    BY <1>3 DEF EmitTerminator
  <2>3. low.opcode = Current.op
    BY DEF LowerTerminator, Asm
  <2>4. slots # {} => \E slot \in Slots(Processor) :
                        slots = {slot} /\ SlotSupports(Processor, slot, low.opcode)
    BY <2>3, ControlSlotSupports
  <2> HIDE DEF low, slots
  <2> QED
    BY <2>1, <2>2, <2>4, EmitInSlotLength
<1>4. CASE KeepScalar
  <2>1. packed' = items /\ items' = items /\ phase' = "verify" /\ source' = source
    BY <1>4 DEF KeepScalar
  <2>2. Cycles(items) <= Cycles(items)
    BY <1>0, CountFacts
  <2> QED
    BY <1>0, <2>1, <2>2 DEF LengthInv
<1>5. CASE StartPack
  <2>1. /\ packed' = <<>> /\ segment' = <<>> /\ items' = items /\ phase' = "pack" /\ at' = 0
        /\ ready' = <<>> /\ cycle' = 0 /\ source' = source
    BY <1>5 DEF StartPack, TypeInv, NothingPending
  <2>2. SubSeq(items, 1, 0) = <<>>
    <3>1. 0 \in 0 .. Len(items)
      BY <1>0
    <3>2. IsSequence(SubSeq(items, 1, 0)) /\ Len(SubSeq(items, 1, 0)) = 0
      BY <1>0, <3>1, PrefixAny
    <3> QED
      BY <3>2, EmptyAny, EqualAny
  <2>3. Out' = <<>> /\ Consumed' = <<>>
    BY <2>1, <2>2, EmptyLayout DEF Out, Consumed
  <2>4. Early(<<>>, <<>>)
    BY DEF Early
  <2>5. Table' = ReadyAfterBundles(<<>>, 0, <<>>)
    BY <2>1 DEF Table
  <2>6. Early(Table', Consumed')
    BY <2>3, <2>4, <2>5, EarlyAfterNothing
  <2>7. Cycles(Out') <= Cycles(Consumed')
    BY <2>3, EmptyStall
  <2> QED
    BY <1>0, <2>1, <2>6, <2>7 DEF LengthInv
<1>6. CASE PackBundle
  <2>1. phase' = "pack" /\ items' = items /\ source' = source
    BY <1>6 DEF PackBundle
  <2>2. LastFunction(items) = 1 => Cycles(Out') <= Cycles(Consumed') /\ Early(Table', Consumed')
    BY <1>6, PackLength
  <2> QED
    BY <1>0, <2>1, <2>2 DEF LengthInv
<1>7. CASE EndSegment
  <2>1. phase' = "pack" /\ items' = items /\ source' = source
    BY <1>7 DEF EndSegment
  <2>2. LastFunction(items) = 1 => Cycles(Out') <= Cycles(Consumed') /\ Early(Table', Consumed')
    BY <1>7, EndLength
  <2> QED
    BY <1>0, <2>1, <2>2 DEF LengthInv
<1>8. CASE FinishPack
  <2>1. phase = "pack" /\ phase' = "verify" /\ packed' = Out /\ items' = items /\ source' = source
        /\ at = Len(items)
    BY <1>8 DEF FinishPack, Out
  <2>2. Consumed = items
    BY <1>0, <2>1, PrefixFullAny DEF Consumed
  <2>3. LastFunction(items) = 1 => Cycles(packed') <= Cycles(items)
    BY <2>1, <2>2 DEF LengthInv
  <2> QED
    BY <1>0, <2>1, <2>3 DEF LengthInv
<1>9. CASE Verify
  <2>1. /\ phase = "verify" /\ phase' \in {"done", "error"} /\ packed' = packed
        /\ items' = items /\ source' = source
    BY <1>9 DEF Verify
  <2> QED
    BY <1>0, <2>1 DEF LengthInv
<1>10. CASE UNCHANGED vars
  <2>1. UNCHANGED <<source, at, items, packed, segment, phase, cycle, ready>>
    BY <1>10 DEF vars
  <2>2. Out' = Out /\ Consumed' = Consumed
    BY <2>1 DEF Out, Consumed, AsItems, BundleItem
  <2>3. Table' = Table
    <3>1. Table' = ReadyAfterBundles(ready', cycle', segment')
      BY DEF Table
    <3> QED
      BY <2>1, <3>1 DEF Table
  <2> QED
    BY <2>1, <2>2, <2>3 DEF LengthInv
<1> QED
  BY <1>1, <1>2, <1>3, <1>4, <1>5, <1>6, <1>7, <1>8, <1>9, <1>10 DEF Next, Terminated

(***************************************************************************)
(* pack_scalar_program never makes a module of one function longer: the    *)
(* padding it adds is no more than the scalar stream has, although it      *)
(* computes the ready tables again and keeps the padding it was given.     *)
(***************************************************************************)
THEOREM PackingNeverLengthens == Spec => []NeverLonger
<1>1. TypeInv /\ [Next]_vars => TypeInv'
  BY NextTypeInv
<1>2. TypeInv /\ StallInv /\ [Next]_vars => StallInv'
  BY NextStall
<1>3. TypeInv /\ StallInv /\ TypeInv' /\ StallInv' /\ LengthInv /\ [Next]_vars => LengthInv'
  BY NextLength
<1>4. Spec => []LengthInv
  BY <1>1, <1>2, <1>3, InitStall, InitLength, SpecTypeInv, PTL DEF Spec
<1>5. LengthInv => NeverLonger
  BY DEF LengthInv, NeverLonger, Cycles, LastFunction
<1> QED
  BY <1>4, <1>5, PTL
-----------------------------------------------------------------------------
(***************************************************************************)
(* The dataflow of the packed stream.                                      *)
(***************************************************************************)

\* Item i of stream s issues syllable y.
Issued(s, i, y) ==
  i \in DOMAIN s /\ IsBundle(s[i]) /\ \E a \in DOMAIN s[i].bundle : s[i].bundle[a] = y

\* Stream t issues the syllables of s, none of them before one that s issues
\* earlier.
Follows(t, s) ==
  /\ \A y : (\E i : Issued(s, i, y)) <=> (\E j : Issued(t, j, y))
  /\ \A y, z, i, j, k, l :
       (Issued(s, i, y) /\ Issued(s, j, z) /\ i < j /\ Issued(t, k, y) /\ Issued(t, l, z)) => k <= l

\* Stream t is s with the syllables of item x in its last item.
Grows(t, s, x) ==
  /\ IsSequence(t)
  /\ \A j, y : Issued(s, j, y) => Issued(t, j, y)
  /\ \A j, y : Issued(t, j, y) =>
       Issued(s, j, y) \/ (IsBundle(x) /\ \E a \in DOMAIN x.bundle : x.bundle[a] = y)
  /\ IsBundle(x) => \A a \in DOMAIN x.bundle : Issued(t, Len(t), x.bundle[a])

\* A syllable that occurs once occurs at one place.
LEMMA IssuedOnce ==
  ASSUME NEW s, Once(s), NEW y, NEW i, NEW j, Issued(s, i, y), Issued(s, j, y)
  PROVE  i = j
<1>1. PICK a \in DOMAIN s[i].bundle : s[i].bundle[a] = y
  BY DEF Issued
<1>2. PICK b \in DOMAIN s[j].bundle : s[j].bundle[b] = y
  BY DEF Issued
<1>3. /\ <<i, a>> \in SyllablesOf(s) /\ SylAt(s, <<i, a>>) = y
      /\ <<j, b>> \in SyllablesOf(s) /\ SylAt(s, <<j, b>>) = y
  BY <1>1, <1>2, SyllableIn DEF Issued
<1>4. <<i, a>> = <<j, b>>
  BY <1>3, Zenon DEF Once
<1> QED
  BY <1>4

LEMMA FollowsItself ==
  ASSUME NEW s, IsSequence(s), Once(s) PROVE Follows(s, s)
<1>1. ASSUME NEW y, NEW z, NEW i, NEW j, NEW k, NEW l,
             Issued(s, i, y), Issued(s, j, z), i < j, Issued(s, k, y), Issued(s, l, z)
      PROVE  k <= l
  <2>1. k = i /\ l = j
    BY <1>1, IssuedOnce
  <2>2. i \in Nat /\ j \in Nat
    BY <1>1 DEF Issued, IsSequence
  <2> QED
    BY <1>1, <2>1, <2>2
<1> QED
  BY <1>1 DEF Follows

\* The items of a stream with one more.
LEMMA AppendIssued ==
  ASSUME NEW s, IsSequence(s), NEW x
  PROVE  Grows(Append(s, x), s, x)
<1> DEFINE t == Append(s, x)
           n == Len(s)
<1>1. /\ IsSequence(t) /\ Len(t) = n + 1 /\ n \in Nat
      /\ DOMAIN s = 1 .. n /\ DOMAIN t = 1 .. (n + 1)
      /\ \A i \in 1 .. n : t[i] = s[i]
      /\ t[n + 1] = x
  BY AppendAny DEF IsSequence
<1> HIDE DEF t, n
<1>2. /\ \A i \in 1 .. n : i \in 1 .. (n + 1)
      /\ n + 1 \in 1 .. (n + 1)
      /\ \A i \in 1 .. (n + 1) : i \in 1 .. n \/ i = n + 1
  BY <1>1
<1>3. Grows(t, s, x)
  BY <1>1, <1>2 DEF Grows, Issued
<1> QED
  BY <1>3 DEF t

\* The packed stream follows the scalar one, item by item.
LEMMA FollowsStep ==
  ASSUME NEW s, IsSequence(s), NEW t, Follows(t, s), NEW x, NEW t1, Grows(t1, t, x), Once(t1)
  PROVE  Follows(t1, Append(s, x))
<1> DEFINE s1 == Append(s, x)
           n == Len(s)
           New(y) == IsBundle(x) /\ \E a \in DOMAIN x.bundle : x.bundle[a] = y
<1>1. /\ Len(s1) = n + 1 /\ n \in Nat /\ DOMAIN s = 1 .. n /\ DOMAIN s1 = 1 .. (n + 1)
      /\ \A i \in 1 .. n : s1[i] = s[i]
      /\ s1[n + 1] = x
  BY AppendAny DEF IsSequence
<1>2. Grows(s1, s, x)
  BY AppendIssued
<1> HIDE DEF s1, n
<1>3. \A j, y : Issued(s1, j, y) => (Issued(s, j, y) /\ j \in 1 .. n) \/ (New(y) /\ j = n + 1)
  <2>1. \A i \in 1 .. (n + 1) : i \in 1 .. n \/ i = n + 1
    BY <1>1
  <2> QED
    BY <1>1, <2>1 DEF Issued
<1>4. \A y : New(y) => Issued(t1, Len(t1), y) /\ Issued(s1, n + 1, y)
  BY <1>1, <1>2 DEF Grows
<1>5. /\ \A j, y : Issued(t, j, y) => Issued(t1, j, y)
      /\ \A j, y : Issued(t1, j, y) => Issued(t, j, y) \/ New(y)
      /\ \A j, y : Issued(s, j, y) => Issued(s1, j, y)
  BY <1>2 DEF Grows
<1> HIDE DEF New
<1>6. \A y : (\E i : Issued(s, i, y)) <=> (\E j : Issued(t, j, y))
  BY DEF Follows
<1>7. \A y : (\E i : Issued(s1, i, y)) <=> (\E j : Issued(t1, j, y))
  BY <1>3, <1>4, <1>5, <1>6, Zenon
<1>8. ASSUME NEW y, NEW i, Issued(s, i, y), NEW k, Issued(t1, k, y) PROVE Issued(t, k, y)
  <2>1. PICK j : Issued(t, j, y)
    BY <1>6, <1>8
  <2>2. Issued(t1, j, y)
    BY <1>5, <2>1
  <2>3. j = k
    BY <1>8, <2>2, IssuedOnce
  <2> QED
    BY <2>1, <2>3
<1>9. ASSUME NEW y, NEW z, NEW i, NEW j, NEW k, NEW l,
             Issued(s1, i, y), Issued(s1, j, z), i < j, Issued(t1, k, y), Issued(t1, l, z)
      PROVE  k <= l
  <2>1. i \in 1 .. (n + 1) /\ j \in 1 .. (n + 1)
    BY <1>1, <1>9 DEF Issued
  <2>2. i # n + 1
    BY <1>1, <1>9, <2>1
  <2>3. Issued(s, i, y)
    BY <1>3, <1>9, <2>2
  <2>4. Issued(t, k, y)
    BY <1>8, <1>9, <2>3
  <2>5. CASE Issued(s, j, z)
    <3>1. Issued(t, l, z)
      BY <1>8, <1>9, <2>5
    <3> QED
      BY <1>9, <2>3, <2>4, <2>5, <3>1 DEF Follows
  <2>6. CASE New(z)
    <3>1. Issued(t1, Len(t1), z)
      BY <1>4, <2>6
    <3>2. l = Len(t1)
      BY <1>9, <3>1, IssuedOnce
    <3>3. k \in 1 .. Len(t1) /\ Len(t1) \in Nat
      BY <1>9 DEF Issued, Grows, IsSequence
    <3> QED
      BY <3>2, <3>3
  <2> QED
    BY <1>3, <1>9, <2>5, <2>6
<1>10. Follows(t1, s1)
  BY <1>7, <1>9 DEF Follows
<1> QED
  BY <1>10 DEF s1

\* A turn of pack_bundle_segment, as a step of the stream.
LEMMA AddsGrows ==
  ASSUME NEW done, IsSequence(done), NEW out, IsSequence(out), NEW res, NEW x, IsBundle(x),
         Adds(res, out, x.bundle)
  PROVE  Grows(done \o AsItems(res), done \o AsItems(out), x)
<1> DEFINE t == done \o AsItems(res)
           s == done \o AsItems(out)
           n == Len(done)
           b == x.bundle
<1>1. JoinsBundles(t, done, res) /\ JoinsBundles(s, done, out)
  BY ItemsConcat DEF Adds
<1> HIDE DEF t, s
<1>2. /\ IsSequence(t) /\ Len(t) = n + Len(res) /\ n \in Nat /\ Len(res) \in Nat /\ Len(out) \in Nat
      /\ DOMAIN done = 1 .. n /\ DOMAIN t = 1 .. (n + Len(res)) /\ DOMAIN s = 1 .. (n + Len(out))
      /\ \A i \in 1 .. n : t[i] = done[i] /\ s[i] = done[i]
      /\ \A i \in 1 .. Len(res) : t[n + i] = BundleItem(res[i])
      /\ \A i \in 1 .. Len(out) : s[n + i] = BundleItem(out[i])
      /\ \A i \in DOMAIN t : i \in 1 .. n \/ \E j \in 1 .. Len(res) : i = n + j
      /\ \A i \in DOMAIN s : i \in 1 .. n \/ \E j \in 1 .. Len(out) : i = n + j
  BY <1>1 DEF JoinsBundles
<1> HIDE DEF n
<1>3. \A u : BundleItem(u).bundle = u /\ IsBundle(BundleItem(u))
  BY DEF BundleItem, IsBundle
<1>4. /\ Len(out) <= Len(res) /\ Len(res) > 0
      /\ \A j \in 1 .. Len(out) : \A a \in DOMAIN out[j] : a \in DOMAIN res[j] /\ res[j][a] = out[j][a]
      /\ \A j \in 1 .. Len(res) : \A a \in DOMAIN res[j] :
           (j <= Len(out) /\ a \in DOMAIN out[j]) \/ \E c \in DOMAIN b : res[j][a] = b[c]
      /\ \A c \in DOMAIN b : \E a \in DOMAIN res[Len(res)] : res[Len(res)][a] = b[c]
  BY DEF Adds
<1>5. /\ \A j \in 1 .. Len(out) : j \in 1 .. Len(res) /\ n + j \in 1 .. (n + Len(res))
      /\ \A j \in 1 .. Len(res) : j <= Len(out) => j \in 1 .. Len(out) /\ n + j \in 1 .. (n + Len(out))
      /\ \A j \in 1 .. n : j \in 1 .. (n + Len(res)) /\ j \in 1 .. (n + Len(out))
      /\ Len(res) \in 1 .. Len(res) /\ n + Len(res) \in 1 .. (n + Len(res))
  BY <1>2, <1>4
<1>6. ASSUME NEW j, NEW y, Issued(s, j, y) PROVE Issued(t, j, y)
  <2>1. CASE j \in 1 .. n
    BY <1>2, <1>5, <1>6, <2>1 DEF Issued
  <2>2. ASSUME NEW i \in 1 .. Len(out), j = n + i PROVE Issued(t, j, y)
    <3>1. s[j].bundle = out[i] /\ t[j].bundle = res[i] /\ IsBundle(t[j]) /\ j \in DOMAIN t
      BY <1>2, <1>3, <1>5, <2>2
    <3> QED
      BY <1>4, <1>6, <3>1 DEF Issued
  <2> QED
    BY <1>2, <1>6, <2>1, <2>2 DEF Issued
<1>7. ASSUME NEW j, NEW y, Issued(t, j, y)
      PROVE  Issued(s, j, y) \/ \E a \in DOMAIN x.bundle : x.bundle[a] = y
  <2>1. CASE j \in 1 .. n
    BY <1>2, <1>5, <1>7, <2>1 DEF Issued
  <2>2. ASSUME NEW i \in 1 .. Len(res), j = n + i
        PROVE  Issued(s, j, y) \/ \E a \in DOMAIN x.bundle : x.bundle[a] = y
    <3>1. t[j].bundle = res[i]
      BY <1>2, <1>3, <2>2
    <3>2. PICK a \in DOMAIN res[i] : res[i][a] = y
      BY <1>7, <3>1 DEF Issued
    <3>3. CASE i <= Len(out) /\ a \in DOMAIN out[i]
      <4>1. i \in 1 .. Len(out) /\ j \in DOMAIN s
        BY <1>2, <1>5, <2>2, <3>3
      <4>2. s[j].bundle = out[i] /\ IsBundle(s[j])
        BY <1>2, <1>3, <2>2, <4>1
      <4>3. out[i][a] = y
        BY <1>4, <3>2, <3>3, <4>1
      <4> QED
        BY <3>3, <4>1, <4>2, <4>3 DEF Issued
    <3> QED
      BY <1>4, <3>2, <3>3
  <2> QED
    BY <1>2, <1>7, <2>1, <2>2 DEF Issued
<1>8. ASSUME NEW a \in DOMAIN x.bundle PROVE Issued(t, Len(t), x.bundle[a])
  <2>1. t[Len(t)].bundle = res[Len(res)] /\ IsBundle(t[Len(t)]) /\ Len(t) \in DOMAIN t
    BY <1>2, <1>3, <1>5
  <2> QED
    BY <1>4, <2>1 DEF Issued
<1>9. Grows(t, s, x)
  BY <1>2, <1>6, <1>7, <1>8 DEF Grows
<1> QED
  BY <1>9 DEF t, s

\* Packing a bundle adds its syllables and moves no other.
LEMMA PackGrows ==
  ASSUME NEW done, IsSequence(done), NEW out, IsSequence(out), NEW x, IsBundle(x), IsScalar(x.bundle),
         NEW start \in Nat, NEW rdy, Bounded(rdy, start + 6),
         NEW res, res = PackOne(out, x.bundle, start, rdy)
  PROVE  Grows(done \o AsItems(res), done \o AsItems(out), x)
<1> DEFINE N == start + Len(out) + 6
<1>1. Len(out) \in Nat /\ N \in Nat /\ start + Len(out) + 5 <= N /\ start + Len(out) <= N
  BY DEF IsSequence
<1>2. Bounded(rdy, N)
  BY <1>1 DEF Bounded
<1> HIDE DEF N
<1>3. Bounded(ReadyAfterBundles(rdy, start, out), N)
  BY <1>1, <1>2, AfterBundlesBounded
<1>4. BundleRequiredCycle(ReadyAfterBundles(rdy, start, out), x.bundle) <= N
  <2>1. BundleRequiredCycle(ReadyAfterBundles(rdy, start, out), x.bundle) \in 0 .. N
    BY <1>1, <1>3, BundleRequiredBounded
  <2> QED
    BY <2>1
<1>5. Adds(res, out, x.bundle)
  BY <1>1, <1>4, PackAdds
<1> QED
  BY <1>5, AddsGrows

\* The same syllables, and those that touch location c in the same order.
SameSyllables(s, t) == \A y : (\E i : Issued(s, i, y)) <=> (\E j : Issued(t, j, y))

Touches(y, c) == c \in Uses(y) \cup Defines(y)

SameOrder(s, t, c) ==
  \A y, z, i, j, k, l :
    (/\ y # z /\ c \in Defines(y) /\ Touches(z, c)
     /\ Issued(s, i, y) /\ Issued(s, j, z) /\ Issued(t, k, y) /\ Issued(t, l, z))
    => (i < j <=> k < l) /\ (j < i <=> l < k)

\* No item has a syllable that writes c beside another that touches it.
Separate(s, c) ==
  \A y, z, i : (Issued(s, i, y) /\ Issued(s, i, z) /\ c \in Defines(y) /\ Touches(z, c)) => y = z

\* When no bundle has two operations on one cell of which one writes, the
\* streams have the operations on it in one order.
LEMMA SeparateOrder ==
  ASSUME NEW s, IsSequence(s), NEW t, IsSequence(t), NEW c, Follows(t, s), Separate(s, c), Separate(t, c)
  PROVE  SameOrder(s, t, c) /\ SameOrder(t, s, c) /\ SameSyllables(s, t) /\ SameSyllables(t, s)
<1>1. ASSUME NEW y, NEW z, NEW i, NEW j, NEW k, NEW l,
             y # z, c \in Defines(y), Touches(z, c),
             Issued(s, i, y), Issued(s, j, z), Issued(t, k, y), Issued(t, l, z)
      PROVE  (i < j <=> k < l) /\ (j < i <=> l < k)
  <2>1. i \in Nat /\ j \in Nat /\ k \in Nat /\ l \in Nat
    BY <1>1 DEF Issued, IsSequence
  <2>2. i # j /\ k # l
    BY <1>1 DEF Separate
  <2>3. (i < j => k <= l) /\ (j < i => l <= k)
    BY <1>1 DEF Follows
  <2> QED
    BY <2>1, <2>2, <2>3
<1>2. SameOrder(s, t, c)
  BY <1>1 DEF SameOrder
<1>3. SameOrder(t, s, c)
  BY <1>1 DEF SameOrder
<1>4. SameSyllables(s, t) /\ SameSyllables(t, s)
  BY DEF Follows, SameSyllables
<1> QED
  BY <1>2, <1>3, <1>4

\* The last writers of c before item i, and the readers of c with the writers
\* they read from.
LastOf(s, c, i) == LastWriters(s, Writers(s, c), i)

IsLast(s, c, i, w, j) ==
  /\ Issued(s, j, w) /\ c \in Defines(w) /\ j < i
  /\ \A v, k : (Issued(s, k, v) /\ c \in Defines(v) /\ k < i) => k <= j

Reads(s, c) ==
  {<<SylAt(s, p).id, LastWriters(s, Writers(s, c), p[1])>> :
     p \in {q \in SyllablesOf(s) : c \in Uses(SylAt(s, q))}}

LEMMA IssuedAt ==
  ASSUME NEW s
  PROVE  /\ \A p \in SyllablesOf(s) : Issued(s, p[1], SylAt(s, p))
         /\ \A i, y : Issued(s, i, y) => \E p \in SyllablesOf(s) : p[1] = i /\ SylAt(s, p) = y
<1>1. ASSUME NEW p \in SyllablesOf(s) PROVE Issued(s, p[1], SylAt(s, p))
  <2>1. PICK i \in DOMAIN s : IsBundle(s[i]) /\ \E a \in DOMAIN s[i].bundle : p = <<i, a>>
    BY SyllableIn
  <2>2. PICK a \in DOMAIN s[i].bundle : p = <<i, a>>
    BY <2>1
  <2>3. SylAt(s, p) = s[i].bundle[a] /\ p[1] = i
    BY <2>1, <2>2, SyllableIn
  <2> QED
    BY <2>1, <2>2, <2>3 DEF Issued
<1>2. ASSUME NEW i, NEW y, Issued(s, i, y)
      PROVE  \E p \in SyllablesOf(s) : p[1] = i /\ SylAt(s, p) = y
  <2>1. PICK a \in DOMAIN s[i].bundle : s[i].bundle[a] = y
    BY <1>2 DEF Issued
  <2>2. <<i, a>> \in SyllablesOf(s) /\ SylAt(s, <<i, a>>) = y /\ <<i, a>>[1] = i
    BY <1>2, <2>1, SyllableIn DEF Issued
  <2> QED
    BY <2>2
<1> QED
  BY <1>1, <1>2

\* The last writer of a cell before an item.
LEMMA LastIn ==
  ASSUME NEW s, NEW c, NEW i, NEW id
  PROVE  id \in LastOf(s, c, i) <=> \E w, j : IsLast(s, c, i, w, j) /\ id = w.id
<1> DEFINE W == Writers(s, c)
           before == {p \in W : p[1] < i}
           top == {q \in before : \A r \in before : r[1] <= q[1]}
<1>1. LastOf(s, c, i) = {SylAt(s, p).id : p \in top}
  BY DEF LastOf, LastWriters
<1>2. \A p : p \in W <=> p \in SyllablesOf(s) /\ c \in Defines(SylAt(s, p))
  BY DEF Writers
<1> HIDE DEF W
<1>3. ASSUME NEW p \in top PROVE IsLast(s, c, i, SylAt(s, p), p[1])
  <2>1. p \in SyllablesOf(s) /\ c \in Defines(SylAt(s, p)) /\ p[1] < i
    BY <1>2
  <2>2. ASSUME NEW v, NEW k, Issued(s, k, v), c \in Defines(v), k < i PROVE k <= p[1]
    <3>1. PICK r \in SyllablesOf(s) : r[1] = k /\ SylAt(s, r) = v
      BY <2>2, IssuedAt
    <3>2. r \in before
      BY <1>2, <2>2, <3>1
    <3> QED
      BY <3>1, <3>2
  <2> QED
    BY <2>1, <2>2, IssuedAt DEF IsLast
<1>4. ASSUME NEW w, NEW j, IsLast(s, c, i, w, j) PROVE \E p \in top : SylAt(s, p) = w
  <2>1. PICK p \in SyllablesOf(s) : p[1] = j /\ SylAt(s, p) = w
    BY <1>4, IssuedAt DEF IsLast
  <2>2. p \in before
    BY <1>2, <1>4, <2>1 DEF IsLast
  <2>3. ASSUME NEW r \in before PROVE r[1] <= p[1]
    <3>1. Issued(s, r[1], SylAt(s, r)) /\ c \in Defines(SylAt(s, r)) /\ r[1] < i
      BY <1>2, IssuedAt
    <3> QED
      BY <1>4, <2>1, <3>1 DEF IsLast
  <2> QED
    BY <2>1, <2>2, <2>3
<1> HIDE DEF top
<1> QED
  BY <1>1, <1>3, <1>4

\* The same last writers before places that have the same writers before them.
LEMMA LastSame ==
  ASSUME NEW s, NEW t, IsSequence(s), IsSequence(t), Once(t), NEW c,
         SameSyllables(s, t), SameOrder(s, t, c), NEW i, NEW l,
         \A w, j, k : (Issued(s, j, w) /\ Issued(t, k, w) /\ c \in Defines(w)) => (j < i <=> k < l)
  PROVE  LastOf(s, c, i) \subseteq LastOf(t, c, l)
<1> SUFFICES ASSUME NEW id \in LastOf(s, c, i) PROVE id \in LastOf(t, c, l)
  OBVIOUS
<1>1. PICK w, j : IsLast(s, c, i, w, j) /\ id = w.id
  BY LastIn
<1>2. /\ Issued(s, j, w) /\ c \in Defines(w) /\ j < i
      /\ \A v, k : (Issued(s, k, v) /\ c \in Defines(v) /\ k < i) => k <= j
  BY <1>1 DEF IsLast
<1>3. PICK k : Issued(t, k, w)
  BY <1>2 DEF SameSyllables
<1>4. k < l
  BY <1>2, <1>3
<1>5. ASSUME NEW v, NEW m, Issued(t, m, v), c \in Defines(v), m < l PROVE m <= k
  <2>1. PICK n : Issued(s, n, v)
    BY <1>5 DEF SameSyllables
  <2>2. n < i
    BY <1>5, <2>1
  <2>3. n <= j
    BY <1>2, <1>5, <2>1, <2>2
  <2>4. m \in Nat /\ k \in Nat /\ n \in Nat /\ j \in Nat
    BY <1>2, <1>3, <1>5, <2>1 DEF Issued, IsSequence
  <2>5. CASE v = w
    <3>1. m = k
      BY <1>3, <1>5, <2>5, IssuedOnce
    <3> QED
      BY <2>4, <3>1
  <2>6. CASE v # w
    <3>1. j < n <=> k < m
      BY <1>2, <1>3, <1>5, <2>1, <2>6 DEF SameOrder, Touches
    <3> QED
      BY <2>3, <2>4, <3>1
  <2> QED
    BY <2>5, <2>6
<1>6. IsLast(t, c, l, w, k)
  BY <1>2, <1>3, <1>4, <1>5 DEF IsLast
<1> QED
  BY <1>1, <1>6, LastIn

LEMMA ReadsIn ==
  ASSUME NEW s, NEW c, NEW e
  PROVE  e \in Reads(s, c) <=>
           \E z, j : Issued(s, j, z) /\ c \in Uses(z) /\ e = <<z.id, LastOf(s, c, j)>>
<1>1. ASSUME e \in Reads(s, c)
      PROVE  \E z, j : Issued(s, j, z) /\ c \in Uses(z) /\ e = <<z.id, LastOf(s, c, j)>>
  <2>1. PICK p \in SyllablesOf(s) : /\ c \in Uses(SylAt(s, p))
                                    /\ e = <<SylAt(s, p).id, LastOf(s, c, p[1])>>
    BY <1>1 DEF Reads, LastOf
  <2>2. Issued(s, p[1], SylAt(s, p))
    BY IssuedAt
  <2> QED
    BY <2>1, <2>2
<1>2. ASSUME NEW z, NEW j, Issued(s, j, z), c \in Uses(z), e = <<z.id, LastOf(s, c, j)>>
      PROVE  e \in Reads(s, c)
  <2>1. PICK p \in SyllablesOf(s) : p[1] = j /\ SylAt(s, p) = z
    BY <1>2, IssuedAt
  <2>2. c \in Uses(SylAt(s, p)) /\ e = <<SylAt(s, p).id, LastOf(s, c, p[1])>>
    BY <1>2, <2>1
  <2> QED
    BY <2>2 DEF Reads, LastOf
<1> QED
  BY <1>1, <1>2

\* Two streams that order what touches c alike have the same readers and leave
\* the same result in c.
LEMMA SameFlow ==
  ASSUME NEW s, NEW t, IsSequence(s), IsSequence(t), Once(s), Once(t), NEW c,
         Follows(t, s), Separate(s, c), Separate(t, c)
  PROVE  Reads(t, c) = Reads(s, c) /\ LastOf(t, c, Len(t) + 1) = LastOf(s, c, Len(s) + 1)
<1>1. SameOrder(s, t, c) /\ SameOrder(t, s, c) /\ SameSyllables(s, t) /\ SameSyllables(t, s)
  BY SeparateOrder
<1>2. ASSUME NEW z, NEW j, NEW l, c \in Uses(z), Issued(s, j, z), Issued(t, l, z)
      PROVE  LastOf(s, c, j) = LastOf(t, c, l)
  <2>1. ASSUME NEW w, NEW i, NEW k, Issued(s, i, w), Issued(t, k, w), c \in Defines(w)
        PROVE  i < j <=> k < l
    <3>1. CASE w = z
      <4>1. i = j /\ k = l
        BY <1>2, <2>1, <3>1, IssuedOnce
      <4>2. i \in Nat /\ k \in Nat
        BY <2>1 DEF Issued, IsSequence
      <4> QED
        BY <4>1, <4>2
    <3>2. CASE w # z
      BY <1>1, <1>2, <2>1, <3>2 DEF SameOrder, Touches
    <3> QED
      BY <3>1, <3>2
  <2>2. LastOf(s, c, j) \subseteq LastOf(t, c, l)
    BY <1>1, <2>1, LastSame
  <2>3. LastOf(t, c, l) \subseteq LastOf(s, c, j)
    BY <1>1, <2>1, LastSame
  <2> QED
    BY <2>2, <2>3
<1>3. ASSUME NEW e PROVE e \in Reads(t, c) <=> e \in Reads(s, c)
  <2>1. ASSUME e \in Reads(t, c) PROVE e \in Reads(s, c)
    <3>1. PICK z, l : Issued(t, l, z) /\ c \in Uses(z) /\ e = <<z.id, LastOf(t, c, l)>>
      BY <2>1, ReadsIn
    <3>2. PICK j : Issued(s, j, z)
      BY <1>1, <3>1 DEF SameSyllables
    <3>3. e = <<z.id, LastOf(s, c, j)>>
      BY <1>2, <3>1, <3>2
    <3> QED
      BY <3>1, <3>2, <3>3, ReadsIn
  <2>2. ASSUME e \in Reads(s, c) PROVE e \in Reads(t, c)
    <3>1. PICK z, j : Issued(s, j, z) /\ c \in Uses(z) /\ e = <<z.id, LastOf(s, c, j)>>
      BY <2>2, ReadsIn
    <3>2. PICK l : Issued(t, l, z)
      BY <1>1, <3>1 DEF SameSyllables
    <3>3. e = <<z.id, LastOf(t, c, l)>>
      BY <1>2, <3>1, <3>2
    <3> QED
      BY <3>1, <3>2, <3>3, ReadsIn
  <2> QED
    BY <2>1, <2>2
<1>4. LastOf(t, c, Len(t) + 1) = LastOf(s, c, Len(s) + 1)
  <2>1. ASSUME NEW w, NEW i, NEW k, Issued(s, i, w), Issued(t, k, w)
        PROVE  i < Len(s) + 1 /\ k < Len(t) + 1
    <3>1. i \in 1 .. Len(s) /\ k \in 1 .. Len(t) /\ Len(s) \in Nat /\ Len(t) \in Nat
      BY <2>1 DEF Issued, IsSequence
    <3> QED
      BY <3>1
  <2> DEFINE m == Len(s) + 1
             n == Len(t) + 1
  <2>2. \A w, j, k : (Issued(s, j, w) /\ Issued(t, k, w) /\ c \in Defines(w)) => (j < m <=> k < n)
    BY <2>1
  <2> HIDE DEF m, n
  <2>3. LastOf(s, c, m) \subseteq LastOf(t, c, n)
    BY <1>1, <2>2, LastSame
  <2>4. LastOf(t, c, n) \subseteq LastOf(s, c, m)
    BY <1>1, <2>2, LastSame
  <2> QED
    BY <2>3, <2>4 DEF m, n
<1> QED
  BY <1>3, <1>4
-----------------------------------------------------------------------------
(***************************************************************************)
(* What may share a bundle.                                                *)
(***************************************************************************)

\* The layout has one slot with a memory unit, as Processor::default() has.
OneMemorySlot ==
  \A s, t \in DOMAIN Processor.slot_units :
    "Memory" \in Processor.slot_units[s] /\ "Memory" \in Processor.slot_units[t] => s = t

\* Instruction selection emits no nop, and its operands are lists.
PlainPrograms ==
  \A program \in Programs : \A i \in 1 .. Len(program) :
    /\ program[i].kind = "Syllable" =>
         program[i].syl.opcode # "nop" /\ IsSequence(program[i].syl.srcs)
    /\ program[i].kind = "Terminator" => program[i].op # "nop"

\* An operation with a memory address is a load or a store.
Plain(y) == y.opcode # "nop" /\ (MemOperands(y) # {} => y.opcode \in LoadOps \cup StoreOps)

InSlots(s) == \A i \in DOMAIN s : IsBundle(s[i]) => DOMAIN s[i].bundle \subseteq Slots(Processor)

LEMMA NoMemCells ==
  ASSUME NEW y, MemOperands(y) = {} PROVE MemCells(y) = {}
  BY DEF MemCells

\* Bundles of one syllable have no two operations.
LEMMA ScalarSeparate ==
  ASSUME NEW s, \A i \in DOMAIN s : IsBundle(s[i]) => IsScalar(s[i].bundle), NEW c
  PROVE  Separate(s, c)
  BY DEF Separate, Issued, IsScalar, IsEmpty

\* Two operations of a verified bundle that share location c.
LEMMA BundleSeparate ==
  ASSUME OneMemorySlot, NEW bundle, VerifyBundle(Processor, bundle), DOMAIN bundle \subseteq Slots(Processor),
         NEW a \in DOMAIN bundle, NEW b \in DOMAIN bundle, a # b,
         Plain(bundle[a]), Plain(bundle[b]),
         PredWrites(bundle[a]) \cap (PredWrites(bundle[b]) \cup PredReads(bundle[b])) = {},
         NEW c, c \in Defines(bundle[a]), Touches(bundle[b], c)
  PROVE  FALSE
<1> DEFINE y == bundle[a]
           z == bundle[b]
<1>1. a \in Checked(Processor, bundle) /\ b \in Checked(Processor, bundle)
  BY DEF Checked, Plain
<1>2. /\ GprWrites(y) \cap GprWrites(z) = {}
      /\ GprReads(z) \cap GprWrites(y) = {}
      /\ a \in DOMAIN Processor.slot_units /\ Units(y.opcode) \cap Processor.slot_units[a] # {}
      /\ b \in DOMAIN Processor.slot_units /\ Units(z.opcode) \cap Processor.slot_units[b] # {}
  BY <1>1 DEF VerifyBundle, NoGprWaw, NoGprRaw, SlotsLegal
<1> HIDE DEF y, z
<1>3. c \in WriteKeys(y) \/ c \in MemCells(y)
  BY DEF Defines, PendingKeys, y
<1>4. c \in WriteKeys(z) \/ c \in ReadKeys(z) \/ c \in MemCells(z)
  BY DEF Touches, Uses, Defines, PendingKeys, z
<1>5. \A x : \A k \in MemCells(x) : k.class = "Mem"
  BY DEF MemCells, Cell
<1>6. \A x : \A k \in WriteKeys(x) \cup ReadKeys(x) : k.class = "Gpr" \/ k.class = "Pred"
  BY DEF WriteKeys, ReadKeys, Key
<1>7. CASE c \in MemCells(y) /\ c \in MemCells(z)
  <2>1. MemOperands(y) # {} /\ MemOperands(z) # {}
    BY <1>7, NoMemCells
  <2>2. y.opcode \in LoadOps \cup StoreOps /\ z.opcode \in LoadOps \cup StoreOps
    BY <2>1 DEF Plain, y, z
  <2>3. ASSUME NEW op \in LoadOps \cup StoreOps PROVE Units(op) = {"Memory"}
    <3>1. op \in MemoryOps
      BY DEF MemoryOps
    <3>2. op \notin IntegerAluOps \cup ControlOps \cup MultiplierOps \cup FloatOps \cup AesOps
      BY DEF LoadOps, StoreOps, IntegerAluOps, CompareOps, ControlOps, TerminatorOps, PredLogicOps,
             MultiplierOps, FloatOps, AesOps
    <3> QED
      BY <3>1, <3>2 DEF Units
  <2>4. "Memory" \in Processor.slot_units[a] /\ "Memory" \in Processor.slot_units[b]
    BY <1>2, <2>2, <2>3
  <2> QED
    BY <1>2, <2>4 DEF OneMemorySlot
<1>8. CASE c \in WriteKeys(y) /\ c \in WriteKeys(z) \cup ReadKeys(z)
  <2>1. CASE \E r \in GprWrites(y) : c = Key("Gpr", r)
    <3>1. PICK r \in GprWrites(y) : c = Key("Gpr", r)
      BY <2>1
    <3>2. r \in GprWrites(z) \/ r \in GprReads(z)
      BY <1>8, <3>1 DEF WriteKeys, ReadKeys, Key
    <3> QED
      BY <1>2, <3>1, <3>2
  <2>2. CASE \E p \in PredWrites(y) : c = Key("Pred", p)
    <3>1. PICK p \in PredWrites(y) : c = Key("Pred", p)
      BY <2>2
    <3>2. p \in PredWrites(z) \/ p \in PredReads(z)
      BY <1>8, <3>1 DEF WriteKeys, ReadKeys, Key
    <3> QED
      BY <3>1, <3>2 DEF y, z
  <2> QED
    BY <1>8, <2>1, <2>2 DEF WriteKeys
<1>9. \/ c \in MemCells(y) /\ c \in MemCells(z)
      \/ c \in WriteKeys(y) /\ c \in WriteKeys(z) \cup ReadKeys(z)
  BY <1>3, <1>4, <1>5, <1>6
<1> QED
  BY <1>7, <1>8, <1>9

\* The verifier, the memory slot and the hypothesis on predicates keep
\* operations on one cell apart.
LEMMA PackedSeparate ==
  ASSUME OneMemorySlot, phase = "done", NoPredicateHazard, AllVerified(packed), InSlots(packed),
         \A i, y : Issued(packed, i, y) => Plain(y), NEW c
  PROVE  Separate(packed, c)
<1> SUFFICES ASSUME NEW y, NEW z, NEW i, Issued(packed, i, y), Issued(packed, i, z),
                    c \in Defines(y), Touches(z, c), y # z
             PROVE  FALSE
  BY DEF Separate
<1> DEFINE bundle == packed[i].bundle
<1>1. PICK a \in DOMAIN bundle : bundle[a] = y
  BY DEF Issued
<1>2. PICK b \in DOMAIN bundle : bundle[b] = z
  BY DEF Issued
<1>3. VerifyBundle(Processor, bundle) /\ DOMAIN bundle \subseteq Slots(Processor)
  BY DEF Issued, AllVerified, InSlots
<1>4. Plain(y) /\ Plain(z) /\ a # b
  BY <1>1, <1>2
<1>5. PredWrites(y) \cap (PredWrites(z) \cup PredReads(z)) = {}
  <2>1. /\ <<i, a>> \in SyllablesOf(packed) /\ SylAt(packed, <<i, a>>) = y
        /\ <<i, b>> \in SyllablesOf(packed) /\ SylAt(packed, <<i, b>>) = z
    BY <1>1, <1>2, SyllableIn DEF Issued
  <2>2. <<i, a>>[1] = <<i, b>>[1] /\ <<i, a>>[2] # <<i, b>>[2]
    BY <1>4
  <2> QED
    BY <2>1, <2>2 DEF NoPredicateHazard
<1> HIDE DEF bundle
<1> QED
  BY <1>1, <1>2, <1>3, <1>4, <1>5, BundleSeparate
-----------------------------------------------------------------------------
(***************************************************************************)
(* Packing keeps the dataflow.                                             *)
(***************************************************************************)
AllPlain(s) == \A i, y : Issued(s, i, y) => Plain(y)

\* The inductive invariant: the packed stream issues what has been consumed of
\* the scalar stream, in its order.
FlowInv ==
  /\ AllPlain(items) /\ InSlots(packed)
  /\ phase = "pack" => Follows(Out, Consumed)
  /\ phase \in {"verify", "done"} => Follows(packed, items)

LEMMA EmptyFollows ==
  AllPlain(<<>>) /\ InSlots(<<>>) /\ Follows(<<>>, <<>>)
<1>1. \A i, y : ~Issued(<<>>, i, y)
  BY DEF Issued
<1> QED
  BY <1>1 DEF AllPlain, InSlots, Follows

LEMMA EmittedPlain ==
  ASSUME NEW s, IsSequence(s), AllPlain(s),
         NEW t, NEW slot, NEW syl, NEW n, Emitted(s, t, slot, syl, n), Plain(syl)
  PROVE  AllPlain(t)
<1> DEFINE pad == Padding(n)
           c == s \o AsItems(pad)
           x == BundleItem(BundleWith(slot, syl))
<1>1. n \in Nat /\ t = Append(c, x)
  BY DEF Emitted
<1>2. IsSequence(pad) /\ Len(pad) = n /\ \A i \in 1 .. n : pad[i] = EmptyBundle
  BY <1>1, PaddingFacts
<1>3. x.bundle = BundleWith(slot, syl)
  BY DEF BundleItem
<1>4. DOMAIN x.bundle = {slot} /\ x.bundle[slot] = syl
  BY <1>3 DEF BundleWith
<1> HIDE DEF pad, x
<1>5. JoinsBundles(c, s, pad)
  BY <1>2, ItemsConcat
<1> HIDE DEF c
<1>6. /\ IsSequence(c) /\ DOMAIN s = 1 .. Len(s)
      /\ \A i \in 1 .. Len(s) : c[i] = s[i]
      /\ \A i \in 1 .. n : c[Len(s) + i] = BundleItem(EmptyBundle)
      /\ \A i \in DOMAIN c : i \in 1 .. Len(s) \/ \E j \in 1 .. n : i = Len(s) + j
  BY <1>2, <1>5 DEF JoinsBundles
<1>7. DOMAIN BundleItem(EmptyBundle).bundle = {}
  BY DEF BundleItem, EmptyBundle
<1>8. \A i, y : Issued(c, i, y) => Issued(s, i, y)
  BY <1>6, <1>7 DEF Issued
<1>9. Grows(t, c, x)
  BY <1>1, <1>6, AppendIssued
<1>10. \A j, y : Issued(t, j, y) => Issued(c, j, y) \/ \E a \in DOMAIN x.bundle : x.bundle[a] = y
  BY <1>9 DEF Grows
<1> QED
  BY <1>4, <1>8, <1>10 DEF AllPlain

\* lower_syllable puts an address into loads and stores only.
LEMMA LowerPlain ==
  ASSUME NEW syl, syl.opcode # "nop", IsSequence(syl.srcs), NEW id
  PROVE  Plain(Lower(syl, id)) /\ Lower(syl, id).opcode = syl.opcode /\ Lower(syl, id).id = id
<1> DEFINE y == Lower(syl, id)
           srcs == syl.srcs
<1>1. y.opcode = syl.opcode /\ y.id = id
  BY DEF Lower, Asm
<1>2. ASSUME NEW f, IsSequence(f), \A k \in DOMAIN f : f[k].kind # "MemAddr",
             NEW g, IsSequence(g), \A k \in DOMAIN g : g[k].kind # "MemAddr",
             y.operands = f \o g
      PROVE  MemOperands(y) = {}
  <2> DEFINE h == f \o g
  <2>1. Joins(h, f, g)
    BY <1>2, ConcatAny
  <2> HIDE DEF h
  <2>2. /\ DOMAIN h = 1 .. (Len(f) + Len(g)) /\ DOMAIN f = 1 .. Len(f) /\ DOMAIN g = 1 .. Len(g)
        /\ Len(f) \in Nat /\ Len(g) \in Nat
        /\ \A i \in 1 .. Len(f) : h[i] = f[i]
        /\ \A i \in 1 .. Len(g) : h[Len(f) + i] = g[i]
    BY <1>2, <2>1 DEF Joins, IsSequence
  <2>3. ASSUME NEW k \in DOMAIN h PROVE h[k].kind # "MemAddr"
    <3>1. CASE k \in 1 .. Len(f)
      BY <1>2, <2>2, <3>1
    <3>2. CASE k \notin 1 .. Len(f)
      <4>1. k - Len(f) \in 1 .. Len(g) /\ Len(f) + (k - Len(f)) = k
        BY <2>2, <3>2
      <4> QED
        BY <1>2, <2>2, <4>1
    <3> QED
      BY <3>1, <3>2
  <2>4. y.operands = h
    BY <1>2 DEF h
  <2> HIDE DEF y
  <2>5. Sources(y, "MemAddr", FALSE) = {}
    BY <2>3, <2>4 DEF Sources
  <2> QED
    BY <2>5 DEF MemOperands
<1>3. \A v, p : GprOrImm(v).kind # "MemAddr" /\ PredOrGpr(v, p).kind # "MemAddr"
  BY DEF GprOrImm, PredOrGpr, ImmOp, RegOp, PredOp
<1>4. \A r : RegOp(r).kind # "MemAddr" /\ PredOp(r).kind # "MemAddr"
  BY DEF RegOp, PredOp
<1>5. \A u : IsSequence(<<u>>) /\ DOMAIN <<u>> = {1} /\ <<u>>[1] = u
  BY DEF IsSequence
<1>6. DOMAIN <<>> = {}
  OBVIOUS
<1>7. CASE syl.opcode \notin StoreOps \cup LoadOps /\ WritesPred(syl.opcode)
  <2> DEFINE g == [k \in DOMAIN srcs |-> PredOrGpr(srcs[k], syl.opcode \in PredLogicOps)]
             f == <<PredOp(syl.dst)>>
  <2>1. y.operands = f \o g
    BY <1>7 DEF Lower, Asm
  <2>2. g = [k \in 1 .. Len(srcs) |-> g[k]] /\ Len(srcs) \in Nat
    BY DEF IsSequence
  <2>3. \A k \in DOMAIN g : g[k].kind # "MemAddr"
    BY <1>3
  <2> HIDE DEF g
  <2>4. IsSequence(g)
    BY <2>2, TabulateAny
  <2>5. IsSequence(f) /\ \A k \in DOMAIN f : f[k].kind # "MemAddr"
    BY <1>4, <1>5
  <2> HIDE DEF f
  <2>6. MemOperands(y) = {}
    BY <1>2, <2>1, <2>3, <2>4, <2>5
  <2> QED
    BY <1>1, <2>6 DEF Plain
<1>8. CASE syl.opcode \notin StoreOps \cup LoadOps /\ ~WritesPred(syl.opcode)
  <2> DEFINE g == [k \in DOMAIN srcs |-> GprOrImm(srcs[k])]
             f == IF syl.dst = NoDst THEN <<>> ELSE <<RegOp(syl.dst)>>
  <2>1. y.operands = f \o g
    BY <1>8 DEF Lower, Asm
  <2>2. g = [k \in 1 .. Len(srcs) |-> g[k]] /\ Len(srcs) \in Nat
    BY DEF IsSequence
  <2>3. \A k \in DOMAIN g : g[k].kind # "MemAddr"
    BY <1>3
  <2> HIDE DEF g
  <2>4. IsSequence(g)
    BY <2>2, TabulateAny
  <2>5. IsSequence(f) /\ \A k \in DOMAIN f : f[k].kind # "MemAddr"
    BY <1>4, <1>5, <1>6, EmptyAny
  <2> HIDE DEF f
  <2>6. MemOperands(y) = {}
    BY <1>2, <2>1, <2>3, <2>4, <2>5
  <2> QED
    BY <1>1, <2>6 DEF Plain
<1>9. CASE syl.opcode \in StoreOps \cup LoadOps
  BY <1>1, <1>9 DEF Plain
<1> QED
  BY <1>1, <1>7, <1>8, <1>9

\* emit_terminator: no addresses.
LEMMA TerminatorPlain ==
  ASSUME NEW term, term.op # "nop", NEW id PROVE Plain(LowerTerminator(term, id))
<1> DEFINE y == LowerTerminator(term, id)
<1>1. GprReads(y) = {} /\ y.opcode = term.op
  BY TerminatorReads DEF LowerTerminator, Asm
<1> HIDE DEF y
<1>2. Sources(y, "MemAddr", FALSE) = {}
  BY <1>1 DEF GprReads
<1>3. MemOperands(y) = {}
  BY <1>2 DEF MemOperands
<1> QED
  BY <1>1, <1>3 DEF Plain, y

\* Emission adds plain operations in slots of the processor.
LEMMA EmitFlow ==
  ASSUME TypeInv, FlowInv, phase = "emit", NEW syl, NEW slots, Plain(syl),
         slots # {} => \E slot \in Slots(Processor) :
                         slots = {slot} /\ SlotSupports(Processor, slot, syl.opcode),
         EmitInSlot(syl, slots), packed' = packed
  PROVE  FlowInv'
<1>1. CASE slots = {}
  <2>1. phase' = "error" /\ items' = items
    BY <1>1 DEF EmitInSlot
  <2> QED
    BY <2>1 DEF FlowInv
<1>2. CASE slots # {}
  <2>1. PICK slot, n : Emitted(items, items', slot, syl, n) /\ UNCHANGED phase
    BY <1>2, EmitInSlotFacts
  <2>2. IsSequence(items) /\ AllPlain(items)
    BY DEF TypeInv, FlowInv
  <2>3. AllPlain(items')
    BY <2>1, <2>2, EmittedPlain
  <2>4. phase' = "emit"
    BY <2>1
  <2> QED
    BY <2>3, <2>4 DEF FlowInv
<1> QED
  BY <1>1, <1>2

\* The slots of what has been packed.
LEMMA OutInSlots ==
  ASSUME NEW s, IsSequence(s), InSlots(s), NEW bundles, IsSequence(bundles),
         \A i \in DOMAIN bundles : Sound(bundles[i])
  PROVE  IsSequence(s \o AsItems(bundles)) /\ InSlots(s \o AsItems(bundles))
<1> DEFINE c == s \o AsItems(bundles)
<1>1. JoinsBundles(c, s, bundles)
  BY ItemsConcat
<1> HIDE DEF c
<1>2. /\ IsSequence(c) /\ DOMAIN s = 1 .. Len(s)
      /\ \A i \in 1 .. Len(s) : c[i] = s[i]
      /\ \A i \in 1 .. Len(bundles) : c[Len(s) + i] = BundleItem(bundles[i])
      /\ \A i \in DOMAIN c : i \in 1 .. Len(s) \/ \E j \in 1 .. Len(bundles) : i = Len(s) + j
      /\ DOMAIN bundles = 1 .. Len(bundles)
  BY <1>1 DEF JoinsBundles, IsSequence
<1>3. \A u : BundleItem(u).bundle = u
  BY DEF BundleItem
<1>4. ASSUME NEW i \in DOMAIN c, IsBundle(c[i]) PROVE DOMAIN c[i].bundle \subseteq Slots(Processor)
  <2>1. CASE i \in 1 .. Len(s)
    BY <1>2, <1>4, <2>1 DEF InSlots
  <2>2. ASSUME NEW j \in 1 .. Len(bundles), i = Len(s) + j
        PROVE  DOMAIN c[i].bundle \subseteq Slots(Processor)
    <3>1. c[i].bundle = bundles[j] /\ Sound(bundles[j])
      BY <1>2, <1>3, <2>2
    <3> QED
      BY <3>1 DEF Sound
  <2> QED
    BY <1>2, <2>1, <2>2
<1>5. InSlots(c)
  BY <1>4 DEF InSlots
<1> QED
  BY <1>2, <1>5 DEF c

LEMMA AppendInSlots ==
  ASSUME NEW s, IsSequence(s), InSlots(s), NEW x, IsBundle(x) => IsScalar(x.bundle)
  PROVE  InSlots(Append(s, x))
<1> DEFINE n == Len(s)
           t == Append(s, x)
<1>1. /\ DOMAIN s = 1 .. n /\ n \in Nat /\ DOMAIN t = 1 .. (n + 1)
      /\ \A i \in 1 .. n : t[i] = s[i]
      /\ t[n + 1] = x
  BY AppendAny DEF IsSequence
<1> HIDE DEF n, t
<1>2. \A i \in 1 .. (n + 1) : i \in 1 .. n \/ i = n + 1
  BY <1>1
<1>3. IsBundle(x) => DOMAIN x.bundle \subseteq Slots(Processor)
  BY DEF IsScalar, IsEmpty
<1>4. InSlots(t)
  BY <1>1, <1>2, <1>3 DEF InSlots
<1> QED
  BY <1>4 DEF t

\* Every step keeps the operations of the packed stream in the order of the
\* scalar one, up to sharing a bundle.
LEMMA NextFlow ==
  ASSUME PlainPrograms
  PROVE  TypeInv /\ LayoutInv /\ LayoutInv' /\ StallInv /\ FlowInv /\ [Next]_vars => FlowInv'
<1> SUFFICES ASSUME TypeInv, LayoutInv, LayoutInv', StallInv, FlowInv, [Next]_vars PROVE FlowInv'
  OBVIOUS
<1>0. /\ IsSequence(items) /\ IsSequence(packed) /\ IsSequence(segment) /\ Once(items)
      /\ at \in Nat /\ Len(items) \in Nat /\ source \in Programs
  BY DEF TypeInv, LayoutInv, StallInv, IsSequence
<1>1. CASE EmitFunction \/ EmitLabel
  <2>1. PICK l, func : items' = Append(items, LabelItem(l, func))
    BY <1>1 DEF EmitFunction, EmitLabel
  <2> DEFINE x == LabelItem(l, func)
  <2>2. ~IsBundle(x)
    BY DEF IsBundle, LabelItem
  <2>3. phase' = "emit" /\ packed' = packed
    BY <1>1 DEF EmitFunction, EmitLabel, Visit
  <2> HIDE DEF x
  <2>4. Grows(items', items, x)
    BY <1>0, <2>1, AppendIssued DEF x
  <2>5. AllPlain(items')
    BY <2>2, <2>4 DEF Grows, AllPlain, FlowInv
  <2> QED
    BY <2>3, <2>5 DEF FlowInv
<1>2. CASE EmitSyllable
  <2>1. /\ phase = "emit" /\ packed' = packed /\ at + 1 \in 1 .. Len(source)
        /\ Current.kind = "Syllable" /\ Current = source[at + 1]
    <3>1. phase = "emit" /\ packed' = packed /\ at < Len(source) /\ Current.kind = "Syllable"
      BY <1>2 DEF EmitSyllable, Visit
    <3>2. Len(source) \in Nat
      BY <1>0, ProgramsAssumption
    <3> QED
      BY <1>0, <3>1, <3>2 DEF Current
  <2>2. Current.syl.opcode # "nop" /\ IsSequence(Current.syl.srcs)
    BY <1>0, <2>1 DEF PlainPrograms
  <2>3. CASE Lowerable(Current.syl)
    <3> DEFINE low == Lower(Current.syl, at + 1)
               slots == ScalarSlot(Processor, Current.syl.opcode)
    <3>1. EmitInSlot(low, slots)
      BY <1>2, <2>3 DEF EmitSyllable
    <3>2. low.opcode = Current.syl.opcode /\ Plain(low)
      BY <2>2, LowerPlain
    <3>3. slots # {} => \E slot \in Slots(Processor) :
                          slots = {slot} /\ SlotSupports(Processor, slot, low.opcode)
      BY <3>2, ScalarSlotSupports
    <3> HIDE DEF low, slots
    <3> QED
      BY <2>1, <3>1, <3>2, <3>3, EmitFlow
  <2>4. CASE ~Lowerable(Current.syl)
    <3>1. phase' = "error" /\ items' = items
      BY <1>2, <2>4 DEF EmitSyllable
    <3> QED
      BY <2>1, <3>1 DEF FlowInv
  <2> QED
    BY <2>3, <2>4
<1>3. CASE EmitTerminator
  <2> DEFINE low == LowerTerminator(Current, at + 1)
             slots == ControlSlot(Processor, Current.op)
  <2>1. /\ phase = "emit" /\ packed' = packed /\ at < Len(source) /\ Current.kind = "Terminator"
        /\ EmitInSlot(low, slots)
    BY <1>3 DEF EmitTerminator, Visit
  <2>2. at + 1 \in 1 .. Len(source)
    <3>1. Len(source) \in Nat
      BY <1>0, ProgramsAssumption
    <3> QED
      BY <1>0, <2>1, <3>1
  <2>3. Current.op # "nop"
    BY <1>0, <2>1, <2>2 DEF PlainPrograms, Current
  <2>4. low.opcode = Current.op /\ Plain(low)
    BY <2>3, TerminatorPlain DEF LowerTerminator, Asm
  <2>5. slots # {} => \E slot \in Slots(Processor) :
                        slots = {slot} /\ SlotSupports(Processor, slot, low.opcode)
    BY <2>4, ControlSlotSupports
  <2> HIDE DEF low, slots
  <2> QED
    BY <2>1, <2>4, <2>5, EmitFlow
<1>4. CASE KeepScalar
  <2>1. packed' = items /\ items' = items /\ phase' = "verify"
    BY <1>4 DEF KeepScalar
  <2>2. InSlots(items)
    BY DEF InSlots, TypeInv, IsScalar, IsEmpty
  <2>3. Follows(items, items)
    BY <1>0, FollowsItself
  <2> QED
    BY <2>1, <2>2, <2>3 DEF FlowInv
<1>5. CASE StartPack
  <2>1. packed' = <<>> /\ segment' = <<>> /\ items' = items /\ phase' = "pack" /\ at' = 0
    BY <1>5 DEF StartPack, TypeInv
  <2>2. SubSeq(items, 1, 0) = <<>>
    <3>1. 0 \in 0 .. Len(items)
      BY <1>0
    <3>2. IsSequence(SubSeq(items, 1, 0)) /\ Len(SubSeq(items, 1, 0)) = 0
      BY <1>0, <3>1, PrefixAny
    <3> QED
      BY <3>2, EmptyAny, EqualAny
  <2>3. Out' = <<>> /\ Consumed' = <<>>
    BY <2>1, <2>2, EmptyLayout DEF Out, Consumed
  <2> QED
    BY <2>1, <2>3, EmptyFollows DEF FlowInv
<1>6. CASE PackBundle
  <2>1. /\ phase = "pack" /\ phase' = "pack" /\ at < Len(items) /\ at' = at + 1 /\ items' = items
        /\ packed' = packed /\ segment' = PackOne(segment, Item.bundle, cycle, ready)
        /\ IsBundle(Item)
    BY <1>6 DEF PackBundle, IsControl
  <2>2. Consumed' = Append(Consumed, Item) /\ IsSequence(Consumed) /\ at + 1 \in DOMAIN items
    BY <2>1, ConsumedStep
  <2>3. IsScalar(Item.bundle) /\ cycle \in Nat /\ Bounded(ready, cycle + 6)
    BY <2>1, <2>2 DEF TypeInv, Item
  <2>4. Grows(packed \o AsItems(segment'), packed \o AsItems(segment), Item)
    BY <1>0, <2>1, <2>3, PackGrows
  <2>5. Out' = packed \o AsItems(segment') /\ Out = packed \o AsItems(segment)
    BY <2>1 DEF Out, AsItems, BundleItem
  <2>6. Follows(Out, Consumed) /\ Once(Out')
    BY <2>1 DEF FlowInv, LayoutInv
  <2>7. Follows(Out', Consumed')
    BY <2>2, <2>4, <2>5, <2>6, FollowsStep
  <2> QED
    BY <2>1, <2>7 DEF FlowInv
<1>7. ASSUME phase = "pack" PROVE IsSequence(Out) /\ InSlots(Out)
  BY <1>0, <1>7, OutInSlots DEF Out, StallInv, FlowInv
<1>8. CASE EndSegment
  <2>1. /\ phase = "pack" /\ phase' = "pack" /\ at < Len(items) /\ at' = at + 1 /\ items' = items
        /\ packed' = Append(Out, Item) /\ segment' = <<>>
    BY <1>8 DEF EndSegment, Out
  <2>2. Consumed' = Append(Consumed, Item) /\ IsSequence(Consumed) /\ at + 1 \in DOMAIN items
    BY <2>1, ConsumedStep
  <2>3. Out' = Append(Out, Item)
    <3>1. IsSequence(Append(Out, Item)) /\ AsItems(<<>>) = <<>>
      BY <1>7, <2>1, AppendAny, EmptyAny, AsItemsFacts, EqualAny
    <3>2. Out' = Append(Out, Item) \o AsItems(<<>>)
      BY <2>1 DEF Out
    <3> QED
      BY <3>1, <3>2, ConcatEmptyAny
  <2>4. Grows(Out', Out, Item)
    BY <1>7, <2>1, <2>3, AppendIssued
  <2>5. Follows(Out, Consumed) /\ Once(Out')
    BY <2>1 DEF FlowInv, LayoutInv
  <2>6. Follows(Out', Consumed')
    BY <2>2, <2>4, <2>5, FollowsStep
  <2>7. IsBundle(Item) => IsScalar(Item.bundle)
    BY <2>2 DEF TypeInv, Item
  <2>8. InSlots(packed')
    BY <1>7, <2>1, <2>7, AppendInSlots
  <2> QED
    BY <2>1, <2>6, <2>8 DEF FlowInv
<1>9. CASE FinishPack
  <2>1. phase = "pack" /\ phase' = "verify" /\ packed' = Out /\ items' = items /\ at = Len(items)
    BY <1>9 DEF FinishPack, Out
  <2>2. Consumed = items
    BY <1>0, <2>1, PrefixFullAny DEF Consumed
  <2>3. Follows(packed', items) /\ InSlots(packed')
    BY <1>7, <2>1, <2>2 DEF FlowInv
  <2> QED
    BY <2>1, <2>3 DEF FlowInv
<1>10. CASE Verify
  <2>1. phase = "verify" /\ phase' \in {"done", "error"} /\ packed' = packed /\ items' = items
    BY <1>10 DEF Verify
  <2> QED
    BY <2>1 DEF FlowInv
<1>11. CASE UNCHANGED vars
  <2>1. UNCHANGED <<items, packed, segment, at, phase>>
    BY <1>11 DEF vars
  <2>2. Out' = Out /\ Consumed' = Consumed
    BY <2>1 DEF Out, Consumed, AsItems, BundleItem
  <2> QED
    BY <2>1, <2>2 DEF FlowInv
<1> QED
  BY <1>1, <1>2, <1>3, <1>4, <1>5, <1>6, <1>8, <1>9, <1>10, <1>11 DEF Next, Terminated

(***************************************************************************)
(* With one memory slot, a packed stream in which no bundle has a          *)
(* predicate written beside another use of it gives every syllable the     *)
(* operands it has in the scalar stream and leaves the same results in     *)
(* every register and memory cell.  The verifier keeps the general         *)
(* registers apart, the slot keeps loads and stores apart; predicates are  *)
(* what neither looks at.                                                  *)
(***************************************************************************)
THEOREM PackingKeepsDataflow ==
  ASSUME OneMemorySlot, PlainPrograms
  PROVE  Spec => [](NoPredicateHazard => SameDataflow)
<1>1. TypeInv /\ [Next]_vars => TypeInv'
  BY NextTypeInv
<1>2. TypeInv /\ LayoutInv /\ [Next]_vars => LayoutInv'
  BY NextLayout
<1>3. TypeInv /\ StallInv /\ [Next]_vars => StallInv'
  BY NextStall
<1>4. TypeInv /\ LayoutInv /\ LayoutInv' /\ StallInv /\ FlowInv /\ [Next]_vars => FlowInv'
  BY NextFlow
<1>5. Init => FlowInv
  BY EmptyFollows DEF Init, FlowInv
<1>6. Spec => [](TypeInv /\ LayoutInv /\ FlowInv)
  BY <1>1, <1>2, <1>3, <1>4, <1>5, InitLayout, InitStall, SpecTypeInv, PTL DEF Spec
<1>7. TypeInv /\ LayoutInv /\ FlowInv => (NoPredicateHazard => SameDataflow)
  <2> SUFFICES ASSUME TypeInv, LayoutInv, FlowInv, NoPredicateHazard, phase = "done", NEW c
               PROVE  /\ Reads(packed, c) = Reads(items, c)
                      /\ LastOf(packed, c, Len(packed) + 1) = LastOf(items, c, Len(items) + 1)
    BY DEF SameDataflow, Reads, LastOf
  <2>1. /\ IsSequence(items) /\ IsSequence(packed) /\ AllVerified(packed) /\ Once(items) /\ Once(packed)
        /\ \A i \in DOMAIN items : IsBundle(items[i]) => IsScalar(items[i].bundle)
        /\ Follows(packed, items) /\ InSlots(packed) /\ AllPlain(items)
    BY DEF TypeInv, LayoutInv, FlowInv
  <2>2. \A i, y : Issued(packed, i, y) => Plain(y)
    BY <2>1 DEF Follows, AllPlain
  <2>3. Separate(packed, c)
    BY <2>1, <2>2, PackedSeparate
  <2>4. Separate(items, c)
    BY <2>1, ScalarSeparate
  <2> QED
    BY <2>1, <2>3, <2>4, SameFlow
<1> QED
  BY <1>6, <1>7, PTL
=============================================================================
