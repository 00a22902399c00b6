--------------------------- MODULE RegAllocProofs ---------------------------
(***************************************************************************)
(* Theorems about the register allocator of regalloc.rs, for every         *)
(* function and every choice of victims: no register is lost or handed out *)
(* twice, and a register can always be found; and for straight code, every *)
(* operand of the allocated code holds the value it stands for.            *)
(***************************************************************************)
EXTENDS AllocRun, FiniteSetTheorems, SequenceTheorems, WellFoundedInduction, TLAPS

Image(f) == {f[v] : v \in DOMAIN f}

Distinct(f) == \A v, w \in DOMAIN f : f[v] = f[w] => v = w

\* Allocator A has every register of R once, assigned or free.
Owns(A, R) ==
  /\ A = [assigned |-> A.assigned, free |-> A.free, spill_slots |-> A.spill_slots]
  /\ A.assigned \in [DOMAIN A.assigned -> R]
  /\ A.free \in Seq(R)
  /\ Distinct(A.assigned)
  /\ Distinct(A.free)
  /\ Image(A.assigned) \cap Image(A.free) = {}
  /\ Image(A.assigned) \cup Image(A.free) = R

\* The place of the cursor in the function.
CursorOK ==
  /\ func \in Functions
  /\ phase = "alloc" => block \in DOMAIN func /\ k \in 1 .. (Len(Syllables) + 1)

\* The inductive invariant.
Inv == CursorOK /\ Owns(alloc, Allocatable)
-----------------------------------------------------------------------------
(***************************************************************************)
(* The methods of Allocator.                                               *)
(***************************************************************************)

\* A register put in front of the free queue.
LEMMA PushFront ==
  ASSUME NEW R, NEW q \in Seq(R), Distinct(q), NEW r \in R, r \notin Image(q)
  PROVE  /\ <<r>> \o q \in Seq(R)
         /\ Distinct(<<r>> \o q)
         /\ Image(<<r>> \o q) = {r} \cup Image(q)
<1> DEFINE c == <<r>> \o q
<1>1. /\ c \in Seq(R) /\ Len(c) = Len(q) + 1 /\ Len(q) \in Nat
      /\ c[1] = r
      /\ \A n \in 1 .. Len(q) : c[n + 1] = q[n]
  <2>1. <<r>> \in Seq(R) /\ Len(<<r>>) = 1 /\ <<r>>[1] = r
    OBVIOUS
  <2>2. /\ c \in Seq(R) /\ Len(c) = 1 + Len(q)
        /\ \A n \in 1 .. 1 + Len(q) : c[n] = IF n <= 1 THEN <<r>>[n] ELSE q[n - 1]
    BY <2>1, ConcatProperties
  <2>3. Len(q) \in Nat
    BY LenProperties
  <2> HIDE DEF c
  <2> QED
    BY <2>1, <2>2, <2>3
<1>2. DOMAIN c = 1 .. (Len(q) + 1) /\ DOMAIN q = 1 .. Len(q)
  BY <1>1, LenProperties
<1> HIDE DEF c
<1>3. \A n \in DOMAIN c : n = 1 \/ (n - 1 \in DOMAIN q /\ c[n] = q[n - 1])
  BY <1>1, <1>2
<1>4. Distinct(c)
  <2> SUFFICES ASSUME NEW n \in DOMAIN c, NEW m \in DOMAIN c, c[n] = c[m]
               PROVE  n = m
    BY DEF Distinct
  <2>1. n \in Nat /\ m \in Nat
    BY <1>1, <1>2
  <2>2. CASE n = 1 \/ m = 1
    BY <1>1, <1>3, <2>1, <2>2 DEF Image
  <2>3. CASE n # 1 /\ m # 1
    <3>1. n - 1 = m - 1
      BY <1>3, <2>3 DEF Distinct
    <3> QED
      BY <2>1, <3>1
  <2> QED
    BY <2>2, <2>3
<1>5. Image(c) = {r} \cup Image(q)
  <2>1. Image(c) \subseteq {r} \cup Image(q)
    BY <1>1, <1>3 DEF Image
  <2>2. r \in Image(c)
    <3>1. 1 \in DOMAIN c
      BY <1>1, <1>2
    <3> QED
      BY <1>1, <3>1 DEF Image
  <2>3. ASSUME NEW n \in DOMAIN q PROVE q[n] \in Image(c)
    <3>1. n + 1 \in DOMAIN c /\ c[n + 1] = q[n]
      BY <1>1, <1>2
    <3> QED
      BY <3>1 DEF Image
  <2> QED
    BY <2>1, <2>2, <2>3 DEF Image
<1> QED
  BY <1>1, <1>4, <1>5 DEF c

\* A register taken from the front of the free queue.
LEMMA PopFront ==
  ASSUME NEW R, NEW q \in Seq(R), q # <<>>, Distinct(q)
  PROVE  /\ Head(q) \in R
         /\ Tail(q) \in Seq(R)
         /\ Distinct(Tail(q))
         /\ Image(Tail(q)) = Image(q) \ {Head(q)}
         /\ Head(q) \in Image(q)
<1> DEFINE t == Tail(q)
<1>1. /\ Head(q) \in R /\ t \in Seq(R)
      /\ Len(t) = Len(q) - 1
      /\ \A n \in 1 .. Len(t) : t[n] = q[n + 1]
  BY HeadTailProperties
<1>2. /\ Len(q) \in Nat \ {0} /\ Head(q) = q[1]
      /\ DOMAIN q = 1 .. Len(q) /\ DOMAIN t = 1 .. Len(t)
  BY <1>1, LenProperties, EmptySeq
<1> HIDE DEF t
<1>3. \A n \in DOMAIN t : n \in Nat /\ n + 1 \in DOMAIN q /\ t[n] = q[n + 1]
  BY <1>1, <1>2
<1>4. 1 \in DOMAIN q
  BY <1>2
<1>5. Distinct(t)
  <2> SUFFICES ASSUME NEW n \in DOMAIN t, NEW m \in DOMAIN t, t[n] = t[m]
               PROVE  n = m
    BY DEF Distinct
  <2>1. n + 1 = m + 1
    BY <1>3 DEF Distinct
  <2> QED
    BY <1>3, <2>1
<1>6. Image(t) \subseteq Image(q) \ {Head(q)}
  <2> SUFFICES ASSUME NEW n \in DOMAIN t
               PROVE  t[n] \in Image(q) /\ t[n] # q[1]
    BY <1>2 DEF Image
  <2>1. n + 1 # 1
    BY <1>3
  <2> QED
    BY <1>3, <1>4, <2>1 DEF Image, Distinct
<1>7. Image(q) \ {Head(q)} \subseteq Image(t)
  <2> SUFFICES ASSUME NEW n \in DOMAIN q, q[n] # Head(q)
               PROVE  q[n] \in Image(t)
    BY DEF Image
  <2>1. n - 1 \in DOMAIN t /\ t[n - 1] = q[n]
    BY <1>1, <1>2
  <2> QED
    BY <2>1 DEF Image
<1>8. Head(q) \in Image(q)
  BY <1>2, <1>4 DEF Image
<1> QED
  BY <1>1, <1>5, <1>6, <1>7, <1>8 DEF t

\* free_vreg moves a register from the assignments to the queue.
LEMMA FreeVRegOwns ==
  ASSUME NEW A, NEW R, Owns(A, R), NEW v
  PROVE  Owns(FreeVReg(A, v), R)
<1>1. CASE v \notin DOMAIN A.assigned
  BY <1>1 DEF FreeVReg
<1>2. CASE v \in DOMAIN A.assigned
  <2> DEFINE r == A.assigned[v]
             f == Without(A.assigned, v)
             q == <<r>> \o A.free
  <2>1. r \in R /\ r \notin Image(A.free) /\ r \in Image(A.assigned)
    BY <1>2 DEF Owns, Image
  <2>2. q \in Seq(R) /\ Distinct(q) /\ Image(q) = {r} \cup Image(A.free)
    BY <2>1, PushFront DEF Owns
  <2>3. /\ f \in [DOMAIN f -> R \ {r}] /\ Distinct(f)
        /\ Image(f) = Image(A.assigned) \ {r}
    <3>1. A.assigned \in [DOMAIN A.assigned -> R] /\ Distinct(A.assigned)
      BY DEF Owns
    <3>2. /\ DOMAIN f = DOMAIN A.assigned \ {v}
          /\ f \in [DOMAIN A.assigned \ {v} -> R \ {r}] /\ Distinct(f)
          /\ Image(f) = Image(A.assigned) \ {r}
      BY <1>2, <3>1 DEF Without, Distinct, Image
    <3> HIDE DEF f
    <3> QED
      BY <3>2
  <2>4. FreeVReg(A, v) = [assigned |-> f, free |-> q, spill_slots |-> A.spill_slots]
    BY <1>2 DEF FreeVReg, Owns
  <2> HIDE DEF f, q, r
  <2> QED
    BY <2>1, <2>2, <2>3, <2>4 DEF Owns
<1> QED
  BY <1>1, <1>2

\* alloc_preg takes one register out of both.
LEMMA AllocPregOwns ==
  ASSUME NEW A, NEW R, Owns(A, R), NEW protected, NEW o \in AllocPreg(A, protected)
  PROVE  /\ o = [preg |-> o.preg, alloc |-> o.alloc, prefix |-> o.prefix]
         /\ o.preg \in R
         /\ Owns(o.alloc, R \ {o.preg})
         /\ DOMAIN o.alloc.assigned \subseteq DOMAIN A.assigned
<1>1. CASE A.free # <<>>
  <2> DEFINE r == Head(A.free)
             q == Tail(A.free)
  <2>1. /\ r \in R /\ q \in Seq(R) /\ Distinct(q) /\ Image(q) = Image(A.free) \ {r}
        /\ r \in Image(A.free)
    BY <1>1, PopFront DEF Owns
  <2>2. /\ o = [preg |-> o.preg, alloc |-> o.alloc, prefix |-> o.prefix]
        /\ o.preg = r
        /\ o.alloc = [assigned |-> A.assigned, free |-> q, spill_slots |-> A.spill_slots]
    BY <1>1 DEF AllocPreg, Owns
  <2> HIDE DEF r, q
  <2>3. A.assigned \in [DOMAIN A.assigned -> R \ {r}]
    BY <2>1 DEF Owns, Image
  <2>4. q \in Seq(R \ {r})
    <3>1. \A n \in 1 .. Len(q) : q[n] \in R \ {r}
      BY <2>1, LenProperties, ElementOfSeq DEF Image
    <3> QED
      BY <2>1, <3>1, LenProperties, SeqDef
  <2> QED
    BY <2>1, <2>2, <2>3, <2>4 DEF Owns
<1>2. CASE A.free = <<>>
  <2>1. PICK victim \in DOMAIN A.assigned \ protected :
          o = LET slots == SpillSlot(A, victim)
                  p == A.assigned[victim]
              IN  [preg   |-> p,
                   alloc  |-> [A EXCEPT !.assigned = Without(@, victim), !.spill_slots = slots],
                   prefix |-> <<SpillStore(slots[victim], p)>>]
    BY <1>2 DEF AllocPreg
  <2> DEFINE r == A.assigned[victim]
             f == Without(A.assigned, victim)
  <2>2. /\ o = [preg |-> o.preg, alloc |-> o.alloc, prefix |-> o.prefix]
        /\ o.preg = r
        /\ o.alloc = [assigned |-> f, free |-> A.free, spill_slots |-> SpillSlot(A, victim)]
    BY <2>1 DEF Owns
  <2>3. /\ DOMAIN f = DOMAIN A.assigned \ {victim}
        /\ f \in [DOMAIN f -> R \ {r}] /\ Distinct(f)
        /\ Image(f) = Image(A.assigned) \ {r}
    <3>1. A.assigned \in [DOMAIN A.assigned -> R] /\ Distinct(A.assigned)
      BY DEF Owns
    <3>2. /\ DOMAIN f = DOMAIN A.assigned \ {victim}
          /\ f \in [DOMAIN A.assigned \ {victim} -> R \ {r}] /\ Distinct(f)
          /\ Image(f) = Image(A.assigned) \ {r}
      BY <3>1 DEF Without, Distinct, Image
    <3> HIDE DEF f
    <3> QED
      BY <3>2
  <2>4. r \in R /\ Image(A.free) = {}
    BY <1>2 DEF Owns, Image
  <2>5. A.free \in Seq(R \ {r}) /\ Distinct(A.free)
    BY <1>2 DEF Distinct
  <2> HIDE DEF f, r
  <2> QED
    BY <2>2, <2>3, <2>4, <2>5 DEF Owns
<1> QED
  BY <1>1, <1>2

\* preg_for_vreg keeps every register.
LEMMA PregForVRegOwns ==
  ASSUME NEW A, NEW R, Owns(A, R), NEW v, NEW protected, NEW o \in PregForVReg(A, v, protected)
  PROVE  Owns(o.alloc, R)
<1>1. CASE v \in DOMAIN A.assigned
  BY <1>1 DEF PregForVReg
<1>2. CASE v \notin DOMAIN A.assigned
  <2>1. PICK a \in AllocPreg(A, protected) :
          o = [a EXCEPT !.alloc.assigned = With(@, v, a.preg),
                        !.prefix = IF v \in DOMAIN A.spill_slots
                                     THEN Append(@, Reload(A.spill_slots[v], a.preg)) ELSE @]
    BY <1>2 DEF PregForVReg
  <2>2. /\ a = [preg |-> a.preg, alloc |-> a.alloc, prefix |-> a.prefix]
        /\ a.preg \in R
        /\ Owns(a.alloc, R \ {a.preg})
        /\ DOMAIN a.alloc.assigned \subseteq DOMAIN A.assigned
    BY AllocPregOwns
  <2> DEFINE f == With(a.alloc.assigned, v, a.preg)
  <2>3. o.alloc = [assigned |-> f, free |-> a.alloc.free, spill_slots |-> a.alloc.spill_slots]
    BY <2>1, <2>2 DEF Owns
  <2>4. /\ f \in [DOMAIN f -> (R \ {a.preg}) \cup {a.preg}] /\ Distinct(f)
        /\ Image(f) = Image(a.alloc.assigned) \cup {a.preg}
    <3> DEFINE g == a.alloc.assigned
               S == R \ {a.preg}
               D == DOMAIN g
    <3>1. g \in [D -> S] /\ Distinct(g)
      BY <2>2 DEF Owns
    <3>2. v \notin D /\ a.preg \notin S
      BY <1>2, <2>2
    <3> HIDE DEF g, S, D
    <3>3. /\ DOMAIN With(g, v, a.preg) = D \cup {v}
          /\ With(g, v, a.preg) \in [D \cup {v} -> S \cup {a.preg}]
          /\ Distinct(With(g, v, a.preg))
          /\ Image(With(g, v, a.preg)) = Image(g) \cup {a.preg}
      BY <3>1, <3>2 DEF With, Distinct, Image
    <3> QED
      BY <3>3 DEF g, S
  <2>5. a.alloc.free \in Seq(R) /\ a.preg \notin Image(a.alloc.free)
    <3>1. a.alloc.free \in Seq(R \ {a.preg})
      BY <2>2 DEF Owns
    <3> QED
      BY <3>1, LenProperties, ElementOfSeq, SeqDef DEF Image
  <2> HIDE DEF f
  <2> QED
    BY <2>2, <2>3, <2>4, <2>5 DEF Owns
<1> QED
  BY <1>1, <1>2
-----------------------------------------------------------------------------
(***************************************************************************)
(* The invariant.                                                          *)
(***************************************************************************)

\* With nothing assigned, the queue has every register once.
LEMMA InitInv == Init => Inv
<1> SUFFICES ASSUME Init PROVE Inv
  OBVIOUS
<1> DEFINE N == LAST_ALLOCATABLE_GPR - FIRST_ALLOCATABLE_GPR + 1
           q == [n \in 1 .. N |-> FIRST_ALLOCATABLE_GPR + n - 1]
           e == alloc.assigned
<1>1. CursorOK
  BY FunctionsAssumption DEF Init, CursorOK, Syllables
<1>2. /\ alloc = [assigned |-> e, free |-> q, spill_slots |-> alloc.spill_slots]
      /\ DOMAIN e = {} /\ e \in [DOMAIN e -> Allocatable]
  BY DEF Init
<1>3. N \in Nat
  BY AllocatableAssumption
<1>4. q \in Seq(Allocatable)
  <2>1. \A n \in 1 .. N : q[n] \in Allocatable
    BY AllocatableAssumption DEF Allocatable
  <2> QED
    BY <1>3, <2>1, SeqDef
<1>5. Distinct(q)
  BY AllocatableAssumption DEF Distinct
<1>6. Image(q) = Allocatable
  <2>1. ASSUME NEW r \in Allocatable PROVE \E n \in 1 .. N : q[n] = r
    <3>1. r - FIRST_ALLOCATABLE_GPR + 1 \in 1 .. N
      BY AllocatableAssumption DEF Allocatable
    <3>2. q[r - FIRST_ALLOCATABLE_GPR + 1] = r
      BY <3>1, AllocatableAssumption DEF Allocatable
    <3> QED
      BY <3>1, <3>2
  <2>2. \A n \in 1 .. N : q[n] \in Allocatable
    BY AllocatableAssumption DEF Allocatable
  <2>3. DOMAIN q = 1 .. N
    OBVIOUS
  <2> HIDE DEF q
  <2> QED
    BY <2>1, <2>2, <2>3 DEF Image
<1>7. Image(e) = {} /\ Distinct(e)
  BY <1>2 DEF Image, Distinct
<1>8. alloc.assigned = e /\ alloc.free = q
  BY <1>2
<1> HIDE DEF q, e
<1> QED
  BY <1>1, <1>2, <1>4, <1>5, <1>6, <1>7, <1>8 DEF Inv, Owns

\* Every action moves the cursor within the function and calls only the methods
\* above.
LEMMA NextInv == Inv /\ [Next]_vars => Inv'
<1> SUFFICES ASSUME Inv, [Next]_vars PROVE Inv'
  OBVIOUS
<1> USE DEF Inv
<1>0. Owns(alloc', Allocatable) => Owns(alloc, Allocatable)'
  BY DEF Owns, Distinct, Image, Allocatable
<1>1. CASE RewriteSource
  <2>1. CursorOK'
    BY <1>1 DEF RewriteSource, CursorOK, Syllables, input
  <2>2. Owns(alloc', Allocatable)
    BY <1>1, PregForVRegOwns DEF RewriteSource
  <2> QED
    BY <1>0, <2>1, <2>2
<1>2. CASE NextPart
  <2>1. CursorOK'
    BY <1>2 DEF NextPart, CursorOK, Syllables, input
  <2> QED
    BY <1>0, <1>2, <2>1 DEF NextPart
<1>3. CASE FreeSource
  <2>1. CursorOK'
    BY <1>3 DEF FreeSource, CursorOK, Syllables, input
  <2>2. Owns(alloc', Allocatable)
    BY <1>3, FreeVRegOwns DEF FreeSource
  <2> QED
    BY <1>0, <2>1, <2>2
<1>4. CASE RewriteDst
  <2>1. CursorOK'
    BY <1>4, FunctionsAssumption
       DEF RewriteDst, InSyllable, AtTerminator, CursorOK, Syllables, input
  <2>2. Owns(alloc', Allocatable)
    BY <1>4, PregForVRegOwns, FreeVRegOwns DEF RewriteDst
  <2> QED
    BY <1>0, <2>1, <2>2
<1>5. CASE RewriteTerminator
  <2>1. CursorOK'
    BY <1>5, FunctionsAssumption
       DEF RewriteTerminator, NextBlock, CursorOK, Syllables, input
  <2>2. Owns(alloc', Allocatable)
    <3> DEFINE cond == func[block].terminator.cond
    <3>1. CASE cond.kind # "VReg"
      BY <1>5, <3>1 DEF RewriteTerminator
    <3>2. CASE cond.kind = "VReg"
      <4>1. PICK o \in PregForVReg(alloc, cond.n, {cond.n}) :
              alloc' = IF CanFreeAfter(cond.n) THEN FreeVReg(o.alloc, cond.n) ELSE o.alloc
        BY <1>5, <3>2 DEF RewriteTerminator
      <4>2. Owns(o.alloc, Allocatable)
        BY PregForVRegOwns
      <4> QED
        BY <4>1, <4>2, FreeVRegOwns
    <3> QED
      BY <3>1, <3>2
  <2> QED
    BY <1>0, <2>1, <2>2
<1>6. CASE UNCHANGED vars
  BY <1>0, <1>6 DEF vars, input, cursor, CursorOK, Syllables
<1> QED
  BY <1>1, <1>2, <1>3, <1>4, <1>5, <1>6 DEF Next, Terminated

LEMMA SpecInv == Spec => []Inv
  BY InitInv, NextInv, PTL DEF Spec
-----------------------------------------------------------------------------
\* Whatever function is allocated and whichever victims the HashMap yields,
\* free_vreg, alloc_preg and preg_for_vreg neither lose a register nor assign
\* one twice.
THEOREM RegistersArePartitioned == Spec => []RegistersPartitioned
<1>1. Inv => RegistersPartitioned
  BY DEF Inv, Owns, Distinct, Image, RegistersPartitioned
<1> QED
  BY <1>1, SpecInv, PTL

\* When the queue is empty, at least three virtual registers have a register.
LEMMA ThreeOwners ==
  ASSUME NEW A, Owns(A, Allocatable), A.free = <<>>
  PROVE  \E u, v, w \in DOMAIN A.assigned : u # v /\ v # w /\ u # w
<1>1. Image(A.assigned) = Allocatable
  BY DEF Owns, Image
<1>2. /\ FIRST_ALLOCATABLE_GPR \in Allocatable
      /\ FIRST_ALLOCATABLE_GPR + 1 \in Allocatable
      /\ FIRST_ALLOCATABLE_GPR + 2 \in Allocatable
  BY AllocatableAssumption DEF Allocatable
<1>3. PICK u \in DOMAIN A.assigned : A.assigned[u] = FIRST_ALLOCATABLE_GPR
  BY <1>1, <1>2 DEF Image
<1>4. PICK v \in DOMAIN A.assigned : A.assigned[v] = FIRST_ALLOCATABLE_GPR + 1
  BY <1>1, <1>2 DEF Image
<1>5. PICK w \in DOMAIN A.assigned : A.assigned[w] = FIRST_ALLOCATABLE_GPR + 2
  BY <1>1, <1>2 DEF Image
<1>6. u # v /\ v # w /\ u # w
  BY <1>3, <1>4, <1>5, AllocatableAssumption
<1> QED
  BY <1>6

\* preg_for_vreg finds a register when one that has an owner is not protected.
LEMMA PregFound ==
  ASSUME NEW A, NEW v, NEW protected,
         v \notin DOMAIN A.assigned /\ A.free = <<>>
           => \E victim \in DOMAIN A.assigned : victim \notin protected
  PROVE  PregForVReg(A, v, protected) # {}
<1>1. CASE v \in DOMAIN A.assigned
  BY <1>1 DEF PregForVReg
<1>2. CASE v \notin DOMAIN A.assigned
  <2>1. AllocPreg(A, protected) # {}
    <3>1. CASE A.free # <<>>
      BY <3>1 DEF AllocPreg
    <3>2. CASE A.free = <<>>
      <4>1. PICK victim \in DOMAIN A.assigned : victim \notin protected
        BY <1>2, <3>2
      <4> QED
        BY <3>2, <4>1 DEF AllocPreg
    <3> QED
      BY <3>1, <3>2
  <2>2. PICK a : a \in AllocPreg(A, protected)
    BY <2>1
  <2> QED
    BY <1>2, <2>2 DEF PregForVReg
<1> QED
  BY <1>1, <1>2

\* alloc_preg never returns OutOfRegisters: the two virtual registers a syllable
\* can read are all it protects, and three registers are allocatable.
THEOREM VictimAlwaysExists == Spec => []VictimExists
<1>1. Inv => VictimExists
  <2> SUFFICES ASSUME Inv, phase = "alloc", NEW v \in Requested
               PROVE  PregForVReg(alloc, v, IF AtTerminator THEN {v} ELSE Uses(Current)) # {}
    BY DEF VictimExists
  <2>1. /\ Owns(alloc, Allocatable)
        /\ func \in Functions /\ block \in DOMAIN func /\ k \in 1 .. (Len(Syllables) + 1)
    BY DEF Inv, CursorOK
  <2>2. CASE AtTerminator
    <3>1. v \notin DOMAIN alloc.assigned /\ alloc.free = <<>>
            => \E victim \in DOMAIN alloc.assigned : victim \notin {v}
      BY <2>1, ThreeOwners
    <3> QED
      BY <2>2, <3>1, PregFound
  <2>3. CASE ~AtTerminator
    <3>1. k \in DOMAIN Syllables
      BY <2>1, <2>3, FunctionsAssumption DEF AtTerminator, Syllables
    <3>2. \A u, w, x \in Uses(Current) : u = w \/ w = x \/ u = x
      BY <2>1, <3>1, FunctionsAssumption DEF Current, Syllables
    <3>3. v \notin DOMAIN alloc.assigned /\ alloc.free = <<>>
            => \E victim \in DOMAIN alloc.assigned : victim \notin Uses(Current)
      BY <2>1, <3>2, ThreeOwners
    <3> QED
      BY <2>3, <3>3, PregFound
  <2> QED
    BY <2>2, <2>3
<1> QED
  BY <1>1, SpecInv, PTL
-----------------------------------------------------------------------------
(***************************************************************************)
(* Straight code: the blocks run in their layout order, no register is     *)
(* defined twice, as instruction selection leaves a function without phis, *)
(* every register is defined before it is read and has a bit in a LiveSet, *)
(* and there are no predicates.  A fixed register that is written is not   *)
(* allocatable.                                                            *)
(***************************************************************************)
IsSequence(q) ==
  Len(q) \in Nat /\ DOMAIN q = 1 .. Len(q) /\ q = [i \in 1 .. Len(q) |-> q[i]]

Places(f) == UNION {{b} \X DOMAIN f[b].syllables : b \in DOMAIN f}

SyllableAt(f, p) == f[p[1]].syllables[p[2]]

Before(p, q) == p[1] < q[1] \/ (p[1] = q[1] /\ p[2] < q[2])

\* What an ordinary syllable may name.
PlainSyllable(syl) ==
  /\ syl.opcode \notin PredLogicOps /\ ~WritesPred(syl.opcode)
  /\ IsSequence(syl.srcs)
  /\ \A j \in DOMAIN syl.srcs : syl.srcs[j].kind # "Stack"
  /\ syl.dst.kind = "PReg" => syl.dst.n \notin Allocatable

StraightCode(f) ==
  /\ FitsLiveSet(f)
  /\ \A b \in DOMAIN f : /\ f[b].terminator.cond.kind # "VReg"
                         /\ f[b].terminator.op = "ret" <=> b = Len(f)
  /\ \A b, c \in DOMAIN f : Follows(f, b, c) <=> c = b + 1
  /\ \A p \in Places(f) : PlainSyllable(SyllableAt(f, p))
  /\ \A p, q \in Places(f) : Defs(SyllableAt(f, p)) \cap Defs(SyllableAt(f, q)) # {} => p = q
  /\ \A p \in Places(f) : \A v \in Uses(SyllableAt(f, p)) :
       \E q \in Places(f) : Before(q, p) /\ v \in Defs(SyllableAt(f, q))
-----------------------------------------------------------------------------
(***************************************************************************)
(* Sequences of anything.                                                  *)
(***************************************************************************)
ValuesOf(q) == {q[i] : i \in DOMAIN q}

LEMMA InSeqOfValues ==
  ASSUME NEW q, IsSequence(q), NEW S, ValuesOf(q) \subseteq S
  PROVE  q \in Seq(S)
<1>1. q \in [1 .. Len(q) -> S]
  BY DEF IsSequence, ValuesOf
<1> QED
  BY <1>1, SeqDef DEF IsSequence

LEMMA SeqIsSequence ==
  ASSUME NEW S, NEW q \in Seq(S)
  PROVE  IsSequence(q)
<1>1. Len(q) \in Nat /\ DOMAIN q = 1 .. Len(q) /\ q \in [1 .. Len(q) -> S]
  BY LenProperties
<1> QED
  BY <1>1 DEF IsSequence

LEMMA AppendAny ==
  ASSUME NEW q, IsSequence(q), NEW x
  PROVE  /\ IsSequence(Append(q, x))
         /\ Len(Append(q, x)) = Len(q) + 1
         /\ \A i \in 1 .. Len(q) : Append(q, x)[i] = q[i]
         /\ Append(q, x)[Len(q) + 1] = x
<1> DEFINE S == ValuesOf(q) \cup {x}
<1>1. q \in Seq(S) /\ x \in S
  BY InSeqOfValues
<1> HIDE DEF S
<1>2. /\ Append(q, x) \in Seq(S)
      /\ Len(Append(q, x)) = Len(q) + 1
      /\ \A i \in 1 .. Len(q) : Append(q, x)[i] = q[i]
      /\ Append(q, x)[Len(q) + 1] = x
  BY <1>1, AppendProperties
<1> QED
  BY <1>2, SeqIsSequence

\* Code of up to three syllables behind other code.
LEMMA ConcatAny ==
  ASSUME NEW q, IsSequence(q), NEW x, NEW y
  PROVE  /\ q \o <<>> = q
         /\ q \o <<x>> = Append(q, x)
         /\ q \o <<x, y>> = Append(Append(q, x), y)
         /\ Append(<<>>, x) = <<x>>
         /\ Append(<<x>>, y) = <<x, y>>
<1> DEFINE S == ValuesOf(q) \cup {x, y}
<1>1. q \in Seq(S) /\ x \in S /\ y \in S
  BY InSeqOfValues
<1> HIDE DEF S
<1>2. q \o <<>> = q
  BY <1>1, ConcatEmptySeq
<1>3. <<x>> \in Seq(S) /\ <<y>> \in Seq(S) /\ <<>> \in Seq(S)
  BY <1>1
<1>4. Append(q, x) = q \o <<x>> /\ Append(q, x) \in Seq(S)
  BY <1>1, AppendIsConcat, AppendProperties
<1>5. Append(Append(q, x), y) = Append(q, x) \o <<y>>
  BY <1>1, <1>4, AppendIsConcat
<1>6. Append(<<>>, x) = <<x>> /\ Append(<<x>>, y) = <<x, y>>
  <2>1. Append(<<>>, x) = <<x>>
    OBVIOUS
  <2>2. /\ Append(<<x>>, y) \in Seq(S) /\ Len(Append(<<x>>, y)) = 2
        /\ Append(<<x>>, y)[1] = x /\ Append(<<x>>, y)[2] = y
    <3>1. Len(<<x>>) = 1 /\ <<x>>[1] = x
      OBVIOUS
    <3> QED
      BY <1>1, <1>3, <3>1, AppendProperties
  <2>3. <<x, y>> \in Seq(S) /\ Len(<<x, y>>) = 2 /\ <<x, y>>[1] = x /\ <<x, y>>[2] = y
    BY <1>1
  <2>4. \A i \in 1 .. 2 : i = 1 \/ i = 2
    OBVIOUS
  <2>5. Append(<<x>>, y) = <<x, y>>
    <3> DEFINE c == Append(<<x>>, y)
               d == <<x, y>>
    <3>1. c \in Seq(S) /\ d \in Seq(S) /\ Len(c) = Len(d) /\ \A i \in 1 .. Len(c) : c[i] = d[i]
      BY <2>2, <2>3, <2>4
    <3> HIDE DEF c, d
    <3>2. c = d
      BY <3>1, SeqEqual
    <3> QED
      BY <3>2 DEF c, d
  <2> QED
    BY <2>1, <2>5
<1>7. <<x, y>> = <<x>> \o <<y>>
  <2>1. Append(<<x>>, y) = <<x>> \o <<y>>
    BY <1>1, <1>3, AppendIsConcat
  <2> QED
    BY <1>6, <2>1
<1>8. q \o (<<x>> \o <<y>>) = (q \o <<x>>) \o <<y>>
  BY <1>1, <1>3, ConcatAssociative
<1> QED
  BY <1>2, <1>4, <1>5, <1>6, <1>7, <1>8

LEMMA GreatestElement ==
  ASSUME NEW B \in Nat, NEW T \in SUBSET (1 .. B), T # {}
  PROVE  \E x \in T : \A y \in T : y <= x
<1> DEFINE Less == {pair \in Nat \X Nat : pair[1] < pair[2]}
           U == {B - y : y \in T}
<1>1. IsWellFoundedOn(Less, Nat)
  BY NatLessThanWellFounded DEF OpToRel
<1>2. U \in SUBSET Nat /\ U # {}
  <2>1. \A y \in T : B - y \in Nat
    OBVIOUS
  <2>2. PICK y : y \in T
    OBVIOUS
  <2>3. B - y \in U
    BY <2>2
  <2> QED
    BY <2>1, <2>3
<1>3. PICK u \in U : \A w \in U : <<w, u>> \notin Less
  <2> HIDE DEF Less, U
  <2> QED
    BY <1>1, <1>2, WFMin
<1>4. PICK x \in T : u = B - x
  OBVIOUS
<1>5. ASSUME NEW y \in T PROVE y <= x
  <2>1. B - y \in U /\ B - y \in Nat /\ B - x \in Nat /\ x \in Nat /\ y \in Nat
    OBVIOUS
  <2>2. ~(B - y < B - x)
    BY <1>3, <1>4, <2>1
  <2> QED
    BY <2>1, <2>2
<1> QED
  BY <1>5
-----------------------------------------------------------------------------
(***************************************************************************)
(* What the allocated syllables do to the locations.                       *)
(***************************************************************************)
HeldIn(h, loc) == {e[2] : e \in {g \in h : g[1] = loc}}

Put(h, loc, vs) == {e \in h : e[1] # loc} \cup {<<loc, v>> : v \in vs}

\* RunSpillCode and RunSyllable.
SpillEffect(h, x) ==
  LET slot == Slot(x.srcs[1].n)
  IN  IF x.opcode = "std" THEN Put(h, slot, HeldIn(h, Gpr(x.srcs[2].n)))
      ELSE Put(h, Gpr(x.dst.n), HeldIn(h, slot))

PlainEffect(h, x, org) ==
  IF x.dst.kind # "PReg" THEN h
  ELSE LET loc == DestAt(x.opcode, x.dst.n)
       IN  IF org.dst.kind = "VReg"
             THEN {e \in Put(h, loc, {}) : e[2] # org.dst.n} \cup {<<loc, org.dst.n>>}
             ELSE Put(h, loc, IF x.opcode = "mov" THEN Uses(org) ELSE {})

Effect(h, x, org) == IF IsSpillCode(x) THEN SpillEffect(h, x) ELSE PlainEffect(h, x, org)

RightReads(h, x, org) ==
  ~IsSpillCode(x) =>
    \A j \in DOMAIN x.srcs :
      org.srcs[j].kind = "VReg" => <<SourceAt(x.opcode, x.srcs[j].n), org.srcs[j].n>> \in h

\* A register and a spill slot are different places.
LEMMA Locations ==
  /\ \A p, q : Gpr(p) = Gpr(q) => p = q
  /\ \A p, q : Slot(p) = Slot(q) => p = q
  /\ \A p, q : Gpr(p) # Slot(q)
  BY DEF Gpr, Slot, Key

LEMMA PutIn ==
  ASSUME NEW h, NEW loc, NEW vs, NEW l, NEW v
  PROVE  <<l, v>> \in Put(h, loc, vs) <=> (l # loc /\ <<l, v>> \in h) \/ (l = loc /\ v \in vs)
  BY DEF Put

LEMMA HeldHas ==
  ASSUME NEW h, NEW loc, NEW v, <<loc, v>> \in h PROVE v \in HeldIn(h, loc)
<1>1. <<loc, v>>[1] = loc /\ <<loc, v>>[2] = v
  OBVIOUS
<1> QED
  BY <1>1 DEF HeldIn

\* A spill store and a reload.
Stores(h, g, slot, p) == g = Put(h, Slot(slot), HeldIn(h, Gpr(p)))
Loads(h, g, slot, p) == g = Put(h, Gpr(p), HeldIn(h, Slot(slot)))

\* The store of a spill and the load of a reload move one value between a
\* register and a slot.
LEMMA SpillCodeEffect ==
  ASSUME NEW slot, NEW p
  PROVE  /\ IsSpillCode(SpillStore(slot, p)) /\ IsSpillCode(Reload(slot, p))
         /\ \A h : Stores(h, SpillEffect(h, SpillStore(slot, p)), slot, p)
         /\ \A h : Loads(h, SpillEffect(h, Reload(slot, p)), slot, p)
<1>1. /\ SpillStore(slot, p).opcode = "std" /\ SpillStore(slot, p).srcs = <<Stack(slot), PReg(p)>>
      /\ Reload(slot, p).opcode = "ldd" /\ Reload(slot, p).srcs = <<Stack(slot)>>
      /\ Reload(slot, p).dst = PReg(p)
  BY DEF SpillStore, Reload, Syl
<1>2. /\ <<Stack(slot), PReg(p)>>[1] = Stack(slot) /\ <<Stack(slot), PReg(p)>>[2] = PReg(p)
      /\ <<Stack(slot)>>[1] = Stack(slot)
      /\ <<Stack(slot), PReg(p)>> # <<>> /\ <<Stack(slot)>> # <<>>
  OBVIOUS
<1>3. Stack(slot).kind = "Stack" /\ Stack(slot).n = slot /\ PReg(p).n = p
  BY DEF Stack, PReg
<1> QED
  BY <1>1, <1>2, <1>3 DEF IsSpillCode, SpillEffect, Stores, Loads

\* A spill puts the value into its slot and leaves the registers alone.
LEMMA StoreKeeps ==
  ASSUME NEW h, NEW g, NEW slot, NEW p, Stores(h, g, slot, p)
  PROVE  /\ \A q, v : <<Gpr(q), v>> \in h => <<Gpr(q), v>> \in g
         /\ \A a, v : a # slot /\ <<Slot(a), v>> \in h => <<Slot(a), v>> \in g
         /\ \A v : <<Gpr(p), v>> \in h => <<Slot(slot), v>> \in g
<1>1. \A l, v : <<l, v>> \in g <=> \/ l # Slot(slot) /\ <<l, v>> \in h
                                   \/ l = Slot(slot) /\ v \in HeldIn(h, Gpr(p))
  BY PutIn DEF Stores
<1> QED
  BY <1>1, Locations, HeldHas

\* A reload puts it back and changes one register.
LEMMA LoadKeeps ==
  ASSUME NEW h, NEW g, NEW slot, NEW p, Loads(h, g, slot, p)
  PROVE  /\ \A q, v : q # p /\ <<Gpr(q), v>> \in h => <<Gpr(q), v>> \in g
         /\ \A a, v : <<Slot(a), v>> \in h => <<Slot(a), v>> \in g
         /\ \A v : <<Slot(slot), v>> \in h => <<Gpr(p), v>> \in g
<1>1. \A l, v : <<l, v>> \in g <=> \/ l # Gpr(p) /\ <<l, v>> \in h
                                   \/ l = Gpr(p) /\ v \in HeldIn(h, Slot(slot))
  BY PutIn DEF Loads
<1> QED
  BY <1>1, Locations, HeldHas
-----------------------------------------------------------------------------
(***************************************************************************)
(* The methods of Allocator keep every value where the tables say it is.   *)
(***************************************************************************)

\* Slots are handed out once.
SlotsOK(A) ==
  /\ IsFiniteSet(DOMAIN A.spill_slots)
  /\ Distinct(A.spill_slots)
  /\ \A v \in DOMAIN A.spill_slots :
       A.spill_slots[v] \in Nat
         /\ A.spill_slots[v] < SpillBase + Cardinality(DOMAIN A.spill_slots) * SPILL_SLOT_BYTES

\* Every virtual register of S is where the tables of A say.
Fits(A, h, S) ==
  \A v \in S :
    \/ v \in DOMAIN A.assigned /\ <<Gpr(A.assigned[v]), v>> \in h
    \/ /\ v \notin DOMAIN A.assigned /\ v \in DOMAIN A.spill_slots
       /\ <<Slot(A.spill_slots[v]), v>> \in h

LEMMA SpillBaseNat == SpillBase \in Nat
<1>1. MemorySize * 15 \in Nat
  BY MemorySizeAssumption
<1> DEFINE m == MemorySize * 15
<1> HIDE DEF m
<1>2. m \in Nat => m \div 16 \in Nat
  OBVIOUS
<1> QED
  BY <1>1, <1>2 DEF m, SpillBase

\* spill_slot gives v a slot that no other has.
SlotGiven(A, v, B, slots) ==
  /\ SlotsOK(B) /\ v \in DOMAIN slots
  /\ DOMAIN slots = DOMAIN A.spill_slots \cup {v}
  /\ \A w \in DOMAIN A.spill_slots : slots[w] = A.spill_slots[w]
  /\ \A w \in DOMAIN slots : w # v => slots[w] # slots[v]

\* spill_slot gives every virtual register a slot of its own.
LEMMA SpillSlotOK ==
  ASSUME NEW A, SlotsOK(A), NEW v, NEW B, NEW slots, slots = SpillSlot(A, v),
         B.spill_slots = slots
  PROVE  SlotGiven(A, v, B, slots)
<1> USE DEF SlotGiven
<1>1. CASE v \in DOMAIN A.spill_slots
  <2>1. slots = A.spill_slots
    BY <1>1 DEF SpillSlot
  <2> QED
    BY <1>1, <2>1 DEF SlotsOK, Distinct
<1>2. CASE v \notin DOMAIN A.spill_slots
  <2> DEFINE D == DOMAIN A.spill_slots
             n == Cardinality(D)
             new == SpillBase + n * SPILL_SLOT_BYTES
  <2>1. /\ DOMAIN slots = D \cup {v}
        /\ slots[v] = new
        /\ \A w \in D : slots[w] = A.spill_slots[w]
    BY <1>2 DEF SpillSlot, With
  <2>2. IsFiniteSet(D)
    BY DEF SlotsOK
  <2>3. IsFiniteSet(D \cup {v}) /\ Cardinality(D \cup {v}) = n + 1 /\ n \in Nat
    BY <1>2, <2>2, FS_AddElement, FS_CardinalityType
  <2> HIDE DEF n
  <2>4. /\ new \in Nat /\ new < SpillBase + (n + 1) * SPILL_SLOT_BYTES
        /\ \A a \in Nat : a < new => a < SpillBase + (n + 1) * SPILL_SLOT_BYTES /\ a # new
    BY <2>3, SpillBaseNat DEF SPILL_SLOT_BYTES
  <2>5. \A w \in D : A.spill_slots[w] \in Nat /\ A.spill_slots[w] < new
    BY DEF SlotsOK, n
  <2> HIDE DEF new
  <2>6. \A w \in DOMAIN slots : w # v => slots[w] # slots[v]
    BY <2>1, <2>4, <2>5
  <2>7. Distinct(slots)
    BY <2>1, <2>6 DEF SlotsOK, Distinct
  <2>8. \A w \in DOMAIN slots : slots[w] \in Nat /\ slots[w] < SpillBase + (n + 1) * SPILL_SLOT_BYTES
    BY <2>1, <2>4, <2>5
  <2> HIDE DEF D
  <2>9. SlotsOK(B)
    BY <2>1, <2>3, <2>7, <2>8 DEF SlotsOK
  <2> QED
    BY <2>1, <2>6, <2>9 DEF D
<1> QED
  BY <1>1, <1>2

\* Spill code of at most one, or at most two, syllables.
RunsOne(code, h, g) ==
  \/ code = <<>> /\ g = h
  \/ \E x : code = <<x>> /\ IsSpillCode(x) /\ g = SpillEffect(h, x)

RunsTwo(code, h, g) ==
  \/ RunsOne(code, h, g)
  \/ \E x, y : /\ code = <<x, y>> /\ IsSpillCode(x) /\ IsSpillCode(y)
               /\ g = SpillEffect(SpillEffect(h, x), y)

\* Allocator B has the assignments of the protected registers, the slots of A,
\* and slots for no others than A knows.
Keeps(A, B, protected) ==
  /\ \A w \in DOMAIN A.assigned : w \in protected =>
       w \in DOMAIN B.assigned /\ B.assigned[w] = A.assigned[w]
  /\ \A w \in DOMAIN A.spill_slots :
       w \in DOMAIN B.spill_slots /\ B.spill_slots[w] = A.spill_slots[w]
  /\ \A w \in DOMAIN B.spill_slots : w \in DOMAIN A.spill_slots \/ w \in DOMAIN A.assigned

KeepsGprs(h, g) == \A q, v : <<Gpr(q), v>> \in h => <<Gpr(q), v>> \in g

\* alloc_preg: the victim's value is in its slot before its register is reused.
LEMMA AllocPregFits ==
  ASSUME NEW A, Owns(A, Allocatable), SlotsOK(A), NEW h, NEW S, Fits(A, h, S),
         NEW protected, NEW o \in AllocPreg(A, protected)
  PROVE  \E g : /\ RunsOne(o.prefix, h, g) /\ Fits(o.alloc, g, S) /\ SlotsOK(o.alloc)
                /\ KeepsGprs(h, g) /\ Keeps(A, o.alloc, protected)
<1>0. A = [assigned |-> A.assigned, free |-> A.free, spill_slots |-> A.spill_slots]
  BY DEF Owns
<1>1. CASE A.free # <<>>
  <2>1. /\ o.prefix = <<>>
        /\ o.alloc = [assigned |-> A.assigned, free |-> Tail(A.free), spill_slots |-> A.spill_slots]
    BY <1>0, <1>1 DEF AllocPreg
  <2>2. o.alloc.assigned = A.assigned /\ o.alloc.spill_slots = A.spill_slots
    BY <2>1
  <2>3. Fits(o.alloc, h, S) /\ SlotsOK(o.alloc) /\ KeepsGprs(h, h) /\ Keeps(A, o.alloc, protected)
    BY <2>2 DEF Fits, SlotsOK, KeepsGprs, Keeps
  <2>4. RunsOne(o.prefix, h, h)
    BY <2>1 DEF RunsOne
  <2> QED
    BY <2>3, <2>4
<1>2. CASE A.free = <<>>
  <2>1. PICK victim \in DOMAIN A.assigned \ protected :
          o = LET slots == SpillSlot(A, victim)
                  p == A.assigned[victim]
              IN  [preg   |-> p,
                   alloc  |-> [A EXCEPT !.assigned = Without(@, victim), !.spill_slots = slots],
                   prefix |-> <<SpillStore(slots[victim], p)>>]
    BY <1>2 DEF AllocPreg
  <2> DEFINE p == A.assigned[victim]
             f == Without(A.assigned, victim)
             slots == SpillSlot(A, victim)
             x == SpillStore(slots[victim], p)
             g == SpillEffect(h, x)
             B == o.alloc
  <2>2. /\ o.prefix = <<x>>
        /\ B = [assigned |-> f, free |-> A.free, spill_slots |-> slots]
    BY <1>0, <2>1
  <2>3. B.assigned = f /\ B.spill_slots = slots
    BY <2>2
  <2>4. DOMAIN f = DOMAIN A.assigned \ {victim} /\ \A w \in DOMAIN f : f[w] = A.assigned[w]
    BY DEF Without
  <2>5. IsSpillCode(x) /\ Stores(h, g, slots[victim], p)
    BY SpillCodeEffect
  <2> HIDE DEF f, g, x, p, slots, B
  <2>6. /\ SlotsOK(B) /\ victim \in DOMAIN slots
        /\ DOMAIN slots = DOMAIN A.spill_slots \cup {victim}
        /\ \A w \in DOMAIN A.spill_slots : slots[w] = A.spill_slots[w]
        /\ \A w \in DOMAIN slots : w # victim => slots[w] # slots[victim]
    <3>1. slots = SpillSlot(A, victim)
      BY DEF slots
    <3>2. B.spill_slots = slots
      BY <2>3
    <3>3. SlotGiven(A, victim, B, slots)
      BY <3>1, <3>2, SpillSlotOK, Zenon
    <3> QED
      BY <3>3 DEF SlotGiven
  <2>7. /\ \A q, v : <<Gpr(q), v>> \in h => <<Gpr(q), v>> \in g
        /\ \A a, v : a # slots[victim] /\ <<Slot(a), v>> \in h => <<Slot(a), v>> \in g
        /\ \A v : <<Gpr(p), v>> \in h => <<Slot(slots[victim]), v>> \in g
    BY <2>5, StoreKeeps
  <2>8. Fits(B, g, S)
    <3> SUFFICES ASSUME NEW v \in S
                 PROVE  \/ v \in DOMAIN f /\ <<Gpr(f[v]), v>> \in g
                        \/ v \notin DOMAIN f /\ v \in DOMAIN slots /\ <<Slot(slots[v]), v>> \in g
      BY <2>3 DEF Fits
    <3>1. CASE v = victim
      <4>1. <<Gpr(p), v>> \in h
        BY <2>1, <3>1 DEF Fits, p
      <4> QED
        BY <2>4, <2>6, <2>7, <3>1, <4>1
    <3>2. CASE v # victim /\ v \in DOMAIN A.assigned
      BY <2>4, <2>7, <3>2 DEF Fits
    <3>3. CASE v # victim /\ v \notin DOMAIN A.assigned
      <4>1. v \in DOMAIN A.spill_slots /\ <<Slot(A.spill_slots[v]), v>> \in h
        BY <3>3 DEF Fits
      <4>2. slots[v] = A.spill_slots[v] /\ slots[v] # slots[victim] /\ v \in DOMAIN slots
        BY <2>6, <3>3, <4>1
      <4> QED
        BY <2>4, <2>7, <3>3, <4>1, <4>2
    <3> QED
      BY <3>1, <3>2, <3>3
  <2>9. KeepsGprs(h, g)
    BY <2>7 DEF KeepsGprs
  <2>10. Keeps(A, B, protected)
    BY <2>1, <2>3, <2>4, <2>6 DEF Keeps
  <2>11. RunsOne(o.prefix, h, g)
    BY <2>2, <2>5 DEF RunsOne, g
  <2> QED
    BY <2>6, <2>8, <2>9, <2>10, <2>11 DEF B
<1> QED
  BY <1>1, <1>2

\* preg_for_vreg for a register that is read: afterwards its value is in the
\* register returned, and those of the protected registers are where they were.
LEMMA PregForVRegFits ==
  ASSUME NEW A, Owns(A, Allocatable), SlotsOK(A), NEW h, NEW S, Fits(A, h, S), NEW v \in S,
         NEW protected, v \in protected, NEW o \in PregForVReg(A, v, protected)
  PROVE  \E g : /\ RunsTwo(o.prefix, h, g) /\ Fits(o.alloc, g, S) /\ SlotsOK(o.alloc)
                /\ Keeps(A, o.alloc, protected)
                /\ v \in DOMAIN o.alloc.assigned /\ o.alloc.assigned[v] = o.preg
                /\ <<Gpr(o.preg), v>> \in g
                /\ \A w \in DOMAIN A.assigned : w \in protected /\ <<Gpr(A.assigned[w]), w>> \in h
                     => <<Gpr(A.assigned[w]), w>> \in g
                /\ \A w \in DOMAIN o.alloc.assigned : w = v \/ w \in DOMAIN A.assigned
<1>1. CASE v \in DOMAIN A.assigned
  <2>1. o.preg = A.assigned[v] /\ o.alloc = A /\ o.prefix = <<>>
    BY <1>1 DEF PregForVReg
  <2>2. RunsTwo(o.prefix, h, h) /\ Keeps(A, A, protected)
    BY <2>1 DEF RunsTwo, RunsOne, Keeps
  <2>3. <<Gpr(o.preg), v>> \in h
    BY <1>1, <2>1 DEF Fits
  <2> QED
    BY <1>1, <2>1, <2>2, <2>3
<1>2. CASE v \notin DOMAIN A.assigned
  <2>1. PICK a \in AllocPreg(A, protected) :
          o = [a EXCEPT !.alloc.assigned = With(@, v, a.preg),
                        !.prefix = IF v \in DOMAIN A.spill_slots
                                     THEN Append(@, Reload(A.spill_slots[v], a.preg)) ELSE @]
    BY <1>2 DEF PregForVReg
  <2>2. /\ a = [preg |-> a.preg, alloc |-> a.alloc, prefix |-> a.prefix]
        /\ a.preg \in Allocatable
        /\ Owns(a.alloc, Allocatable \ {a.preg})
        /\ DOMAIN a.alloc.assigned \subseteq DOMAIN A.assigned
    BY AllocPregOwns
  <2>3. PICK g1 : /\ RunsOne(a.prefix, h, g1) /\ Fits(a.alloc, g1, S) /\ SlotsOK(a.alloc)
                  /\ KeepsGprs(h, g1) /\ Keeps(A, a.alloc, protected)
    BY AllocPregFits
  <2>4. v \in DOMAIN A.spill_slots
    BY <1>2 DEF Fits
  <2> DEFINE p == a.preg
             f == With(a.alloc.assigned, v, p)
             x == Reload(A.spill_slots[v], p)
             g == SpillEffect(g1, x)
             B == o.alloc
  <2>5. /\ o.preg = p /\ o.prefix = Append(a.prefix, x)
        /\ B = [assigned |-> f, free |-> a.alloc.free, spill_slots |-> a.alloc.spill_slots]
    BY <2>1, <2>2, <2>4 DEF Owns
  <2>6. B.assigned = f /\ B.spill_slots = a.alloc.spill_slots
    BY <2>5
  <2>7. /\ DOMAIN f = DOMAIN a.alloc.assigned \cup {v} /\ f[v] = p
        /\ \A w \in DOMAIN f : w # v => f[w] = a.alloc.assigned[w]
    BY DEF With
  <2>8. IsSpillCode(x) /\ Loads(g1, g, A.spill_slots[v], p)
    BY SpillCodeEffect
  <2> HIDE DEF f, g, x, p, B
  <2>9. /\ \A q, w : q # p /\ <<Gpr(q), w>> \in g1 => <<Gpr(q), w>> \in g
        /\ \A b, w : <<Slot(b), w>> \in g1 => <<Slot(b), w>> \in g
        /\ \A w : <<Slot(A.spill_slots[v]), w>> \in g1 => <<Gpr(p), w>> \in g
    BY <2>8, LoadKeeps
  <2>10. \A w \in DOMAIN a.alloc.assigned : w # v /\ a.alloc.assigned[w] # p
    BY <1>2, <2>2 DEF Owns, p
  <2>11. <<Gpr(p), v>> \in g
    <3>1. v \notin DOMAIN a.alloc.assigned
      BY <2>10
    <3>2. <<Slot(a.alloc.spill_slots[v]), v>> \in g1 /\ a.alloc.spill_slots[v] = A.spill_slots[v]
      BY <2>3, <2>4, <3>1 DEF Fits, Keeps
    <3> QED
      BY <2>9, <3>2
  <2>12. Fits(B, g, S)
    <3> SUFFICES ASSUME NEW w \in S
                 PROVE  \/ w \in DOMAIN f /\ <<Gpr(f[w]), w>> \in g
                        \/ /\ w \notin DOMAIN f /\ w \in DOMAIN a.alloc.spill_slots
                           /\ <<Slot(a.alloc.spill_slots[w]), w>> \in g
      BY <2>6 DEF Fits
    <3>1. CASE w = v
      BY <2>7, <2>11, <3>1
    <3>2. CASE w # v /\ w \in DOMAIN a.alloc.assigned
      BY <2>3, <2>7, <2>9, <2>10, <3>2 DEF Fits
    <3>3. CASE w # v /\ w \notin DOMAIN a.alloc.assigned
      BY <2>3, <2>7, <2>9, <3>3 DEF Fits
    <3> QED
      BY <3>1, <3>2, <3>3
  <2>13. SlotsOK(B)
    BY <2>3, <2>6 DEF SlotsOK
  <2>14. Keeps(A, B, protected)
    BY <2>3, <2>6, <2>7, <2>10 DEF Keeps
  <2>15. ASSUME NEW w \in DOMAIN A.assigned, w \in protected, <<Gpr(A.assigned[w]), w>> \in h
         PROVE  <<Gpr(A.assigned[w]), w>> \in g
    <3>1. w \in DOMAIN a.alloc.assigned /\ a.alloc.assigned[w] = A.assigned[w]
      BY <2>3, <2>15 DEF Keeps
    <3>2. <<Gpr(A.assigned[w]), w>> \in g1
      BY <2>3, <2>15 DEF KeepsGprs
    <3> QED
      BY <2>9, <2>10, <3>1, <3>2
  <2>16. RunsTwo(o.prefix, h, g)
    <3>1. CASE a.prefix = <<>> /\ g1 = h
      <4>1. o.prefix = <<x>>
        BY <2>5, <3>1
      <4> QED
        BY <2>8, <3>1, <4>1 DEF RunsTwo, RunsOne, g
    <3>2. ASSUME NEW y, a.prefix = <<y>>, IsSpillCode(y), g1 = SpillEffect(h, y)
          PROVE  RunsTwo(o.prefix, h, g)
      <4>1. IsSequence(<<>>)
        BY DEF IsSequence
      <4>2. o.prefix = <<y, x>>
        BY <2>5, <3>2, <4>1, ConcatAny
      <4> QED
        BY <2>8, <3>2, <4>2 DEF RunsTwo, g
    <3> QED
      BY <2>3, <3>1, <3>2 DEF RunsOne
  <2>17. \A w \in DOMAIN B.assigned : w = v \/ w \in DOMAIN A.assigned
    BY <2>2, <2>6, <2>7
  <2>18. v \in DOMAIN B.assigned /\ B.assigned[v] = o.preg /\ <<Gpr(o.preg), v>> \in g
    BY <2>5, <2>6, <2>7, <2>11
  <2> QED
    BY <2>12, <2>13, <2>14, <2>15, <2>16, <2>17, <2>18 DEF B
<1> QED
  BY <1>1, <1>2

\* preg_for_vreg for a register that is written for the first time.
LEMMA NewRegisterFits ==
  ASSUME NEW A, Owns(A, Allocatable), SlotsOK(A), NEW h, NEW S, Fits(A, h, S),
         NEW v, v \notin DOMAIN A.assigned, v \notin DOMAIN A.spill_slots,
         NEW protected, NEW o \in PregForVReg(A, v, protected)
  PROVE  \E g : /\ RunsOne(o.prefix, h, g) /\ SlotsOK(o.alloc) /\ KeepsGprs(h, g)
                /\ Keeps(A, o.alloc, protected)
                /\ v \in DOMAIN o.alloc.assigned /\ o.alloc.assigned[v] = o.preg
                /\ \A w \in S : w # v =>
                     \/ /\ w \in DOMAIN o.alloc.assigned /\ o.alloc.assigned[w] # o.preg
                        /\ <<Gpr(o.alloc.assigned[w]), w>> \in g
                     \/ /\ w \notin DOMAIN o.alloc.assigned /\ w \in DOMAIN o.alloc.spill_slots
                        /\ <<Slot(o.alloc.spill_slots[w]), w>> \in g
                /\ \A w \in DOMAIN o.alloc.assigned : w = v \/ w \in DOMAIN A.assigned
<1>1. PICK a \in AllocPreg(A, protected) :
        o = [a EXCEPT !.alloc.assigned = With(@, v, a.preg),
                      !.prefix = IF v \in DOMAIN A.spill_slots
                                   THEN Append(@, Reload(A.spill_slots[v], a.preg)) ELSE @]
  BY DEF PregForVReg
<1>2. /\ a = [preg |-> a.preg, alloc |-> a.alloc, prefix |-> a.prefix]
      /\ a.preg \in Allocatable
      /\ Owns(a.alloc, Allocatable \ {a.preg})
      /\ DOMAIN a.alloc.assigned \subseteq DOMAIN A.assigned
  BY AllocPregOwns
<1>3. PICK g : /\ RunsOne(a.prefix, h, g) /\ Fits(a.alloc, g, S) /\ SlotsOK(a.alloc)
               /\ KeepsGprs(h, g) /\ Keeps(A, a.alloc, protected)
  BY AllocPregFits
<1> DEFINE p == a.preg
           f == With(a.alloc.assigned, v, p)
           B == o.alloc
<1>4. /\ o.preg = p /\ o.prefix = a.prefix
      /\ B = [assigned |-> f, free |-> a.alloc.free, spill_slots |-> a.alloc.spill_slots]
  BY <1>1, <1>2 DEF Owns
<1>5. B.assigned = f /\ B.spill_slots = a.alloc.spill_slots
  BY <1>4
<1>6. /\ DOMAIN f = DOMAIN a.alloc.assigned \cup {v} /\ f[v] = p
      /\ \A w \in DOMAIN f : w # v => f[w] = a.alloc.assigned[w]
  BY DEF With
<1> HIDE DEF f, p, B
<1>7. \A w \in DOMAIN a.alloc.assigned : w # v /\ a.alloc.assigned[w] # p
  BY <1>2 DEF Owns, p
<1>8. ASSUME NEW w \in S, w # v
      PROVE  \/ w \in DOMAIN f /\ f[w] # p /\ <<Gpr(f[w]), w>> \in g
             \/ /\ w \notin DOMAIN f /\ w \in DOMAIN a.alloc.spill_slots
                /\ <<Slot(a.alloc.spill_slots[w]), w>> \in g
  BY <1>3, <1>6, <1>7, <1>8 DEF Fits
<1>9. SlotsOK(B)
  BY <1>3, <1>5 DEF SlotsOK
<1>10. Keeps(A, B, protected)
  BY <1>3, <1>5, <1>6, <1>7 DEF Keeps
<1>11. \A w \in DOMAIN B.assigned : w = v \/ w \in DOMAIN A.assigned
  BY <1>2, <1>5, <1>6
<1> QED
  BY <1>3, <1>4, <1>5, <1>6, <1>8, <1>9, <1>10, <1>11 DEF B
-----------------------------------------------------------------------------
(***************************************************************************)
(* Running the allocated blocks C of function f in their order: H[<<c, i>>] *)
(* is what the locations hold before syllable i of block c.                *)
(***************************************************************************)

\* How many of the first n syllables are not spill code.
Plain(code, n) == Cardinality({j \in 1 .. n : ~IsSpillCode(code[j])})

OriginOf(f, c, code, i) == f[c].syllables[1 + Plain(code, i - 1)]

TraceStep(f, c, code, H, i) ==
  /\ H[<<c, i + 1>>] = Effect(H[<<c, i>>], code[i], OriginOf(f, c, code, i))
  /\ RightReads(H[<<c, i>>], code[i], OriginOf(f, c, code, i))

Trace(f, C, b, H) ==
  /\ \A c \in 1 .. b : /\ IsSequence(C[c])
                       /\ \A i \in 1 .. Len(C[c]) : TraceStep(f, c, C[c], H, i)
  /\ \A c \in 1 .. (b - 1) : H[<<c + 1, 1>>] = H[<<c, Len(C[c]) + 1>>]

\* The blocks up to b run from g to h, and b has got n syllables of f.
Traced(f, C, b, g, h, n) ==
  /\ n = Plain(C[b], Len(C[b]))
  /\ \E H : /\ DOMAIN H = Nat \X Nat /\ H = [p \in Nat \X Nat |-> H[p]]
            /\ Trace(f, C, b, H)
            /\ H[<<1, 1>>] = g
            /\ H[<<b, Len(C[b]) + 1>>] = h

\* Syllables of the program, without the spill code between them, counted.
LEMMA PlainCounts ==
  ASSUME NEW q, IsSequence(q), NEW x
  PROVE  /\ Plain(q, Len(q)) \in Nat
         /\ \A n \in 0 .. Len(q) : Plain(Append(q, x), n) = Plain(q, n)
         /\ Plain(Append(q, x), Len(q) + 1)
              = IF IsSpillCode(x) THEN Plain(q, Len(q)) ELSE Plain(q, Len(q)) + 1
<1> DEFINE r == Append(q, x)
           n == Len(q)
           P(c, m) == {j \in 1 .. m : ~IsSpillCode(c[j])}
<1>1. n \in Nat /\ (\A i \in 1 .. n : r[i] = q[i]) /\ r[n + 1] = x
  BY AppendAny DEF IsSequence
<1> HIDE DEF r, n
<1>2. ASSUME NEW m \in 0 .. n PROVE P(r, m) = P(q, m)
  <2>1. \A j \in 1 .. m : j \in 1 .. n
    BY <1>1
  <2> QED
    BY <1>1, <2>1
<1>3. IsFiniteSet(P(q, n)) /\ Cardinality(P(q, n)) \in Nat
  <2>1. IsFiniteSet(1 .. n)
    BY <1>1, FS_Interval
  <2>2. P(q, n) \in SUBSET (1 .. n)
    OBVIOUS
  <2> HIDE DEF P
  <2> QED
    BY <2>1, <2>2, FS_Subset, FS_CardinalityType
<1>4. n \in 0 .. n
  BY <1>1
<1>5. P(r, n + 1) = IF IsSpillCode(x) THEN P(q, n) ELSE P(q, n) \cup {n + 1}
  <2>1. \A j \in 1 .. (n + 1) : j \in 1 .. n \/ j = n + 1
    BY <1>1
  <2>2. \A j \in 1 .. n : j \in 1 .. (n + 1)
    BY <1>1
  <2>3. n + 1 \in 1 .. (n + 1)
    BY <1>1
  <2> QED
    BY <1>1, <2>1, <2>2, <2>3
<1>6. n + 1 \notin P(q, n)
  BY <1>1
<1>7. Cardinality(P(q, n) \cup {n + 1}) = Cardinality(P(q, n)) + 1
  <2> HIDE DEF P
  <2> QED
    BY <1>3, <1>6, FS_AddElement
<1>8. \A c, m : Plain(c, m) = Cardinality(P(c, m))
  BY DEF Plain
<1> HIDE DEF P
<1> QED
  BY <1>2, <1>3, <1>4, <1>5, <1>7, <1>8 DEF r, n

\* One more syllable at the end of the last block.
LEMMA TraceAppend ==
  ASSUME NEW f, NEW C, NEW b \in Nat \ {0}, 1 .. b \subseteq DOMAIN C, NEW g, NEW h, NEW n,
         Traced(f, C, b, g, h, n), NEW x, RightReads(h, x, f[b].syllables[1 + n])
  PROVE  Traced(f, [C EXCEPT ![b] = Append(@, x)], b, g, Effect(h, x, f[b].syllables[1 + n]),
                IF IsSpillCode(x) THEN n ELSE n + 1)
<1> DEFINE D == [C EXCEPT ![b] = Append(@, x)]
           q == C[b]
           r == Append(q, x)
           L == Len(q)
           org == f[b].syllables[1 + n]
           e == Effect(h, x, org)
<1>1. PICK H : /\ DOMAIN H = Nat \X Nat /\ H = [p \in Nat \X Nat |-> H[p]]
               /\ Trace(f, C, b, H)
               /\ H[<<1, 1>>] = g
               /\ H[<<b, L + 1>>] = h
  BY DEF Traced
<1>2. n = Plain(q, L)
  BY DEF Traced
<1>0. b \in 1 .. b
  OBVIOUS
<1>3. D[b] = r /\ \A c \in 1 .. b : c # b => D[c] = C[c]
  BY <1>0
<1>4. IsSequence(q)
  <2>1. b \in 1 .. b
    OBVIOUS
  <2> QED
    BY <1>1, <2>1 DEF Trace
<1>5. /\ IsSequence(r) /\ Len(r) = L + 1 /\ L \in Nat
      /\ \A i \in 1 .. L : r[i] = q[i]
      /\ r[L + 1] = x
  BY <1>4, AppendAny DEF IsSequence
<1>6. /\ \A m \in 0 .. L : Plain(r, m) = Plain(q, m)
      /\ Plain(r, L + 1) = IF IsSpillCode(x) THEN n ELSE n + 1
  BY <1>2, <1>4, PlainCounts
<1> DEFINE G == [p \in Nat \X Nat |-> IF p = <<b, L + 2>> THEN e ELSE H[p]]
<1>7. DOMAIN G = Nat \X Nat /\ G = [p \in Nat \X Nat |-> G[p]]
  OBVIOUS
<1>8. /\ G[<<b, L + 2>>] = e
      /\ \A c, i \in Nat : (c # b \/ i # L + 2) => G[<<c, i>>] = H[<<c, i>>]
  BY <1>5
<1> HIDE DEF D, q, r, L, org, e, G
<1>9. ASSUME NEW c \in 1 .. b PROVE IsSequence(D[c]) /\ \A i \in 1 .. Len(D[c]) : TraceStep(f, c, D[c], G, i)
  <2>0. c \in Nat
    OBVIOUS
  <2>1. CASE c # b
    <3>1. D[c] = C[c] /\ IsSequence(C[c])
      BY <1>1, <1>3, <2>1 DEF Trace
    <3>2. ASSUME NEW i \in 1 .. Len(C[c]) PROVE TraceStep(f, c, C[c], G, i)
      <4>1. i \in Nat /\ i + 1 \in Nat
        OBVIOUS
      <4>2. G[<<c, i>>] = H[<<c, i>>] /\ G[<<c, i + 1>>] = H[<<c, i + 1>>]
        BY <1>8, <2>0, <2>1, <4>1
      <4>3. TraceStep(f, c, C[c], H, i)
        BY <1>1 DEF Trace
      <4> QED
        BY <4>2, <4>3 DEF TraceStep
    <3> QED
      BY <3>1, <3>2
  <2>2. CASE c = b
    <3>1. D[c] = r /\ IsSequence(r) /\ Len(r) = L + 1
      BY <1>3, <1>5, <2>2
    <3>2. ASSUME NEW i \in 1 .. L PROVE TraceStep(f, b, r, G, i)
      <4>1. i \in Nat /\ i + 1 \in Nat /\ i # L + 2 /\ i + 1 # L + 2 /\ i - 1 \in 0 .. L
        BY <1>5
      <4>2. G[<<b, i>>] = H[<<b, i>>] /\ G[<<b, i + 1>>] = H[<<b, i + 1>>]
        BY <1>8, <4>1
      <4>3. TraceStep(f, b, q, H, i)
        <5>1. b \in 1 .. b
          OBVIOUS
        <5> QED
          BY <1>1, <5>1 DEF Trace, q, L
      <4>4. r[i] = q[i] /\ OriginOf(f, b, r, i) = OriginOf(f, b, q, i)
        BY <1>5, <1>6, <4>1 DEF OriginOf
      <4> QED
        BY <4>2, <4>3, <4>4 DEF TraceStep
    <3>3. TraceStep(f, b, r, G, L + 1)
      <4>1. L + 1 \in Nat /\ L + 1 # L + 2 /\ (L + 1) + 1 = L + 2 /\ (L + 1) - 1 = L /\ L \in 0 .. L
        BY <1>5
      <4>2. G[<<b, L + 1>>] = h /\ G[<<b, (L + 1) + 1>>] = e
        BY <1>1, <1>8, <4>1 DEF L
      <4>3. OriginOf(f, b, r, L + 1) = org
        BY <1>2, <1>6, <4>1 DEF OriginOf, org
      <4>4. RightReads(h, x, org)
        BY DEF org
      <4> QED
        BY <1>5, <4>2, <4>3, <4>4 DEF TraceStep, e
    <3>4. \A i \in 1 .. (L + 1) : i \in 1 .. L \/ i = L + 1
      BY <1>5
    <3> QED
      BY <2>2, <3>1, <3>2, <3>3, <3>4
  <2> QED
    BY <2>1, <2>2
<1>10. ASSUME NEW c \in 1 .. (b - 1) PROVE G[<<c + 1, 1>>] = G[<<c, Len(D[c]) + 1>>]
  <2>1. c \in 1 .. b /\ c # b /\ c \in Nat /\ c + 1 \in Nat /\ 1 \in Nat /\ 1 # L + 2
    BY <1>5
  <2>2. D[c] = C[c] /\ Len(C[c]) + 1 \in Nat
    BY <1>1, <1>3, <2>1 DEF Trace, IsSequence
  <2>3. H[<<c + 1, 1>>] = H[<<c, Len(C[c]) + 1>>]
    BY <1>1 DEF Trace
  <2>4. G[<<c + 1, 1>>] = H[<<c + 1, 1>>]
    BY <1>8, <2>1
  <2>5. G[<<c, Len(C[c]) + 1>>] = H[<<c, Len(C[c]) + 1>>]
    BY <1>8, <2>1, <2>2
  <2> QED
    BY <2>2, <2>3, <2>4, <2>5
<1>11. Trace(f, D, b, G)
  BY <1>9, <1>10 DEF Trace
<1>12. G[<<1, 1>>] = g
  <2>1. 1 \in Nat /\ 1 # L + 2
    BY <1>5
  <2> QED
    BY <1>1, <1>8, <2>1
<1>13. G[<<b, Len(D[b]) + 1>>] = e
  <2>1. Len(D[b]) + 1 = L + 2
    BY <1>3, <1>5
  <2> QED
    BY <1>8, <2>1
<1>14. (IF IsSpillCode(x) THEN n ELSE n + 1) = Plain(D[b], Len(D[b]))
  BY <1>3, <1>5, <1>6
<1>15. Traced(f, D, b, g, e, IF IsSpillCode(x) THEN n ELSE n + 1)
  BY <1>7, <1>11, <1>12, <1>13, <1>14 DEF Traced
<1> QED
  BY <1>15 DEF D, e, org

\* The code of preg_for_vreg at the end of the last block.
LEMMA TraceRuns ==
  ASSUME NEW f, NEW C, NEW b \in Nat \ {0}, 1 .. b \subseteq DOMAIN C, NEW g, NEW h, NEW n,
         Traced(f, C, b, g, h, n), NEW code, NEW e, RunsTwo(code, h, e)
  PROVE  Traced(f, [C EXCEPT ![b] = @ \o code], b, g, e, n)
<1> DEFINE D(y) == [C EXCEPT ![b] = y]
<1>0. b \in 1 .. b /\ b \in DOMAIN C
  OBVIOUS
<1>1. IsSequence(C[b])
  BY <1>0 DEF Traced, Trace
<1>2. \A y : /\ D(y)[b] = y /\ DOMAIN D(y) = DOMAIN C
             /\ \A z : [D(y) EXCEPT ![b] = z] = D(z)
  BY <1>0
<1>3. D(C[b]) = C \/ Traced(f, D(C[b]), b, g, h, n)
  <2> DEFINE E == D(C[b])
  <2>1. \A c \in 1 .. b : E[c] = C[c]
    OBVIOUS
  <2>2. \A H : Trace(f, C, b, H) => Trace(f, E, b, H)
    <3> HIDE DEF E
    <3> SUFFICES ASSUME NEW H, Trace(f, C, b, H) PROVE Trace(f, E, b, H)
      OBVIOUS
    <3>1. \A c \in 1 .. (b - 1) : c \in 1 .. b
      OBVIOUS
    <3> QED
      BY <2>1, <3>1 DEF Trace
  <2>3. E[b] = C[b]
    BY <1>0, <2>1
  <2> HIDE DEF E
  <2>4. Traced(f, E, b, g, h, n)
    BY <2>2, <2>3 DEF Traced
  <2> QED
    BY <2>4 DEF E
<1>4. ASSUME NEW c, NEW a, NEW x, Traced(f, D(c), b, g, a, n), IsSpillCode(x)
      PROVE  Traced(f, D(Append(c, x)), b, g, SpillEffect(a, x), n)
  <2>1. 1 .. b \subseteq DOMAIN D(c) /\ D(c)[b] = c
    BY <1>2
  <2>2. RightReads(a, x, f[b].syllables[1 + n])
    BY <1>4 DEF RightReads
  <2> DEFINE E == D(c)
  <2>3. [E EXCEPT ![b] = Append(@, x)] = D(Append(c, x))
    BY <1>2, <2>1
  <2> HIDE DEF E, D
  <2>4. Traced(f, [E EXCEPT ![b] = Append(@, x)], b, g, Effect(a, x, f[b].syllables[1 + n]), n)
    <3>1. Traced(f, E, b, g, a, n) /\ 1 .. b \subseteq DOMAIN E
      BY <1>4, <2>1 DEF E
    <3> QED
      BY <1>4, <2>2, <3>1, TraceAppend
  <2> QED
    BY <1>4, <2>3, <2>4 DEF Effect
<1>5. Traced(f, D(C[b]), b, g, h, n)
  BY <1>3
<1>6. [C EXCEPT ![b] = @ \o code] = D(C[b] \o code)
  OBVIOUS
<1> HIDE DEF D
<1>7. CASE code = <<>> /\ e = h
  BY <1>1, <1>5, <1>6, <1>7, ConcatAny
<1>8. ASSUME NEW x, code = <<x>>, IsSpillCode(x), e = SpillEffect(h, x)
      PROVE  Traced(f, D(C[b] \o code), b, g, e, n)
  <2>1. C[b] \o code = Append(C[b], x)
    BY <1>1, <1>8, ConcatAny
  <2> QED
    BY <1>4, <1>5, <1>8, <2>1
<1>9. ASSUME NEW x, NEW y, code = <<x, y>>, IsSpillCode(x), IsSpillCode(y),
             e = SpillEffect(SpillEffect(h, x), y)
      PROVE  Traced(f, D(C[b] \o code), b, g, e, n)
  <2>1. C[b] \o code = Append(Append(C[b], x), y)
    BY <1>1, <1>9, ConcatAny
  <2>2. Traced(f, D(Append(C[b], x)), b, g, SpillEffect(h, x), n)
    BY <1>4, <1>5, <1>9
  <2>3. Traced(f, D(Append(Append(C[b], x), y)), b, g, e, n)
    BY <1>4, <1>9, <2>2
  <2> QED
    BY <2>1, <2>3
<1> QED
  BY <1>6, <1>7, <1>8, <1>9 DEF RunsTwo, RunsOne

\* On to the next block, which is empty.
LEMMA TraceBlock ==
  ASSUME NEW f, NEW C, NEW b \in Nat \ {0}, NEW g, NEW h, NEW n,
         Traced(f, C, b, g, h, n), C[b + 1] = <<>>
  PROVE  Traced(f, C, b + 1, g, h, 0)
<1> DEFINE L == Len(C[b])
<1>1. PICK H : /\ DOMAIN H = Nat \X Nat /\ H = [p \in Nat \X Nat |-> H[p]]
               /\ Trace(f, C, b, H)
               /\ H[<<1, 1>>] = g
               /\ H[<<b, L + 1>>] = h
  BY DEF Traced
<1>2. L \in Nat
  <2>1. b \in 1 .. b
    OBVIOUS
  <2> QED
    BY <1>1, <2>1 DEF Trace, IsSequence
<1> DEFINE G == [p \in Nat \X Nat |-> IF p = <<b + 1, 1>> THEN h ELSE H[p]]
<1>3. DOMAIN G = Nat \X Nat /\ G = [p \in Nat \X Nat |-> G[p]]
  OBVIOUS
<1>4. /\ G[<<b + 1, 1>>] = h
      /\ \A c, i \in Nat : c # b + 1 => G[<<c, i>>] = H[<<c, i>>]
  OBVIOUS
<1> HIDE DEF G, L
<1>5. IsSequence(C[b + 1]) /\ Len(C[b + 1]) = 0
  BY DEF IsSequence
<1>6. ASSUME NEW c \in 1 .. (b + 1)
      PROVE  IsSequence(C[c]) /\ \A i \in 1 .. Len(C[c]) : TraceStep(f, c, C[c], G, i)
  <2>1. CASE c = b + 1
    BY <1>5, <2>1
  <2>2. CASE c # b + 1
    <3>1. c \in 1 .. b /\ c \in Nat
      BY <2>2
    <3>2. ASSUME NEW i \in 1 .. Len(C[c]) PROVE TraceStep(f, c, C[c], G, i)
      <4>1. i \in Nat /\ i + 1 \in Nat
        OBVIOUS
      <4>2. G[<<c, i>>] = H[<<c, i>>] /\ G[<<c, i + 1>>] = H[<<c, i + 1>>]
        BY <1>4, <2>2, <3>1, <4>1
      <4>3. TraceStep(f, c, C[c], H, i)
        BY <1>1, <3>1 DEF Trace
      <4> QED
        BY <4>2, <4>3 DEF TraceStep
    <3> QED
      BY <1>1, <3>1, <3>2 DEF Trace
  <2> QED
    BY <2>1, <2>2
<1>7. ASSUME NEW c \in 1 .. ((b + 1) - 1) PROVE G[<<c + 1, 1>>] = G[<<c, Len(C[c]) + 1>>]
  <2>1. c \in 1 .. b /\ c \in Nat /\ c + 1 \in Nat /\ c # b + 1 /\ 1 \in Nat
    OBVIOUS
  <2>2. Len(C[c]) + 1 \in Nat
    BY <1>1, <2>1 DEF Trace, IsSequence
  <2>3. G[<<c, Len(C[c]) + 1>>] = H[<<c, Len(C[c]) + 1>>]
    BY <1>4, <2>1, <2>2
  <2>4. CASE c = b
    BY <1>1, <1>4, <2>3, <2>4 DEF L
  <2>5. CASE c # b
    <3>1. c \in 1 .. (b - 1) /\ c + 1 # b + 1
      BY <2>1, <2>5
    <3>2. H[<<c + 1, 1>>] = H[<<c, Len(C[c]) + 1>>]
      BY <1>1, <3>1 DEF Trace
    <3> QED
      BY <1>4, <2>1, <2>3, <3>1, <3>2
  <2> QED
    BY <2>4, <2>5
<1>8. Trace(f, C, b + 1, G)
  BY <1>6, <1>7 DEF Trace
<1>9. G[<<1, 1>>] = g
  <2>1. 1 # b + 1 /\ 1 \in Nat
    OBVIOUS
  <2> QED
    BY <1>1, <1>4, <2>1
<1>10. Plain(C[b + 1], Len(C[b + 1])) = 0
  <2>1. {j \in 1 .. 0 : ~IsSpillCode(C[b + 1][j])} = {}
    OBVIOUS
  <2> QED
    BY <1>5, <2>1, FS_EmptySet DEF Plain
<1>11. G[<<b + 1, Len(C[b + 1]) + 1>>] = h
  BY <1>4, <1>5
<1> QED
  BY <1>3, <1>8, <1>9, <1>10, <1>11 DEF Traced
-----------------------------------------------------------------------------
(***************************************************************************)
(* Which registers are still to be read.                                   *)
(***************************************************************************)

\* Registers read at place p or later, and defined before it.
ReadFrom(f, p) == UNION {Uses(SyllableAt(f, q)) : q \in {r \in Places(f) : ~Before(r, p)}}
DefinedBefore(f, p) == UNION {Defs(SyllableAt(f, q)) : q \in {r \in Places(f) : Before(r, p)}}

\* A place is a block and a syllable of it.
LEMMA PlacesOf ==
  ASSUME NEW f \in Functions
  PROVE  /\ \A q \in Places(f) : /\ q = <<q[1], q[2]>> /\ q[1] \in DOMAIN f /\ q[1] \in 1 .. Len(f)
                                 /\ q[2] \in DOMAIN f[q[1]].syllables
                                 /\ q[2] \in 1 .. Len(f[q[1]].syllables)
                                 /\ q[1] \in Nat /\ q[2] \in Nat
         /\ \A b \in DOMAIN f : \A j \in DOMAIN f[b].syllables :
              <<b, j>> \in Places(f) /\ SyllableAt(f, <<b, j>>) = f[b].syllables[j]
         /\ Len(f) \in Nat \ {0} /\ DOMAIN f = 1 .. Len(f)
         /\ \A b \in DOMAIN f : /\ Len(f[b].syllables) \in Nat
                                /\ DOMAIN f[b].syllables = 1 .. Len(f[b].syllables)
<1>1. /\ Len(f) \in Nat \ {0} /\ DOMAIN f = 1 .. Len(f)
      /\ \A b \in DOMAIN f : /\ Len(f[b].syllables) \in Nat
                             /\ DOMAIN f[b].syllables = 1 .. Len(f[b].syllables)
  BY FunctionsAssumption
<1>2. ASSUME NEW q \in Places(f)
      PROVE  /\ q = <<q[1], q[2]>> /\ q[1] \in DOMAIN f
             /\ q[2] \in DOMAIN f[q[1]].syllables
  <2>1. PICK b \in DOMAIN f : q \in {b} \X DOMAIN f[b].syllables
    BY DEF Places
  <2> QED
    BY <2>1
<1>3. ASSUME NEW b \in DOMAIN f, NEW j \in DOMAIN f[b].syllables
      PROVE  <<b, j>> \in Places(f) /\ SyllableAt(f, <<b, j>>) = f[b].syllables[j]
  <2>1. <<b, j>> \in {b} \X DOMAIN f[b].syllables
    OBVIOUS
  <2> QED
    BY <2>1 DEF Places, SyllableAt
<1>4. ASSUME NEW q \in Places(f) PROVE q[1] \in 1 .. Len(f) /\ q[2] \in 1 .. Len(f[q[1]].syllables)
  BY <1>1, <1>2
<1>5. ASSUME NEW q \in Places(f) PROVE q[1] \in Nat /\ q[2] \in Nat
  <2>1. Len(f) \in Nat /\ Len(f[q[1]].syllables) \in Nat
    BY <1>1, <1>2
  <2> QED
    BY <1>4, <2>1
<1> QED
  BY <1>1, <1>2, <1>3, <1>4, <1>5

LEMMA ReadFromHas ==
  ASSUME NEW f, NEW p, NEW v
  PROVE  /\ v \in ReadFrom(f, p) <=> \E q \in Places(f) : ~Before(q, p) /\ v \in Uses(SyllableAt(f, q))
         /\ v \in DefinedBefore(f, p) <=> \E q \in Places(f) : Before(q, p) /\ v \in Defs(SyllableAt(f, q))
  BY DEF ReadFrom, DefinedBefore

\* From one syllable to the next, and from one block to the next.
LEMMA NextPlace ==
  ASSUME NEW f \in Functions, NEW b \in DOMAIN f, NEW j \in DOMAIN f[b].syllables
  PROVE  /\ ReadFrom(f, <<b, j + 1>>) \subseteq ReadFrom(f, <<b, j>>)
         /\ DefinedBefore(f, <<b, j + 1>>) = DefinedBefore(f, <<b, j>>) \cup Defs(f[b].syllables[j])
         /\ Uses(f[b].syllables[j]) \subseteq ReadFrom(f, <<b, j>>)
<1>0. b \in Nat /\ j \in Nat
  <2>1. <<b, j>> \in Places(f) /\ <<b, j>>[1] = b /\ <<b, j>>[2] = j
    BY PlacesOf
  <2> QED
    BY <2>1, PlacesOf
<1>1. ASSUME NEW q \in Places(f)
      PROVE  Before(q, <<b, j + 1>>) <=> Before(q, <<b, j>>) \/ q = <<b, j>>
  <2>1. q = <<q[1], q[2]>> /\ q[1] \in Nat /\ q[2] \in Nat
    BY PlacesOf
  <2> DEFINE c == q[1]
             i == q[2]
  <2>2. q = <<b, j>> <=> c = b /\ i = j
    BY <2>1
  <2>3. /\ Before(q, <<b, j + 1>>) <=> c < b \/ (c = b /\ i < j + 1)
        /\ Before(q, <<b, j>>) <=> c < b \/ (c = b /\ i < j)
    BY DEF Before
  <2> HIDE DEF c, i
  <2>4. c \in Nat /\ i \in Nat
    BY <2>1 DEF c, i
  <2> QED
    BY <1>0, <2>2, <2>3, <2>4
<1>2. <<b, j>> \in Places(f) /\ SyllableAt(f, <<b, j>>) = f[b].syllables[j]
  BY PlacesOf
<1>3. ~Before(<<b, j>>, <<b, j>>)
  BY <1>0 DEF Before
<1>4. ReadFrom(f, <<b, j + 1>>) \subseteq ReadFrom(f, <<b, j>>)
  BY <1>1, ReadFromHas
<1>5. DefinedBefore(f, <<b, j + 1>>) \subseteq DefinedBefore(f, <<b, j>>) \cup Defs(f[b].syllables[j])
  BY <1>1, <1>2, ReadFromHas
<1>6. DefinedBefore(f, <<b, j>>) \cup Defs(f[b].syllables[j]) \subseteq DefinedBefore(f, <<b, j + 1>>)
  BY <1>1, <1>2, ReadFromHas
<1>7. Uses(f[b].syllables[j]) \subseteq ReadFrom(f, <<b, j>>)
  BY <1>2, <1>3, ReadFromHas
<1> QED
  BY <1>4, <1>5, <1>6, <1>7

\* The end of a block and the start of the next are one place in the order.
LEMMA NextBlockPlace ==
  ASSUME NEW f \in Functions, NEW b \in DOMAIN f
  PROVE  /\ ReadFrom(f, <<b + 1, 1>>) = ReadFrom(f, <<b, Len(f[b].syllables) + 1>>)
         /\ DefinedBefore(f, <<b + 1, 1>>) = DefinedBefore(f, <<b, Len(f[b].syllables) + 1>>)
<1>1. ASSUME NEW q \in Places(f)
      PROVE  Before(q, <<b + 1, 1>>) <=> Before(q, <<b, Len(f[b].syllables) + 1>>)
  <2> DEFINE c == q[1]
             i == q[2]
             L == Len(f[b].syllables)
  <2>1. /\ Before(q, <<b + 1, 1>>) <=> c < b + 1 \/ (c = b + 1 /\ i < 1)
        /\ Before(q, <<b, L + 1>>) <=> c < b \/ (c = b /\ i < L + 1)
    BY DEF Before
  <2>2. c \in Nat /\ i \in Nat /\ L \in Nat /\ i >= 1 /\ (c = b => i <= L)
    <3>1. c \in Nat /\ i \in Nat /\ c \in DOMAIN f /\ i \in 1 .. Len(f[c].syllables) /\ L \in Nat
      BY PlacesOf
    <3>2. Len(f[c].syllables) \in Nat
      BY <3>1, PlacesOf
    <3>3. c = b => Len(f[c].syllables) = L
      OBVIOUS
    <3> HIDE DEF c, i, L
    <3> QED
      BY <3>1, <3>2, <3>3
  <2>3. b \in Nat
    <3>1. DOMAIN f = 1 .. Len(f) /\ Len(f) \in Nat
      BY PlacesOf
    <3> QED
      BY <3>1
  <2> HIDE DEF c, i, L
  <2>4. Before(q, <<b + 1, 1>>) <=> Before(q, <<b, L + 1>>)
    BY <2>1, <2>2, <2>3
  <2> QED
    BY <2>4 DEF L
<1> QED
  BY <1>1 DEF ReadFrom, DefinedBefore

LiveOutOK == live_out = [b \in DOMAIN func |-> {v \in VRegsOf(func) : LiveAtEnd(func, b, v)}]

\* A register defined in block b and read in a later one is live at the end of b.
LEMMA LiveBetween ==
  ASSUME NEW f \in Functions, StraightCode(f), NEW b \in DOMAIN f, NEW v,
         NEW d \in Places(f), v \in Defs(SyllableAt(f, d)), d[1] <= b,
         NEW q \in Places(f), v \in Uses(SyllableAt(f, q)), b < q[1]
  PROVE  LiveAtEnd(f, b, v) /\ v \in VRegsOf(f)
<1> DEFINE c == q[1]
           len == c - b
           path == [i \in 1 .. len |-> b + i]
<1>1. /\ b \in Nat /\ c \in Nat /\ d[1] \in Nat /\ Len(f) \in Nat /\ DOMAIN f = 1 .. Len(f)
      /\ c \in 1 .. Len(f) /\ b \in 1 .. Len(f)
  <2>1. DOMAIN f = 1 .. Len(f) /\ Len(f) \in Nat /\ c \in 1 .. Len(f) /\ c \in Nat /\ d[1] \in Nat
    BY PlacesOf
  <2> HIDE DEF c
  <2> QED
    BY <2>1
<1>2. /\ q[2] \in DOMAIN f[c].syllables /\ v \in Uses(f[c].syllables[q[2]])
      /\ SyllableAt(f, q) = f[c].syllables[q[2]]
  BY PlacesOf DEF SyllableAt
<1>3. ASSUME NEW e \in DOMAIN f, e > b, NEW j \in DOMAIN f[e].syllables
      PROVE  v \notin Defs(f[e].syllables[j])
  <2>1. <<e, j>> \in Places(f) /\ SyllableAt(f, <<e, j>>) = f[e].syllables[j]
    BY PlacesOf
  <2>2. <<e, j>> # d
    <3>1. e # d[1]
      BY <1>1, <1>3
    <3>2. <<e, j>>[1] = e
      OBVIOUS
    <3> QED
      BY <3>1, <3>2
  <2>3. SUFFICES ASSUME v \in Defs(f[e].syllables[j]) PROVE FALSE
    OBVIOUS
  <2>4. Defs(SyllableAt(f, d)) \cap Defs(SyllableAt(f, <<e, j>>)) # {}
    BY <2>1, <2>3
  <2> QED
    BY <2>1, <2>2, <2>4 DEF StraightCode
<1> HIDE DEF c
<1>4. len \in Nat /\ len \in DOMAIN f /\ b + 1 \in DOMAIN f
  BY <1>1 DEF c
<1>5. path \in [1 .. len -> DOMAIN f]
  <2>1. \A i \in 1 .. len : b + i \in 1 .. Len(f)
    BY <1>1, <1>4
  <2> QED
    BY <1>1, <2>1
<1>6. path[1] = b + 1 /\ path[len] = c
  <2>1. 1 \in 1 .. len /\ len \in 1 .. len /\ b + len = c
    BY <1>1, <1>4 DEF c
  <2> HIDE DEF len
  <2> QED
    BY <2>1
<1>7. Exposes(f, c, v)
  <2>0. c \in DOMAIN f /\ c > b
    BY <1>1 DEF c
  <2>1. DOMAIN f[c].syllables = 1 .. Len(f[c].syllables) /\ Len(f[c].syllables) \in Nat
    BY <2>0, PlacesOf
  <2>2. \A j \in 1 .. (q[2] - 1) : j \in DOMAIN f[c].syllables
    BY <1>2, <2>1
  <2>3. ~\E j \in 1 .. (q[2] - 1) : v \in Defs(f[c].syllables[j])
    BY <1>3, <2>0, <2>2
  <2> QED
    BY <1>2, <2>3 DEF Exposes
<1>8. ASSUME NEW i \in 1 .. (len - 1)
      PROVE  Follows(f, path[i], path[i + 1]) /\ ~Writes(f, path[i], v)
  <2>1. i \in 1 .. len /\ i + 1 \in 1 .. len
    BY <1>4
  <2> HIDE DEF len
  <2>2. path[i] = b + i /\ path[i + 1] = b + (i + 1)
    BY <2>1
  <2> HIDE DEF path
  <2>3. path[i] \in DOMAIN f /\ path[i + 1] \in DOMAIN f
    BY <1>5, <2>1
  <2>4. path[i + 1] = path[i] + 1 /\ path[i] > b
    BY <1>1, <2>2
  <2>5. Follows(f, path[i], path[i + 1])
    BY <2>3, <2>4 DEF StraightCode
  <2>6. ~Writes(f, path[i], v)
    BY <1>3, <2>3, <2>4 DEF Writes
  <2> QED
    BY <2>5, <2>6
<1> HIDE DEF path, len
<1>9. LiveAtStart(f, b + 1, v)
  BY <1>4, <1>5, <1>6, <1>7, <1>8 DEF LiveAtStart
<1>10. Follows(f, b, b + 1)
  BY <1>4 DEF StraightCode
<1>11. v \in VRegsOf(f)
  BY <1>1, <1>2 DEF VRegsOf
<1> QED
  BY <1>4, <1>9, <1>10, <1>11 DEF LiveAtEnd

\* What can_free_after frees is not read again.
LEMMA NotReadAgain ==
  ASSUME func \in Functions, StraightCode(func), LiveOutOK, block \in DOMAIN func,
         k \in DOMAIN Syllables, NEW v \in DefinedBefore(func, <<block, k + 1>>),
         LastUse(v) <= k, v \notin live_out[block]
  PROVE  v \notin ReadFrom(func, <<block, k + 1>>)
<1> SUFFICES ASSUME NEW q \in Places(func), ~Before(q, <<block, k + 1>>), v \in Uses(SyllableAt(func, q))
             PROVE  FALSE
  BY ReadFromHas
<1> DEFINE c == q[1]
           i == q[2]
           uses == {j \in DOMAIN Syllables : v \in Uses(Syllables[j])}
<1>1. /\ block \in Nat /\ k \in Nat /\ c \in Nat /\ i \in Nat
      /\ Len(Syllables) \in Nat /\ DOMAIN Syllables = 1 .. Len(Syllables)
  <2>1. /\ DOMAIN func = 1 .. Len(func) /\ Len(func) \in Nat
        /\ Len(Syllables) \in Nat /\ DOMAIN Syllables = 1 .. Len(Syllables)
    BY PlacesOf DEF Syllables
  <2> QED
    BY <2>1, PlacesOf
<1>2. c > block \/ (c = block /\ i > k)
  <2>1. ~(c < block \/ (c = block /\ i < k + 1))
    BY DEF Before
  <2> HIDE DEF c, i
  <2> QED
    BY <1>1, <2>1
<1>3. CASE c > block
  <2>1. PICK d \in Places(func) : Before(d, <<block, k + 1>>) /\ v \in Defs(SyllableAt(func, d))
    BY ReadFromHas
  <2>2. d[1] <= block /\ block < q[1]
    <3>1. d[1] < block \/ d[1] = block
      BY <2>1 DEF Before
    <3>2. d[1] \in Nat
      BY PlacesOf
    <3> QED
      BY <1>1, <1>3, <3>1, <3>2
  <2>3. LiveAtEnd(func, block, v) /\ v \in VRegsOf(func)
    BY <2>1, <2>2, LiveBetween
  <2> QED
    BY <2>3 DEF LiveOutOK
<1>4. CASE c = block /\ i > k
  <2>1. i \in uses
    <3>1. i \in DOMAIN func[c].syllables /\ SyllableAt(func, q) = func[c].syllables[i]
      BY PlacesOf DEF SyllableAt
    <3> QED
      BY <1>4, <3>1 DEF Syllables
  <2>2. PICK m \in uses : \A j \in uses : j <= m
    <3>1. uses \in SUBSET (1 .. Len(Syllables)) /\ uses # {}
      BY <1>1, <2>1
    <3> HIDE DEF uses
    <3> QED
      BY <1>1, <3>1, GreatestElement
  <2>3. v \notin TermUses(func[block].terminator)
    BY DEF StraightCode, TermUses, VRegsIn
  <2> DEFINE l == CHOOSE j \in uses : \A h \in uses : h <= j
  <2>4. LastUse(v) = l
    BY <2>1, <2>3 DEF LastUse
  <2>5. l \in uses /\ \A h \in uses : h <= l
    <3> HIDE DEF uses
    <3> QED
      BY <2>2
  <2>6. i <= LastUse(v) /\ LastUse(v) \in Nat
    <3>1. l \in Nat
      BY <1>1, <2>5
    <3> HIDE DEF l, i, uses
    <3> QED
      BY <2>1, <2>4, <2>5, <3>1
  <2> HIDE DEF i
  <2> QED
    BY <1>1, <1>4, <2>6
<1> QED
  BY <1>2, <1>3, <1>4
-----------------------------------------------------------------------------
(***************************************************************************)
(* The inductive invariant of straight code.  While the allocator runs,    *)
(* the code emitted so far brings the locations into a state h in which    *)
(* every register that is defined and still to be read is where the tables *)
(* say; afterwards, the processor follows a trace of the whole code.       *)
(***************************************************************************)
Codes == [c \in DOMAIN blocks |-> blocks[c].syllables]

BlocksOK ==
  /\ DOMAIN blocks = DOMAIN func
  /\ \A c \in DOMAIN func :
       blocks[c] = [label |-> blocks[c].label, syllables |-> blocks[c].syllables,
                    terminator |-> blocks[c].terminator]

\* The rewritten sources q of a syllable are the registers that hold them.
SrcsOK(syl, q, h) ==
  \A j \in 1 .. Len(q) :
    IF syl.srcs[j].kind = "VReg"
      THEN \E p : q[j] = PReg(p) /\ <<Gpr(p), syl.srcs[j].n>> \in h
      ELSE q[j] = syl.srcs[j]

\* They are still assigned to them.
SrcsKept(A, syl, q, h) ==
  \A j \in 1 .. Len(q) :
    syl.srcs[j].kind = "VReg" =>
      /\ syl.srcs[j].n \in DOMAIN A.assigned
      /\ q[j] = PReg(A.assigned[syl.srcs[j].n])
      /\ <<Gpr(A.assigned[syl.srcs[j].n]), syl.srcs[j].n>> \in h

PartOK(h) ==
  IF AtTerminator THEN step = "read" /\ s = 1 /\ srcs = <<>>
  ELSE /\ step \in {"read", "free", "write"}
       /\ s \in 1 .. (Len(Current.srcs) + 1)
       /\ IsSequence(srcs)
       /\ Len(srcs) = IF step = "read" THEN s - 1 ELSE Len(Current.srcs)
       /\ SrcsOK(Current, srcs, h)
       /\ step = "read" => SrcsKept(alloc, Current, srcs, h)

Needed ==
  ReadFrom(func, <<block, IF step = "read" THEN k ELSE k + 1>>)
    \cap DefinedBefore(func, <<block, k>>)

\* The allocator has emitted code that leads to h.
Emitted(h) ==
  /\ Traced(func, Codes, block, holds, h, k - 1)
  /\ Fits(alloc, h, Needed)
  /\ PartOK(h)

KnownOK ==
  /\ SlotsOK(alloc)
  /\ DOMAIN alloc.assigned \subseteq DefinedBefore(func, <<block, k>>)
  /\ DOMAIN alloc.spill_slots \subseteq DefinedBefore(func, <<block, k>>)

Emitting ==
  /\ at = 1 /\ idx = 1
  /\ \A c \in DOMAIN func : c > block => Codes[c] = <<>>
  /\ KnownOK
  /\ \E h : Emitted(h)

Followed ==
  \E H : /\ Trace(func, Codes, Len(func), H)
         /\ at # 0 => /\ at \in DOMAIN func /\ idx \in 1 .. (Len(Codes[at]) + 1)
                      /\ holds = H[<<at, idx>>]

RunInv ==
  /\ LiveOutOK /\ BlocksOK
  /\ phase \in {"alloc", "done"}
  /\ phase = "alloc" => Emitting
  /\ phase = "done" => Followed

\* Code is appended to the present block and to no other.
LEMMA EmitCodeOK ==
  ASSUME BlocksOK, block \in DOMAIN func, NEW code, EmitCode(code), func' = func
  PROVE  BlocksOK' /\ Codes' = [Codes EXCEPT ![block] = @ \o code]
<1> DEFINE b == blocks[block]
           e == [label |-> b.label, syllables |-> b.syllables \o code, terminator |-> b.terminator]
<1>1. blocks' = [blocks EXCEPT ![block] = e]
  <2>1. blocks' = [blocks EXCEPT ![block] = [b EXCEPT !.syllables = @ \o code]]
    BY DEF EmitCode
  <2>2. b = [label |-> b.label, syllables |-> b.syllables, terminator |-> b.terminator]
    BY DEF BlocksOK
  <2>3. [b EXCEPT !.syllables = @ \o code] = e
    <3> DEFINE z == b.syllables \o code
    <3> HIDE DEF b, z
    <3>1. [b EXCEPT !.syllables = z] = [label |-> b.label, syllables |-> z, terminator |-> b.terminator]
      BY <2>2
    <3> QED
      BY <3>1 DEF z
  <2> QED
    BY <2>1, <2>3
<1>2. DOMAIN blocks' = DOMAIN blocks /\ blocks'[block] = e
      /\ \A c \in DOMAIN blocks : c # block => blocks'[c] = blocks[c]
  <2> HIDE DEF e
  <2> QED
    BY <1>1 DEF BlocksOK
<1>3. /\ e.syllables = b.syllables \o code
      /\ e = [label |-> e.label, syllables |-> e.syllables, terminator |-> e.terminator]
  OBVIOUS
<1> HIDE DEF e, b
<1>4. BlocksOK'
  <2>1. ASSUME NEW c \in DOMAIN func
        PROVE  blocks'[c] = [label |-> blocks'[c].label, syllables |-> blocks'[c].syllables,
                             terminator |-> blocks'[c].terminator]
    <3>1. CASE c = block
      BY <1>2, <1>3, <3>1
    <3>2. CASE c # block
      BY <1>2, <3>2 DEF BlocksOK
    <3> QED
      BY <3>1, <3>2
  <2> QED
    BY <1>2, <2>1 DEF BlocksOK
<1>5. Codes' = [Codes EXCEPT ![block] = @ \o code]
  <2>1. Codes' = [c \in DOMAIN blocks |-> blocks'[c].syllables]
    BY <1>2 DEF Codes
  <2>2. \A c \in DOMAIN blocks :
          blocks'[c].syllables = IF c = block THEN blocks[c].syllables \o code ELSE blocks[c].syllables
    BY <1>2, <1>3 DEF b
  <2>3. [Codes EXCEPT ![block] = @ \o code]
          = [c \in DOMAIN blocks |-> IF c = block THEN blocks[c].syllables \o code ELSE blocks[c].syllables]
    BY DEF Codes, BlocksOK
  <2> QED
    BY <2>1, <2>2, <2>3
<1> QED
  BY <1>4, <1>5

\* The sequence of blocks in which code is emitted.
LEMMA CodesDomain ==
  ASSUME BlocksOK, func \in Functions, block \in DOMAIN func
  PROVE  block \in Nat \ {0} /\ 1 .. block \subseteq DOMAIN Codes /\ block \in DOMAIN Codes
<1>1. Len(func) \in Nat /\ DOMAIN func = 1 .. Len(func)
  BY PlacesOf
<1>2. DOMAIN Codes = 1 .. Len(func)
  BY <1>1 DEF Codes, BlocksOK
<1> QED
  BY <1>1, <1>2

\* Fewer registers fit as well, and a freed register that is not asked for.
LEMMA FitsLess ==
  ASSUME NEW A, NEW h, NEW S, Fits(A, h, S), NEW T \in SUBSET S
  PROVE  /\ Fits(A, h, T)
         /\ \A v : Owns(A, Allocatable) /\ v \notin T => Fits(FreeVReg(A, v), h, T)
<1>1. Fits(A, h, T)
  BY DEF Fits
<1>2. ASSUME NEW v, Owns(A, Allocatable), v \notin T PROVE Fits(FreeVReg(A, v), h, T)
  <2>1. CASE v \notin DOMAIN A.assigned
    BY <1>1, <2>1 DEF FreeVReg
  <2>2. CASE v \in DOMAIN A.assigned
    <3> DEFINE B == FreeVReg(A, v)
               f == Without(A.assigned, v)
    <3>1. B = [assigned |-> f, free |-> <<A.assigned[v]>> \o A.free, spill_slots |-> A.spill_slots]
      BY <1>2, <2>2 DEF FreeVReg, Owns
    <3>2. B.assigned = f /\ B.spill_slots = A.spill_slots
      BY <3>1
    <3>3. DOMAIN f = DOMAIN A.assigned \ {v} /\ \A w \in DOMAIN f : f[w] = A.assigned[w]
      BY DEF Without
    <3> HIDE DEF B, f
    <3>4. Fits(B, h, T)
      BY <1>1, <1>2, <3>2, <3>3 DEF Fits
    <3> QED
      BY <3>4 DEF B
  <2> QED
    BY <2>1, <2>2
<1> QED
  BY <1>1, <1>2

\* Freeing a register forgets nothing that KnownOK is about.
LEMMA FreeKnows ==
  ASSUME NEW A, Owns(A, Allocatable), NEW v
  PROVE  /\ DOMAIN FreeVReg(A, v).assigned \subseteq DOMAIN A.assigned
         /\ FreeVReg(A, v).spill_slots = A.spill_slots
<1>1. CASE v \notin DOMAIN A.assigned
  BY <1>1 DEF FreeVReg
<1>2. CASE v \in DOMAIN A.assigned
  <2> DEFINE f == Without(A.assigned, v)
  <2>1. FreeVReg(A, v) = [assigned |-> f, free |-> <<A.assigned[v]>> \o A.free, spill_slots |-> A.spill_slots]
    BY <1>2 DEF FreeVReg, Owns
  <2>2. DOMAIN f \subseteq DOMAIN A.assigned
    BY DEF Without
  <2> HIDE DEF f
  <2> QED
    BY <2>1, <2>2
<1> QED
  BY <1>1, <1>2

\* What the allocator's steps start from.
Ready == Inv /\ StraightCode(func) /\ RunInv /\ phase = "alloc"

\* The syllable at the cursor reads registers that were defined before it.
LEMMA ReadySyllable ==
  ASSUME Ready, ~AtTerminator
  PROVE  /\ func \in Functions /\ block \in DOMAIN func /\ k \in DOMAIN Syllables
         /\ k \in Nat /\ Current = func[block].syllables[k]
         /\ PlainSyllable(Current)
         /\ Len(Current.srcs) \in Nat /\ DOMAIN Current.srcs = 1 .. Len(Current.srcs)
         /\ \A j \in DOMAIN Current.srcs : Current.srcs[j].kind = "VReg" => Current.srcs[j].n \in Uses(Current)
         /\ Uses(Current) \subseteq DefinedBefore(func, <<block, k>>)
<1>1. func \in Functions /\ block \in DOMAIN func /\ k \in 1 .. (Len(Syllables) + 1)
  BY DEF Ready, Inv, CursorOK
<1>2. Len(Syllables) \in Nat /\ DOMAIN Syllables = 1 .. Len(Syllables)
  BY <1>1, PlacesOf DEF Syllables
<1>3. k \in DOMAIN Syllables /\ k \in Nat
  BY <1>1, <1>2 DEF AtTerminator
<1>4. Current = func[block].syllables[k]
  BY DEF Current, Syllables
<1>5. <<block, k>> \in Places(func) /\ SyllableAt(func, <<block, k>>) = Current
  BY <1>1, <1>3, <1>4, PlacesOf DEF Syllables
<1>6. PlainSyllable(Current)
  BY <1>5 DEF Ready, StraightCode
<1>7. Len(Current.srcs) \in Nat /\ DOMAIN Current.srcs = 1 .. Len(Current.srcs)
  BY <1>6 DEF PlainSyllable, IsSequence
<1>8. \A j \in DOMAIN Current.srcs : Current.srcs[j].kind = "VReg" => Current.srcs[j].n \in Uses(Current)
  BY DEF Uses, VRegsIn
<1>9. Uses(Current) \subseteq DefinedBefore(func, <<block, k>>)
  BY <1>5, ReadFromHas DEF Ready, StraightCode
<1> QED
  BY <1>1, <1>3, <1>4, <1>6, <1>7, <1>8, <1>9

\* One more source, which is where the tables say.
LEMMA SourceAdded ==
  ASSUME NEW syl, NEW q, IsSequence(q), NEW A, NEW g, SrcsOK(syl, q, g), SrcsKept(A, syl, q, g), NEW x,
         LET y == syl.srcs[Len(q) + 1]
         IN  IF y.kind = "VReg"
               THEN y.n \in DOMAIN A.assigned /\ x = PReg(A.assigned[y.n]) /\ <<Gpr(A.assigned[y.n]), y.n>> \in g
               ELSE x = y
  PROVE  SrcsOK(syl, Append(q, x), g) /\ SrcsKept(A, syl, Append(q, x), g)
<1> DEFINE r == Append(q, x)
           L == Len(q)
<1>1. L \in Nat /\ Len(r) = L + 1 /\ (\A i \in 1 .. L : r[i] = q[i]) /\ r[L + 1] = x
  BY AppendAny DEF IsSequence
<1>2. \A j \in 1 .. (L + 1) : j \in 1 .. L \/ j = L + 1
  BY <1>1
<1>3. /\ syl.srcs[L + 1].kind = "VReg" =>
           /\ syl.srcs[L + 1].n \in DOMAIN A.assigned
           /\ x = PReg(A.assigned[syl.srcs[L + 1].n])
           /\ <<Gpr(A.assigned[syl.srcs[L + 1].n]), syl.srcs[L + 1].n>> \in g
      /\ syl.srcs[L + 1].kind # "VReg" => x = syl.srcs[L + 1]
  OBVIOUS
<1>4. /\ \A j \in 1 .. L : IF syl.srcs[j].kind = "VReg"
                             THEN \E p : q[j] = PReg(p) /\ <<Gpr(p), syl.srcs[j].n>> \in g
                             ELSE q[j] = syl.srcs[j]
      /\ \A j \in 1 .. L : syl.srcs[j].kind = "VReg" =>
           /\ syl.srcs[j].n \in DOMAIN A.assigned
           /\ q[j] = PReg(A.assigned[syl.srcs[j].n])
           /\ <<Gpr(A.assigned[syl.srcs[j].n]), syl.srcs[j].n>> \in g
  BY DEF SrcsOK, SrcsKept
<1> HIDE DEF r, L
<1>5. ASSUME NEW j \in 1 .. (L + 1)
      PROVE  IF syl.srcs[j].kind = "VReg"
               THEN \E p : r[j] = PReg(p) /\ <<Gpr(p), syl.srcs[j].n>> \in g
               ELSE r[j] = syl.srcs[j]
  <2>1. CASE j \in 1 .. L
    BY <1>1, <1>4, <2>1
  <2>2. CASE j = L + 1
    BY <1>1, <1>3, <2>2
  <2> QED
    BY <1>2, <2>1, <2>2
<1>6. ASSUME NEW j \in 1 .. (L + 1), syl.srcs[j].kind = "VReg"
      PROVE  /\ syl.srcs[j].n \in DOMAIN A.assigned
             /\ r[j] = PReg(A.assigned[syl.srcs[j].n])
             /\ <<Gpr(A.assigned[syl.srcs[j].n]), syl.srcs[j].n>> \in g
  <2>1. CASE j \in 1 .. L
    BY <1>1, <1>4, <1>6, <2>1
  <2>2. CASE j = L + 1
    BY <1>1, <1>3, <1>6, <2>2
  <2> QED
    BY <1>2, <2>1, <2>2
<1>7. SrcsOK(syl, r, g) /\ SrcsKept(A, syl, r, g)
  BY <1>1, <1>5, <1>6 DEF SrcsOK, SrcsKept
<1> QED
  BY <1>7 DEF r

\* The state before a step that reads a source.
LEMMA ReadingState ==
  ASSUME Ready, ~AtTerminator, step = "read", NEW h, Emitted(h)
  PROVE  /\ s \in 1 .. (Len(Current.srcs) + 1) /\ s \in Nat
         /\ IsSequence(srcs) /\ Len(srcs) = s - 1
         /\ SrcsOK(Current, srcs, h) /\ SrcsKept(alloc, Current, srcs, h)
         /\ Needed = ReadFrom(func, <<block, k>>) \cap DefinedBefore(func, <<block, k>>)
         /\ Uses(Current) \subseteq Needed
<1>1. /\ s \in 1 .. (Len(Current.srcs) + 1)
      /\ IsSequence(srcs) /\ Len(srcs) = s - 1
      /\ SrcsOK(Current, srcs, h) /\ SrcsKept(alloc, Current, srcs, h)
  BY DEF Emitted, PartOK
<1>2. s \in Nat
  BY <1>1, ReadySyllable
<1>3. Needed = ReadFrom(func, <<block, k>>) \cap DefinedBefore(func, <<block, k>>)
  BY DEF Needed
<1>4. Uses(Current) \subseteq ReadFrom(func, <<block, k>>)
  <2>1. func \in Functions /\ block \in DOMAIN func /\ k \in DOMAIN func[block].syllables
        /\ Current = func[block].syllables[k]
    BY ReadySyllable DEF Syllables
  <2> QED
    BY <2>1, NextPlace
<1> QED
  BY <1>1, <1>2, <1>3, <1>4, ReadySyllable

\* One lemma per step of allocate_registers: the code emitted so far, run from
\* the start, reads right values and leaves the live ones where the tables say.
LEMMA RewriteSourceKeeps ==
  ASSUME Ready, RewriteSource, UNCHANGED <<at, idx, holds>>
  PROVE  RunInv'
<1>0. /\ ~AtTerminator /\ step = "read" /\ s <= Len(Current.srcs) /\ s' = s + 1
      /\ func' = func /\ live_out' = live_out /\ block' = block /\ k' = k /\ step' = step /\ phase' = phase
      /\ at' = at /\ idx' = idx /\ holds' = holds
  BY DEF RewriteSource, InSyllable, input
<1>1. /\ LiveOutOK /\ BlocksOK /\ at = 1 /\ idx = 1 /\ KnownOK /\ phase = "alloc"
      /\ \A c \in DOMAIN func : c > block => Codes[c] = <<>>
  BY DEF Ready, RunInv, Emitting
<1>2. PICK h : Emitted(h)
  BY DEF Ready, RunInv, Emitting
<1>3. /\ s \in 1 .. (Len(Current.srcs) + 1) /\ s \in Nat
      /\ IsSequence(srcs) /\ Len(srcs) = s - 1
      /\ SrcsOK(Current, srcs, h) /\ SrcsKept(alloc, Current, srcs, h)
      /\ Needed = ReadFrom(func, <<block, k>>) \cap DefinedBefore(func, <<block, k>>)
      /\ Uses(Current) \subseteq Needed
  BY <1>0, <1>2, ReadingState
<1>4. /\ func \in Functions /\ block \in DOMAIN func
      /\ Len(Current.srcs) \in Nat /\ DOMAIN Current.srcs = 1 .. Len(Current.srcs)
      /\ \A j \in DOMAIN Current.srcs : Current.srcs[j].kind = "VReg" => Current.srcs[j].n \in Uses(Current)
      /\ Uses(Current) \subseteq DefinedBefore(func, <<block, k>>)
  BY <1>0, ReadySyllable
<1>5. Needed' = Needed /\ LiveOutOK' /\ Current' = Current /\ AtTerminator' = AtTerminator
  BY <1>0, <1>1 DEF Needed, LiveOutOK, Current, AtTerminator, Syllables
<1>6. s + 1 \in 1 .. (Len(Current.srcs) + 1) /\ (s - 1) + 1 = s /\ (s + 1) - 1 = s /\ s \in DOMAIN Current.srcs
  BY <1>0, <1>3, <1>4
<1> DEFINE src == Current.srcs[s]
\* What is left to show for either kind of source.
<1>7. ASSUME NEW x, srcs' = Append(srcs, x), NEW g,
             Traced(func, Codes', block, holds, g, k - 1),
             Fits(alloc', g, Needed), SrcsOK(Current, srcs', g), SrcsKept(alloc', Current, srcs', g),
             BlocksOK', KnownOK', \A c \in DOMAIN func : c > block => Codes'[c] = <<>>
      PROVE  RunInv'
  <2>1. IsSequence(srcs') /\ Len(srcs') = s
    BY <1>3, <1>6, <1>7, AppendAny
  <2>2. PartOK(g)'
    BY <1>0, <1>5, <1>6, <1>7, <2>1 DEF PartOK
  <2>3. Emitted(g)'
    BY <1>0, <1>5, <1>7, <2>2 DEF Emitted
  <2>4. Emitting'
    BY <1>0, <1>1, <1>7, <2>3 DEF Emitting
  <2> QED
    BY <1>0, <1>1, <1>5, <1>7, <2>4 DEF RunInv
<1>8. CASE src.kind # "VReg"
  <2>1. srcs' = Append(srcs, src) /\ alloc' = alloc /\ blocks' = blocks
    BY <1>8 DEF RewriteSource
  <2>2. Codes' = Codes /\ BlocksOK'
    BY <1>0, <1>1, <2>1 DEF Codes, BlocksOK
  <2>3. KnownOK'
    BY <1>0, <1>1, <2>1 DEF KnownOK, SlotsOK
  <2>4. SrcsOK(Current, srcs', h) /\ SrcsKept(alloc', Current, srcs', h)
    <3>1. Current.srcs[Len(srcs) + 1] = src
      BY <1>3, <1>6
    <3> QED
      BY <1>3, <1>8, <2>1, <3>1, SourceAdded
  <2>5. Traced(func, Codes', block, holds, h, k - 1) /\ Fits(alloc', h, Needed)
    BY <1>2, <2>1, <2>2 DEF Emitted
  <2> QED
    BY <1>1, <1>7, <2>1, <2>2, <2>3, <2>4, <2>5
<1>9. CASE src.kind = "VReg"
  <2> DEFINE v == src.n
  <2>1. PICK o \in PregForVReg(alloc, v, Uses(Current)) :
          srcs' = Append(srcs, PReg(o.preg)) /\ alloc' = o.alloc /\ EmitCode(o.prefix)
    BY <1>9 DEF RewriteSource
  <2>2. v \in Uses(Current) /\ v \in Needed /\ v \in DefinedBefore(func, <<block, k>>)
    BY <1>3, <1>4, <1>6, <1>9
  <2> HIDE DEF v
  <2>3. Owns(alloc, Allocatable) /\ SlotsOK(alloc) /\ Fits(alloc, h, Needed)
    BY <1>1, <1>2 DEF Ready, Inv, KnownOK, Emitted
  <2>4. PICK g : /\ RunsTwo(o.prefix, h, g) /\ Fits(o.alloc, g, Needed) /\ SlotsOK(o.alloc)
                 /\ Keeps(alloc, o.alloc, Uses(Current))
                 /\ v \in DOMAIN o.alloc.assigned /\ o.alloc.assigned[v] = o.preg
                 /\ <<Gpr(o.preg), v>> \in g
                 /\ \A w \in DOMAIN alloc.assigned :
                      w \in Uses(Current) /\ <<Gpr(alloc.assigned[w]), w>> \in h
                        => <<Gpr(alloc.assigned[w]), w>> \in g
                 /\ \A w \in DOMAIN o.alloc.assigned : w = v \/ w \in DOMAIN alloc.assigned
    BY <2>2, <2>3, PregForVRegFits
  <2>5. BlocksOK' /\ Codes' = [Codes EXCEPT ![block] = @ \o o.prefix]
    BY <1>0, <1>1, <1>4, <2>1, EmitCodeOK
  <2>6. Traced(func, Codes', block, holds, g, k - 1)
    <3>1. Traced(func, Codes, block, holds, h, k - 1)
      BY <1>2 DEF Emitted
    <3>2. block \in Nat \ {0} /\ 1 .. block \subseteq DOMAIN Codes
      BY <1>1, <1>4, CodesDomain
    <3> QED
      BY <2>4, <2>5, <3>1, <3>2, TraceRuns
  <2>7. KnownOK'
    <3>1. \A w \in DOMAIN alloc.assigned : w \in DefinedBefore(func, <<block, k>>)
      BY <1>1 DEF KnownOK
    <3>2. \A w \in DOMAIN alloc.spill_slots : w \in DefinedBefore(func, <<block, k>>)
      BY <1>1 DEF KnownOK
    <3>3. \A w \in DOMAIN alloc'.assigned : w \in DefinedBefore(func, <<block, k>>)
      BY <2>1, <2>2, <2>4, <3>1
    <3>4. \A w \in DOMAIN alloc'.spill_slots : w \in DefinedBefore(func, <<block, k>>)
      BY <2>1, <2>4, <3>1, <3>2 DEF Keeps
    <3>5. SlotsOK(alloc')
      BY <2>1, <2>4
    <3> QED
      BY <1>0, <3>3, <3>4, <3>5 DEF KnownOK
  <2>8. \A j \in 1 .. Len(srcs) : j \in DOMAIN Current.srcs
    BY <1>3, <1>4
  <2>9. SrcsKept(alloc', Current, srcs, g)
    <3> SUFFICES ASSUME NEW j \in 1 .. Len(srcs), Current.srcs[j].kind = "VReg"
                 PROVE  LET w == Current.srcs[j].n
                        IN  /\ w \in DOMAIN alloc'.assigned
                            /\ srcs[j] = PReg(alloc'.assigned[w])
                            /\ <<Gpr(alloc'.assigned[w]), w>> \in g
      BY DEF SrcsKept
    <3> DEFINE w == Current.srcs[j].n
    <3>1. /\ w \in DOMAIN alloc.assigned /\ srcs[j] = PReg(alloc.assigned[w])
          /\ <<Gpr(alloc.assigned[w]), w>> \in h /\ w \in Uses(Current)
      BY <1>3, <1>4, <2>8 DEF SrcsKept
    <3> HIDE DEF w
    <3>2. w \in DOMAIN alloc'.assigned /\ alloc'.assigned[w] = alloc.assigned[w]
      BY <2>1, <2>4, <3>1 DEF Keeps
    <3>3. <<Gpr(alloc.assigned[w]), w>> \in g
      BY <2>4, <3>1
    <3> QED
      BY <3>1, <3>2, <3>3 DEF w
  <2>10. SrcsOK(Current, srcs, g)
    BY <1>3, <2>9 DEF SrcsOK, SrcsKept
  <2>11. SrcsOK(Current, srcs', g) /\ SrcsKept(alloc', Current, srcs', g)
    <3>1. Current.srcs[Len(srcs) + 1] = src
      BY <1>3, <1>6
    <3>2. v \in DOMAIN alloc'.assigned /\ PReg(o.preg) = PReg(alloc'.assigned[v])
          /\ <<Gpr(alloc'.assigned[v]), v>> \in g
      BY <2>1, <2>4
    <3>3. src.n \in DOMAIN alloc'.assigned /\ PReg(o.preg) = PReg(alloc'.assigned[src.n])
          /\ <<Gpr(alloc'.assigned[src.n]), src.n>> \in g
      BY <3>2 DEF v
    <3> HIDE DEF src
    <3>4. SrcsOK(Current, Append(srcs, PReg(o.preg)), g) /\ SrcsKept(alloc', Current, Append(srcs, PReg(o.preg)), g)
      BY <1>3, <1>9, <2>9, <2>10, <3>1, <3>3, SourceAdded
    <3> QED
      BY <2>1, <3>4
  <2>12. ASSUME NEW c \in DOMAIN func, c > block PROVE Codes'[c] = <<>>
    <3>1. c \in DOMAIN Codes /\ c # block
      <4>1. block \in Nat
        BY <1>1, <1>4, CodesDomain
      <4> QED
        BY <1>1, <2>12, <4>1 DEF Codes, BlocksOK
    <3>2. Codes'[c] = Codes[c]
      BY <2>5, <3>1
    <3> QED
      BY <1>1, <2>12, <3>2
  <2>13. Fits(alloc', g, Needed)
    BY <2>1, <2>4
  <2> QED
    BY <1>7, <2>1, <2>5, <2>6, <2>7, <2>11, <2>12, <2>13
<1> QED
  BY <1>8, <1>9

LEMMA NextPartKeeps ==
  ASSUME Ready, NextPart, UNCHANGED <<at, idx, holds>>
  PROVE  RunInv'
<1>0. /\ ~AtTerminator /\ step \in {"read", "free"} /\ s = Len(Current.srcs) + 1 /\ s' = 1
      /\ step' = IF step = "read" THEN "free" ELSE "write"
      /\ func' = func /\ live_out' = live_out /\ block' = block /\ k' = k /\ phase' = phase
      /\ srcs' = srcs /\ alloc' = alloc /\ blocks' = blocks
      /\ at' = at /\ idx' = idx /\ holds' = holds
  BY DEF NextPart, InSyllable, input
<1>1. /\ LiveOutOK /\ BlocksOK /\ at = 1 /\ idx = 1 /\ KnownOK /\ phase = "alloc"
      /\ \A c \in DOMAIN func : c > block => Codes[c] = <<>>
  BY DEF Ready, RunInv, Emitting
<1>2. PICK h : Emitted(h)
  BY DEF Ready, RunInv, Emitting
<1>3. /\ LiveOutOK' /\ BlocksOK' /\ KnownOK' /\ Codes' = Codes
      /\ Current' = Current /\ AtTerminator' = AtTerminator
  BY <1>0, <1>1 DEF LiveOutOK, BlocksOK, KnownOK, SlotsOK, Codes, Current, AtTerminator, Syllables
<1>4. /\ func \in Functions /\ block \in DOMAIN func /\ k \in DOMAIN func[block].syllables
      /\ Len(Current.srcs) \in Nat
  BY <1>0, ReadySyllable DEF Syllables
<1>5. Needed' \subseteq Needed
  <2>1. Needed' = ReadFrom(func, <<block, k + 1>>) \cap DefinedBefore(func, <<block, k>>)
    BY <1>0 DEF Needed
  <2>2. ReadFrom(func, <<block, k + 1>>) \subseteq ReadFrom(func, <<block, k>>)
    BY <1>4, NextPlace
  <2>3. Needed = ReadFrom(func, <<block, k>>) \cap DefinedBefore(func, <<block, k>>) \/ Needed = Needed'
    BY <1>0, <2>1 DEF Needed
  <2> QED
    BY <2>1, <2>2, <2>3
<1>6. PartOK(h)'
  <2>1. /\ IsSequence(srcs) /\ SrcsOK(Current, srcs, h)
        /\ Len(srcs) = IF step = "read" THEN s - 1 ELSE Len(Current.srcs)
    BY <1>0, <1>2 DEF Emitted, PartOK
  <2>2. Len(srcs) = Len(Current.srcs) /\ 1 \in 1 .. (Len(Current.srcs) + 1)
    BY <1>0, <1>4, <2>1
  <2>3. step' \in {"free", "write"} /\ step' # "read"
    BY <1>0
  <2> QED
    BY <1>0, <1>3, <2>1, <2>2, <2>3 DEF PartOK
<1>7. Fits(alloc, h, Needed')
  BY <1>2, <1>5, FitsLess DEF Emitted
<1>8. Emitted(h)'
  BY <1>0, <1>2, <1>3, <1>6, <1>7 DEF Emitted
<1>9. Emitting'
  BY <1>0, <1>1, <1>3, <1>8 DEF Emitting
<1> QED
  BY <1>0, <1>1, <1>3, <1>9 DEF RunInv

LEMMA FreeSourceKeeps ==
  ASSUME Ready, FreeSource, UNCHANGED <<at, idx, holds>>
  PROVE  RunInv'
<1> DEFINE src == Current.srcs[s]
<1>0. /\ ~AtTerminator /\ step = "free" /\ s <= Len(Current.srcs) /\ s' = s + 1 /\ step' = step
      /\ func' = func /\ live_out' = live_out /\ block' = block /\ k' = k /\ phase' = phase
      /\ srcs' = srcs /\ blocks' = blocks
      /\ at' = at /\ idx' = idx /\ holds' = holds
      /\ alloc' = IF src.kind = "VReg" /\ src # Current.dst /\ CanFreeAfter(src.n)
                    THEN FreeVReg(alloc, src.n) ELSE alloc
  BY DEF FreeSource, InSyllable, input
<1>1. /\ LiveOutOK /\ BlocksOK /\ at = 1 /\ idx = 1 /\ KnownOK /\ phase = "alloc"
      /\ \A c \in DOMAIN func : c > block => Codes[c] = <<>>
  BY DEF Ready, RunInv, Emitting
<1>2. PICK h : Emitted(h)
  BY DEF Ready, RunInv, Emitting
<1>3. /\ LiveOutOK' /\ BlocksOK' /\ Codes' = Codes /\ Needed' = Needed
      /\ Current' = Current /\ AtTerminator' = AtTerminator
  BY <1>0, <1>1 DEF LiveOutOK, BlocksOK, Codes, Current, AtTerminator, Syllables, Needed
<1>4. /\ func \in Functions /\ block \in DOMAIN func /\ k \in DOMAIN Syllables /\ k \in Nat
      /\ Current = func[block].syllables[k]
      /\ Len(Current.srcs) \in Nat /\ DOMAIN Current.srcs = 1 .. Len(Current.srcs)
      /\ \A j \in DOMAIN Current.srcs : Current.srcs[j].kind = "VReg" => Current.srcs[j].n \in Uses(Current)
      /\ Uses(Current) \subseteq DefinedBefore(func, <<block, k>>)
  BY <1>0, ReadySyllable
<1>5. /\ s \in 1 .. (Len(Current.srcs) + 1) /\ IsSequence(srcs) /\ Len(srcs) = Len(Current.srcs)
      /\ SrcsOK(Current, srcs, h)
  BY <1>0, <1>2 DEF Emitted, PartOK
<1>6. s + 1 \in 1 .. (Len(Current.srcs) + 1) /\ s \in DOMAIN Current.srcs
  BY <1>0, <1>4, <1>5
<1>7. PartOK(h)'
  BY <1>0, <1>3, <1>5, <1>6 DEF PartOK
<1>8. Owns(alloc, Allocatable) /\ Fits(alloc, h, Needed)
  BY <1>2 DEF Ready, Inv, Emitted
<1>9. Fits(alloc', h, Needed)
  <2>1. CASE src.kind = "VReg" /\ src # Current.dst /\ CanFreeAfter(src.n)
    <3>1. src.n \in DefinedBefore(func, <<block, k + 1>>)
      <4>1. src.n \in DefinedBefore(func, <<block, k>>)
        BY <1>4, <1>6, <2>1
      <4>2. DefinedBefore(func, <<block, k + 1>>) = DefinedBefore(func, <<block, k>>) \cup Defs(func[block].syllables[k])
        BY <1>4, NextPlace DEF Syllables
      <4> QED
        BY <4>1, <4>2
    <3>2. LastUse(src.n) <= k /\ src.n \notin live_out[block]
      BY <1>4, <2>1 DEF CanFreeAfter
    <3>3. StraightCode(func)
      BY DEF Ready
    <3> HIDE DEF src
    <3>4. src.n \notin ReadFrom(func, <<block, k + 1>>)
      BY <1>1, <1>4, <3>1, <3>2, <3>3, NotReadAgain
    <3>5. src.n \notin Needed
      BY <1>0, <3>4 DEF Needed
    <3>6. Fits(FreeVReg(alloc, src.n), h, Needed)
      BY <1>8, <3>5, FitsLess
    <3> QED
      BY <1>0, <2>1, <3>6
  <2>2. CASE ~(src.kind = "VReg" /\ src # Current.dst /\ CanFreeAfter(src.n))
    BY <1>0, <1>8, <2>2
  <2> QED
    BY <2>1, <2>2
<1>10. KnownOK'
  <2>1. DOMAIN alloc'.assigned \subseteq DOMAIN alloc.assigned /\ alloc'.spill_slots = alloc.spill_slots
    BY <1>0, <1>8, FreeKnows
  <2> QED
    BY <1>0, <1>1, <2>1 DEF KnownOK, SlotsOK
<1>11. Emitted(h)'
  BY <1>0, <1>2, <1>3, <1>7, <1>9 DEF Emitted
<1>12. Emitting'
  BY <1>0, <1>1, <1>3, <1>10, <1>11 DEF Emitting
<1> QED
  BY <1>0, <1>1, <1>3, <1>12 DEF RunInv

\* The rewritten syllable is no spill code and reads what it should.
Rewritten(syl, q, h) ==
  PlainSyllable(syl) /\ IsSequence(q) /\ Len(q) = Len(syl.srcs) /\ SrcsOK(syl, q, h)

\* A syllable whose sources were rewritten reads the values it stands for.
LEMMA RewrittenReads ==
  ASSUME NEW syl, NEW q, NEW h, Rewritten(syl, q, h), NEW dst, NEW x, x = Syl(syl.opcode, dst, q)
  PROVE  ~IsSpillCode(x) /\ RightReads(h, x, syl) /\ x.dst = dst /\ x.opcode = syl.opcode
<1>0. PlainSyllable(syl) /\ IsSequence(q) /\ Len(q) = Len(syl.srcs) /\ SrcsOK(syl, q, h)
  BY DEF Rewritten
<1>1. x.srcs = q /\ x.dst = dst /\ x.opcode = syl.opcode
  BY DEF Syl
<1>2. /\ Len(q) \in Nat /\ DOMAIN q = 1 .. Len(q) /\ DOMAIN syl.srcs = 1 .. Len(q)
  BY <1>0 DEF PlainSyllable, IsSequence
<1>3. ASSUME NEW j \in DOMAIN q PROVE q[j].kind # "Stack"
  <2>1. CASE syl.srcs[j].kind = "VReg"
    <3>1. PICK p : q[j] = PReg(p)
      BY <1>0, <1>2, <2>1 DEF SrcsOK
    <3> QED
      BY <3>1 DEF PReg
  <2>2. CASE syl.srcs[j].kind # "VReg"
    BY <1>0, <1>2, <2>2 DEF SrcsOK, PlainSyllable
  <2> QED
    BY <2>1, <2>2
<1>4. ~IsSpillCode(x)
  <2>1. ASSUME q # <<>> PROVE 1 \in DOMAIN q
    <3>1. q \in Seq(ValuesOf(q))
      BY <1>0, InSeqOfValues
    <3>2. Len(q) # 0
      BY <2>1, <3>1, EmptySeq
    <3> QED
      BY <1>0, <1>2, <3>2
  <2> QED
    BY <1>1, <1>3, <2>1 DEF IsSpillCode
<1>5. ASSUME NEW j \in DOMAIN q, syl.srcs[j].kind = "VReg"
      PROVE  <<SourceAt(x.opcode, q[j].n), syl.srcs[j].n>> \in h
  <2>1. PICK p : q[j] = PReg(p) /\ <<Gpr(p), syl.srcs[j].n>> \in h
    BY <1>0, <1>2, <1>5 DEF SrcsOK
  <2>2. q[j].n = p
    BY <2>1 DEF PReg
  <2>3. SourceAt(x.opcode, p) = Gpr(p)
    BY <1>0, <1>1 DEF SourceAt, PlainSyllable
  <2> QED
    BY <2>1, <2>2, <2>3
<1>6. RightReads(h, x, syl)
  BY <1>1, <1>5 DEF RightReads
<1> QED
  BY <1>1, <1>4, <1>6

\* Spill code and the rewritten syllable at the end of the last block.
LEMMA TraceRewritten ==
  ASSUME NEW f, NEW C, NEW b \in Nat \ {0}, 1 .. b \subseteq DOMAIN C, NEW g, NEW h, NEW n,
         Traced(f, C, b, g, h, n), NEW code, NEW e, RunsOne(code, h, e),
         NEW x, ~IsSpillCode(x), RightReads(e, x, f[b].syllables[1 + n])
  PROVE  Traced(f, [C EXCEPT ![b] = @ \o Append(code, x)], b, g,
                PlainEffect(e, x, f[b].syllables[1 + n]), n + 1)
<1> DEFINE D == [C EXCEPT ![b] = @ \o code]
<1>0. b \in 1 .. b /\ b \in DOMAIN C
  OBVIOUS
<1>1. Traced(f, D, b, g, e, n)
  BY TraceRuns DEF RunsTwo
<1>2. DOMAIN D = DOMAIN C /\ D[b] = C[b] \o code
  BY <1>0
<1>3. IsSequence(C[b])
  BY <1>0 DEF Traced, Trace
<1>4. C[b] \o Append(code, x) = Append(C[b] \o code, x)
  <2>1. CASE code = <<>>
    BY <1>3, <2>1, ConcatAny
  <2>2. ASSUME NEW y, code = <<y>> PROVE C[b] \o Append(code, x) = Append(C[b] \o code, x)
    BY <1>3, <2>2, ConcatAny
  <2> QED
    BY <2>1, <2>2 DEF RunsOne
<1>5. [D EXCEPT ![b] = Append(@, x)] = [C EXCEPT ![b] = @ \o Append(code, x)]
  <2> DEFINE u == C[b] \o code
             w == Append(u, x)
  <2>1. [C EXCEPT ![b] = @ \o Append(code, x)] = [C EXCEPT ![b] = w]
    BY <1>4
  <2>2. D = [C EXCEPT ![b] = u] /\ [D EXCEPT ![b] = Append(@, x)] = [D EXCEPT ![b] = w]
    BY <1>2
  <2> HIDE DEF u, w, D
  <2> QED
    BY <1>0, <2>1, <2>2
<1> HIDE DEF D
<1>6. Traced(f, [D EXCEPT ![b] = Append(@, x)], b, g, Effect(e, x, f[b].syllables[1 + n]), n + 1)
  BY <1>1, <1>2, TraceAppend
<1> QED
  BY <1>5, <1>6 DEF Effect

\* A syllable of which no source has been rewritten.
LEMMA NothingRead ==
  ASSUME NEW f \in Functions, StraightCode(f), NEW b \in DOMAIN f,
         NEW n \in 1 .. (Len(f[b].syllables) + 1), n # Len(f[b].syllables) + 1, NEW A, NEW h
  PROVE  LET syl == f[b].syllables[n]
         IN  /\ 1 \in 1 .. (Len(syl.srcs) + 1)
             /\ IsSequence(<<>>) /\ Len(<<>>) = 0
             /\ SrcsOK(syl, <<>>, h) /\ SrcsKept(A, syl, <<>>, h)
<1>1. n \in DOMAIN f[b].syllables
  <2>1. Len(f[b].syllables) \in Nat /\ DOMAIN f[b].syllables = 1 .. Len(f[b].syllables)
    BY PlacesOf
  <2> QED
    BY <2>1
<1>2. PlainSyllable(f[b].syllables[n])
  <2>1. <<b, n>> \in Places(f) /\ SyllableAt(f, <<b, n>>) = f[b].syllables[n]
    BY <1>1, PlacesOf
  <2>2. \A p \in Places(f) : PlainSyllable(SyllableAt(f, p))
    BY DEF StraightCode
  <2> QED
    BY <2>1, <2>2
<1>3. Len(f[b].syllables[n].srcs) \in Nat
  BY <1>2 DEF PlainSyllable, IsSequence
<1>4. 1 \in 1 .. (Len(f[b].syllables[n].srcs) + 1)
  BY <1>3
<1>5. IsSequence(<<>>) /\ Len(<<>>) = 0 /\ 1 .. 0 = {}
  <2>1. <<>> \in Seq({}) /\ Len(<<>>) = 0 /\ 1 .. 0 = {}
    OBVIOUS
  <2> QED
    BY <2>1, SeqIsSequence
<1>6. \A syl : SrcsOK(syl, <<>>, h) /\ SrcsKept(A, syl, <<>>, h)
  BY <1>5 DEF SrcsOK, SrcsKept
<1> QED
  BY <1>4, <1>5, <1>6

\* The effect of a syllable on a fixed register leaves the allocated ones alone.
LEMMA FixedKeeps ==
  ASSUME NEW A, Owns(A, Allocatable), NEW h, NEW S, Fits(A, h, S),
         NEW syl, PlainSyllable(syl), syl.dst.kind # "VReg",
         NEW x, x.dst = syl.dst, x.opcode = syl.opcode
  PROVE  Fits(A, PlainEffect(h, x, syl), S)
<1>1. CASE syl.dst.kind # "PReg"
  BY <1>1 DEF PlainEffect
<1>2. CASE syl.dst.kind = "PReg"
  <2> DEFINE vs == IF x.opcode = "mov" THEN Uses(syl) ELSE {}
             p == syl.dst.n
             e == Put(h, Gpr(p), vs)
  <2>1. PlainEffect(h, x, syl) = e
    BY <1>2 DEF PlainEffect, DestAt, PlainSyllable
  <2>2. p \notin Allocatable
    BY <1>2 DEF PlainSyllable
  <2> HIDE DEF vs, p
  <2>3. \A l, v : l # Gpr(p) /\ <<l, v>> \in h => <<l, v>> \in e
    BY PutIn
  <2> HIDE DEF e
  <2>4. \A v \in DOMAIN A.assigned : Gpr(A.assigned[v]) # Gpr(p)
    BY <2>2, Locations DEF Owns
  <2>5. \A a : Slot(a) # Gpr(p)
    BY Locations
  <2>6. Fits(A, e, S)
    BY <2>3, <2>4, <2>5 DEF Fits
  <2> QED
    BY <2>1, <2>6
<1> QED
  BY <1>1, <1>2

\* The effect of a syllable that defines v in register p.
LEMMA DefineKeeps ==
  ASSUME NEW B, NEW g, NEW S, NEW v, NEW p, v \in DOMAIN B.assigned, B.assigned[v] = p,
         \A w \in S : w # v =>
           \/ w \in DOMAIN B.assigned /\ B.assigned[w] # p /\ <<Gpr(B.assigned[w]), w>> \in g
           \/ w \notin DOMAIN B.assigned /\ w \in DOMAIN B.spill_slots /\ <<Slot(B.spill_slots[w]), w>> \in g,
         NEW syl, PlainSyllable(syl), syl.dst.kind = "VReg", syl.dst.n = v,
         NEW x, x.dst = PReg(p), x.opcode = syl.opcode
  PROVE  Fits(B, PlainEffect(g, x, syl), S \cup {v})
<1> DEFINE e == PlainEffect(g, x, syl)
           u == {y \in Put(g, Gpr(p), {}) : y[2] # v}
<1>1. e = u \cup {<<Gpr(p), v>>}
  <2>1. x.dst.kind = "PReg" /\ x.dst.n = p
    BY DEF PReg
  <2>2. DestAt(x.opcode, p) = Gpr(p)
    BY DEF DestAt, PlainSyllable
  <2> QED
    BY <2>1, <2>2 DEF PlainEffect
<1>2. ASSUME NEW l, NEW w, l # Gpr(p), <<l, w>> \in g, w # v PROVE <<l, w>> \in u
  <2>1. <<l, w>> \in Put(g, Gpr(p), {})
    BY <1>2, PutIn
  <2>2. <<l, w>>[2] = w
    OBVIOUS
  <2> QED
    BY <1>2, <2>1, <2>2
<1> HIDE DEF e, u
<1>3. \A w \in S : w # v =>
        \/ w \in DOMAIN B.assigned /\ <<Gpr(B.assigned[w]), w>> \in e
        \/ w \notin DOMAIN B.assigned /\ w \in DOMAIN B.spill_slots /\ <<Slot(B.spill_slots[w]), w>> \in e
  <2> SUFFICES ASSUME NEW w \in S, w # v
               PROVE  \/ w \in DOMAIN B.assigned /\ <<Gpr(B.assigned[w]), w>> \in e
                      \/ w \notin DOMAIN B.assigned /\ w \in DOMAIN B.spill_slots /\ <<Slot(B.spill_slots[w]), w>> \in e
    OBVIOUS
  <2>1. CASE w \in DOMAIN B.assigned
    <3>1. B.assigned[w] # p /\ <<Gpr(B.assigned[w]), w>> \in g
      BY <2>1
    <3>2. Gpr(B.assigned[w]) # Gpr(p)
      BY <3>1, Locations
    <3> QED
      BY <1>1, <1>2, <2>1, <3>1, <3>2
  <2>2. CASE w \notin DOMAIN B.assigned
    <3>1. w \in DOMAIN B.spill_slots /\ <<Slot(B.spill_slots[w]), w>> \in g
      BY <2>2
    <3>2. Slot(B.spill_slots[w]) # Gpr(p)
      BY Locations
    <3> QED
      BY <1>1, <1>2, <2>2, <3>1, <3>2
  <2> QED
    BY <2>1, <2>2
<1>4. v \in DOMAIN B.assigned /\ <<Gpr(B.assigned[v]), v>> \in e
  BY <1>1
<1>5. Fits(B, e, S \cup {v})
  BY <1>3, <1>4 DEF Fits
<1> QED
  BY <1>5 DEF e

\* After the destination: the next syllable starts from a state that fits.
LEMMA SyllableDone ==
  ASSUME Ready, RewriteDst, UNCHANGED <<at, idx, holds>>,
         NEW code, EmitCode(code), NEW g, Traced(func, [Codes EXCEPT ![block] = @ \o code], block, holds, g, k),
         Fits(alloc', g, ReadFrom(func, <<block, k + 1>>) \cap DefinedBefore(func, <<block, k + 1>>)),
         SlotsOK(alloc'),
         DOMAIN alloc'.assigned \subseteq DefinedBefore(func, <<block, k + 1>>),
         DOMAIN alloc'.spill_slots \subseteq DefinedBefore(func, <<block, k + 1>>)
  PROVE  RunInv'
<1>0. /\ ~AtTerminator /\ k' = k + 1 /\ step' = "read" /\ s' = 1 /\ srcs' = <<>>
      /\ func' = func /\ live_out' = live_out /\ block' = block /\ phase' = phase
      /\ at' = at /\ idx' = idx /\ holds' = holds
  BY DEF RewriteDst, InSyllable, input
<1>1. /\ LiveOutOK /\ BlocksOK /\ at = 1 /\ idx = 1 /\ phase = "alloc" /\ StraightCode(func)
      /\ \A c \in DOMAIN func : c > block => Codes[c] = <<>>
  BY DEF Ready, RunInv, Emitting
<1>2. func \in Functions /\ block \in DOMAIN func /\ k \in DOMAIN Syllables /\ k \in Nat
  BY <1>0, ReadySyllable
<1>3. BlocksOK' /\ Codes' = [Codes EXCEPT ![block] = @ \o code]
  BY <1>0, <1>1, <1>2, EmitCodeOK
<1>4. ASSUME NEW c \in DOMAIN func, c > block PROVE Codes'[c] = <<>>
  <2>1. c \in DOMAIN Codes /\ c # block
    <3>1. block \in Nat
      BY <1>1, <1>2, CodesDomain
    <3> QED
      BY <1>1, <1>4, <3>1 DEF Codes, BlocksOK
  <2>2. Codes'[c] = Codes[c]
    BY <1>3, <2>1
  <2> QED
    BY <1>1, <1>4, <2>2
<1>5. k + 1 \in 1 .. (Len(Syllables) + 1) /\ (k + 1) - 1 = k
  <2>1. DOMAIN Syllables = 1 .. Len(Syllables) /\ Len(Syllables) \in Nat
    BY <1>2, PlacesOf DEF Syllables
  <2> QED
    BY <1>2, <2>1
<1>6. PartOK(g)'
  <2>1. CASE k + 1 = Len(Syllables) + 1
    <3>1. AtTerminator'
      BY <1>0, <2>1 DEF AtTerminator, Syllables
    <3> QED
      BY <1>0, <3>1 DEF PartOK
  <2>2. CASE k + 1 # Len(Syllables) + 1
    <3>1. ~AtTerminator' /\ Current' = func[block].syllables[k + 1]
      BY <1>0, <2>2 DEF AtTerminator, Syllables, Current
    <3> DEFINE syl == func[block].syllables[k + 1]
    <3>2. /\ 1 \in 1 .. (Len(syl.srcs) + 1)
          /\ IsSequence(<<>>) /\ Len(<<>>) = 0
          /\ SrcsOK(syl, <<>>, g) /\ SrcsKept(alloc', syl, <<>>, g)
      BY <1>1, <1>2, <1>5, <2>2, NothingRead DEF Syllables
    <3> HIDE DEF syl
    <3>3. Current' = syl /\ 0 = 1 - 1
      BY <3>1 DEF syl
    <3> QED
      BY <1>0, <3>1, <3>2, <3>3 DEF PartOK
  <2> QED
    BY <2>1, <2>2
<1>7. Needed' = ReadFrom(func, <<block, k + 1>>) \cap DefinedBefore(func, <<block, k + 1>>)
  BY <1>0 DEF Needed
<1>8. Emitted(g)'
  BY <1>0, <1>3, <1>5, <1>6, <1>7 DEF Emitted
<1>9. KnownOK'
  BY <1>0 DEF KnownOK
<1>10. Emitting'
  BY <1>0, <1>1, <1>4, <1>8, <1>9 DEF Emitting
<1>11. LiveOutOK'
  BY <1>0, <1>1 DEF LiveOutOK
<1> QED
  BY <1>0, <1>1, <1>3, <1>10, <1>11 DEF RunInv

LEMMA RewriteDstKeeps ==
  ASSUME Ready, RewriteDst, UNCHANGED <<at, idx, holds>>
  PROVE  RunInv'
<1> DEFINE dst == Current.dst
           R == ReadFrom(func, <<block, k + 1>>)
           D == DefinedBefore(func, <<block, k>>)
           E == DefinedBefore(func, <<block, k + 1>>)
<1>0. ~AtTerminator /\ step = "write"
  BY DEF RewriteDst, InSyllable
<1>1. BlocksOK /\ KnownOK /\ StraightCode(func) /\ LiveOutOK
  BY DEF Ready, RunInv, Emitting
<1>2. PICK h : Emitted(h)
  BY DEF Ready, RunInv, Emitting
<1>3. /\ func \in Functions /\ block \in DOMAIN func /\ k \in DOMAIN Syllables /\ k \in Nat
      /\ Current = func[block].syllables[k] /\ PlainSyllable(Current)
  BY <1>0, ReadySyllable
<1>4. IsSequence(srcs) /\ Len(srcs) = Len(Current.srcs) /\ SrcsOK(Current, srcs, h)
  BY <1>0, <1>2 DEF Emitted, PartOK
<1>5. Owns(alloc, Allocatable) /\ SlotsOK(alloc)
  BY <1>1 DEF Ready, Inv, KnownOK
<1>6. Fits(alloc, h, R \cap D) /\ Traced(func, Codes, block, holds, h, k - 1)
  <2>1. Needed = R \cap D
    BY <1>0 DEF Needed
  <2> QED
    BY <1>2, <2>1 DEF Emitted
<1>7. E = D \cup Defs(Current)
  BY <1>3, NextPlace DEF Syllables
<1>8. block \in Nat \ {0} /\ 1 .. block \subseteq DOMAIN Codes
  BY <1>1, <1>3, CodesDomain
<1>9. 1 + (k - 1) = k /\ (k - 1) + 1 = k
  BY <1>3
<1>10. DOMAIN alloc.assigned \subseteq D /\ DOMAIN alloc.spill_slots \subseteq D
  BY <1>1 DEF KnownOK
<1>11. CASE dst.kind # "VReg"
  <2> DEFINE x == Syl(Current.opcode, dst, srcs)
             g == PlainEffect(h, x, Current)
  <2>1. EmitCode(<<x>>) /\ alloc' = alloc
    BY <1>11 DEF RewriteDst
  <2>2. ~IsSpillCode(x) /\ RightReads(h, x, Current) /\ x.dst = dst /\ x.opcode = Current.opcode
    <3>1. Rewritten(Current, srcs, h)
      BY <1>3, <1>4 DEF Rewritten
    <3>2. x = Syl(Current.opcode, dst, srcs)
      OBVIOUS
    <3> HIDE DEF x, dst
    <3> QED
      BY <3>1, <3>2, RewrittenReads
  <2>3. E = D
    <3>1. Defs(Current) = {}
      BY <1>11 DEF Defs, VRegsIn
    <3> QED
      BY <1>7, <3>1
  <2>4. Fits(alloc, g, R \cap D)
    <3> HIDE DEF x, R, D
    <3> QED
      BY <1>3, <1>5, <1>6, <1>11, <2>2, FixedKeeps
  <2>5. Traced(func, [Codes EXCEPT ![block] = @ \o <<x>>], block, holds, g, k)
    <3>1. RunsOne(<<>>, h, h)
      BY DEF RunsOne
    <3>2. Append(<<>>, x) = <<x>>
      <4> HIDE DEF x
      <4> QED
        OBVIOUS
    <3>3. func[block].syllables[1 + (k - 1)] = Current
      BY <1>3, <1>9
    <3> HIDE DEF x
    <3>4. Traced(func, [Codes EXCEPT ![block] = @ \o Append(<<>>, x)], block, holds,
                 PlainEffect(h, x, func[block].syllables[1 + (k - 1)]), (k - 1) + 1)
      BY <1>6, <1>8, <2>2, <3>1, <3>3, TraceRewritten
    <3> QED
      BY <1>9, <3>2, <3>3, <3>4
  <2>6. /\ Fits(alloc', g, R \cap E) /\ SlotsOK(alloc')
        /\ DOMAIN alloc'.assigned \subseteq E /\ DOMAIN alloc'.spill_slots \subseteq E
    BY <1>5, <1>10, <2>1, <2>3, <2>4
  <2> HIDE DEF x, g
  <2> QED
    BY <2>1, <2>5, <2>6, SyllableDone
<1>12. CASE dst.kind = "VReg"
  <2> DEFINE v == dst.n
  <2>1. PICK o \in PregForVReg(alloc, v, Uses(Current)) :
          /\ alloc' = IF LastUse(v) <= k /\ v \notin live_out[block] THEN FreeVReg(o.alloc, v) ELSE o.alloc
          /\ EmitCode(Append(o.prefix, Syl(Current.opcode, PReg(o.preg), srcs)))
    BY <1>12 DEF RewriteDst
  <2>2. Defs(Current) = {v}
    BY <1>12 DEF Defs, VRegsIn
  <2>3. v \notin D
    <3> SUFFICES ASSUME v \in D PROVE FALSE
      OBVIOUS
    <3>1. PICK q \in Places(func) : Before(q, <<block, k>>) /\ v \in Defs(SyllableAt(func, q))
      BY ReadFromHas
    <3>2. <<block, k>> \in Places(func) /\ SyllableAt(func, <<block, k>>) = Current
      BY <1>3, PlacesOf DEF Syllables
    <3>3. Defs(SyllableAt(func, q)) \cap Defs(SyllableAt(func, <<block, k>>)) # {}
      BY <2>2, <3>1, <3>2
    <3>4. q = <<block, k>>
      BY <1>1, <3>2, <3>3 DEF StraightCode
    <3>5. block \in Nat
      BY <1>8
    <3> QED
      BY <1>3, <3>1, <3>4, <3>5 DEF Before
  <2>4. v \notin DOMAIN alloc.assigned /\ v \notin DOMAIN alloc.spill_slots
    BY <1>10, <2>3
  <2> DEFINE p == o.preg
             B == o.alloc
             S == R \cap D
             x == Syl(Current.opcode, PReg(p), srcs)
  <2> HIDE DEF v
  <2>5. PICK e : /\ RunsOne(o.prefix, h, e) /\ SlotsOK(B) /\ KeepsGprs(h, e)
                 /\ Keeps(alloc, B, Uses(Current))
                 /\ v \in DOMAIN B.assigned /\ B.assigned[v] = p
                 /\ \A w \in S : w # v =>
                      \/ w \in DOMAIN B.assigned /\ B.assigned[w] # p /\ <<Gpr(B.assigned[w]), w>> \in e
                      \/ /\ w \notin DOMAIN B.assigned /\ w \in DOMAIN B.spill_slots
                         /\ <<Slot(B.spill_slots[w]), w>> \in e
                 /\ \A w \in DOMAIN B.assigned : w = v \/ w \in DOMAIN alloc.assigned
    <3> HIDE DEF R, D
    <3> QED
      BY <1>5, <1>6, <2>4, NewRegisterFits
  <2>6. SrcsOK(Current, srcs, e)
    BY <1>4, <2>5 DEF SrcsOK, KeepsGprs
  <2>7. ~IsSpillCode(x) /\ RightReads(e, x, Current) /\ x.dst = PReg(p) /\ x.opcode = Current.opcode
    <3>1. Rewritten(Current, srcs, e)
      BY <1>3, <1>4, <2>6 DEF Rewritten
    <3>2. x = Syl(Current.opcode, PReg(p), srcs)
      OBVIOUS
    <3> HIDE DEF x, p
    <3> QED
      BY <3>1, <3>2, RewrittenReads
  <2> DEFINE g == PlainEffect(e, x, Current)
  <2>8. EmitCode(Append(o.prefix, x))
    BY <2>1
  <2> HIDE DEF x, S, B, p
  <2>9. Traced(func, [Codes EXCEPT ![block] = @ \o Append(o.prefix, x)], block, holds, g, k)
    <3>1. func[block].syllables[1 + (k - 1)] = Current
      BY <1>3, <1>9
    <3>2. Traced(func, [Codes EXCEPT ![block] = @ \o Append(o.prefix, x)], block, holds,
                 PlainEffect(e, x, func[block].syllables[1 + (k - 1)]), (k - 1) + 1)
      BY <1>6, <1>8, <2>5, <2>7, <3>1, TraceRewritten
    <3> QED
      BY <1>9, <3>1, <3>2
  <2>10. Fits(B, g, S \cup {v})
    <3>1. Current.dst.kind = "VReg" /\ Current.dst.n = v
      BY <1>12 DEF v
    <3> QED
      BY <1>3, <2>5, <2>7, <3>1, DefineKeeps
  <2> HIDE DEF g
  <2>11. R \cap E \subseteq S \cup {v}
    BY <1>7, <2>2 DEF S
  <2>12. Owns(B, Allocatable)
    BY <1>5, PregForVRegOwns DEF B
  <2>13. Fits(alloc', g, R \cap E)
    <3>1. CASE LastUse(v) <= k /\ v \notin live_out[block]
      <4>1. v \in DefinedBefore(func, <<block, k + 1>>)
        BY <1>7, <2>2
      <4>2. v \notin R
        BY <1>1, <1>3, <3>1, <4>1, NotReadAgain
      <4>3. alloc' = FreeVReg(B, v)
        BY <2>1, <3>1 DEF B
      <4>4. v \notin R \cap E
        BY <4>2
      <4> HIDE DEF R, E
      <4> QED
        BY <2>10, <2>11, <2>12, <4>3, <4>4, FitsLess
    <3>2. CASE ~(LastUse(v) <= k /\ v \notin live_out[block])
      <4>1. alloc' = B
        BY <2>1, <3>2 DEF B
      <4> HIDE DEF R, E
      <4> QED
        BY <2>10, <2>11, <4>1, FitsLess
    <3> QED
      BY <3>1, <3>2
  <2>14. DOMAIN alloc'.assigned \subseteq DOMAIN B.assigned /\ alloc'.spill_slots = B.spill_slots
    BY <2>1, <2>12, FreeKnows DEF B
  <2>15. D \subseteq E /\ v \in E
    BY <1>7, <2>2
  <2> HIDE DEF R, D, E
  <2>16. DOMAIN B.assigned \subseteq E /\ DOMAIN B.spill_slots \subseteq E
    <3>1. \A w \in DOMAIN B.assigned : w \in E
      BY <1>10, <2>5, <2>15
    <3>2. \A w \in DOMAIN B.spill_slots : w \in E
      BY <1>10, <2>5, <2>15 DEF Keeps
    <3> QED
      BY <3>1, <3>2
  <2>17. SlotsOK(alloc')
    BY <2>5, <2>14 DEF SlotsOK
  <2>18. DOMAIN alloc'.assigned \subseteq E /\ DOMAIN alloc'.spill_slots \subseteq E
    BY <2>14, <2>16
  <2> QED
    BY <2>8, <2>9, <2>13, <2>17, <2>18, SyllableDone DEF R, E
<1> QED
  BY <1>11, <1>12

LEMMA RewriteTerminatorKeeps ==
  ASSUME Ready, RewriteTerminator, UNCHANGED <<at, idx, holds>>
  PROVE  RunInv'
<1>0. /\ AtTerminator /\ block' = block + 1 /\ k' = 1 /\ step' = step /\ s' = s /\ srcs' = srcs
      /\ phase' = IF block = Len(func) THEN "done" ELSE "alloc"
      /\ func' = func /\ live_out' = live_out
      /\ at' = at /\ idx' = idx /\ holds' = holds
  BY DEF RewriteTerminator, NextBlock, input
<1>1. /\ LiveOutOK /\ BlocksOK /\ at = 1 /\ idx = 1 /\ KnownOK /\ phase = "alloc" /\ StraightCode(func)
      /\ \A c \in DOMAIN func : c > block => Codes[c] = <<>>
  BY DEF Ready, RunInv, Emitting
<1>2. PICK h : Emitted(h)
  BY DEF Ready, RunInv, Emitting
<1>3. func \in Functions /\ block \in DOMAIN func
  BY DEF Ready, Inv, CursorOK
<1>4. alloc' = alloc /\ blocks' = blocks
  BY <1>1, <1>3 DEF RewriteTerminator, StraightCode
<1>5. LiveOutOK' /\ BlocksOK' /\ Codes' = Codes
  BY <1>0, <1>1, <1>4 DEF LiveOutOK, BlocksOK, Codes
<1>6. Len(func) \in Nat \ {0} /\ DOMAIN func = 1 .. Len(func) /\ block \in Nat \ {0}
  <2>1. Len(func) \in Nat \ {0} /\ DOMAIN func = 1 .. Len(func)
    BY <1>3, PlacesOf
  <2> QED
    BY <1>3, <2>1
<1>7. step = "read" /\ s = 1 /\ srcs = <<>>
  BY <1>0, <1>2 DEF Emitted, PartOK
<1>8. Traced(func, Codes, block, holds, h, k - 1) /\ Fits(alloc, h, Needed)
  BY <1>2 DEF Emitted
<1>9. CASE block = Len(func)
  <2>1. PICK H : Trace(func, Codes, block, H) /\ H[<<1, 1>>] = holds
    BY <1>8 DEF Traced
  <2>2. 1 \in DOMAIN func /\ 1 \in 1 .. block
    BY <1>6
  <2>3. Len(Codes[1]) \in Nat
    BY <2>1, <2>2 DEF Trace, IsSequence
  <2>4. 1 \in 1 .. (Len(Codes[1]) + 1)
    BY <2>3
  <2>5. /\ Trace(func, Codes, Len(func), H)
        /\ at \in DOMAIN func /\ idx \in 1 .. (Len(Codes[at]) + 1) /\ holds = H[<<at, idx>>]
    BY <1>1, <1>9, <2>1, <2>2, <2>4
  <2>6. Followed'
    BY <1>0, <1>5, <2>5 DEF Followed
  <2> QED
    BY <1>0, <1>5, <1>9, <2>6 DEF RunInv
<1>10. CASE block # Len(func)
  <2>1. block + 1 \in DOMAIN func /\ block + 1 > block
    BY <1>3, <1>6, <1>10
  <2>2. Codes[block + 1] = <<>>
    BY <1>1, <2>1
  <2>3. Traced(func, Codes, block + 1, holds, h, 0)
    BY <1>6, <1>8, <2>2, TraceBlock
  <2>4. /\ ReadFrom(func, <<block + 1, 1>>) = ReadFrom(func, <<block, k>>)
        /\ DefinedBefore(func, <<block + 1, 1>>) = DefinedBefore(func, <<block, k>>)
    <3>1. k = Len(func[block].syllables) + 1
      BY <1>0 DEF AtTerminator, Syllables
    <3> QED
      BY <1>3, <3>1, NextBlockPlace
  <2>5. Needed' = Needed
    BY <1>0, <1>7, <2>4 DEF Needed
  <2>6. PartOK(h)'
    <3> DEFINE syls == func[block + 1].syllables
    <3>1. Syllables' = syls
      BY <1>0 DEF Syllables
    <3>2. CASE 1 = Len(syls) + 1
      <4>1. AtTerminator'
        BY <1>0, <3>1, <3>2 DEF AtTerminator
      <4> QED
        BY <1>0, <1>7, <4>1 DEF PartOK
    <3>3. CASE 1 # Len(syls) + 1
      <4>1. ~AtTerminator' /\ Current' = syls[1]
        BY <1>0, <3>1, <3>3 DEF AtTerminator, Current
      <4>2. 1 \in 1 .. (Len(syls) + 1)
        <5>1. Len(syls) \in Nat
          BY <1>3, <2>1, PlacesOf
        <5> QED
          BY <5>1
      <4> DEFINE syl == syls[1]
      <4>3. /\ 1 \in 1 .. (Len(syl.srcs) + 1)
            /\ IsSequence(<<>>) /\ Len(<<>>) = 0
            /\ SrcsOK(syl, <<>>, h) /\ SrcsKept(alloc, syl, <<>>, h)
        BY <1>1, <1>3, <2>1, <3>3, <4>2, NothingRead
      <4> HIDE DEF syl
      <4>4. Current' = syl /\ 0 = 1 - 1
        BY <4>1 DEF syl
      <4> QED
        BY <1>0, <1>4, <1>7, <4>1, <4>3, <4>4 DEF PartOK
    <3> QED
      BY <3>2, <3>3
  <2>7. Emitted(h)'
    <3>1. 1 - 1 = 0
      OBVIOUS
    <3> QED
      BY <1>0, <1>4, <1>5, <1>8, <2>3, <2>5, <2>6, <3>1 DEF Emitted
  <2>8. KnownOK'
    BY <1>0, <1>1, <1>4, <2>4 DEF KnownOK, SlotsOK
  <2>9. \A c \in DOMAIN func : c > block + 1 => Codes[c] = <<>>
    <3>1. \A c \in DOMAIN func : c > block + 1 => c > block
      BY <1>6
    <3> QED
      BY <1>1, <3>1
  <2>10. Emitting'
    BY <1>0, <1>1, <1>5, <2>7, <2>8, <2>9 DEF Emitting
  <2> QED
    BY <1>0, <1>5, <1>10, <2>10 DEF RunInv
<1> QED
  BY <1>9, <1>10

\* The processor, at a syllable of the trace.
LEMMA AtSyllable ==
  ASSUME RunInv, func \in Functions, Running, ~AtEnd
  PROVE  \E H : /\ Trace(func, Codes, Len(func), H)
                /\ at \in DOMAIN func /\ Code = Codes[at]
                /\ idx \in 1 .. Len(Codes[at]) /\ idx + 1 \in 1 .. (Len(Codes[at]) + 1)
                /\ H[<<at, idx + 1>>] = Effect(holds, Now, Origin)
                /\ RightReads(holds, Now, Origin)
                /\ holds = H[<<at, idx>>]
<1>1. phase = "done" /\ at > 0
  BY DEF Running
<1>2. PICK H : /\ Trace(func, Codes, Len(func), H)
               /\ at # 0 => /\ at \in DOMAIN func /\ idx \in 1 .. (Len(Codes[at]) + 1)
                            /\ holds = H[<<at, idx>>]
  BY <1>1 DEF RunInv, Followed
<1>3. Len(func) \in Nat /\ DOMAIN func = 1 .. Len(func) /\ DOMAIN blocks = DOMAIN func
  BY PlacesOf DEF RunInv, BlocksOK
<1>4. at # 0
  BY <1>1
<1>5. at \in DOMAIN func /\ idx \in 1 .. (Len(Codes[at]) + 1) /\ holds = H[<<at, idx>>]
  BY <1>2, <1>4
<1>6. Code = Codes[at]
  BY <1>3, <1>5 DEF Code, Codes
<1>7. IsSequence(Codes[at])
  BY <1>2, <1>3, <1>5 DEF Trace
<1>8. idx \in 1 .. Len(Codes[at]) /\ idx + 1 \in 1 .. (Len(Codes[at]) + 1)
  BY <1>5, <1>6, <1>7 DEF AtEnd, IsSequence
<1>9. TraceStep(func, at, Codes[at], H, idx)
  BY <1>2, <1>3, <1>5, <1>8 DEF Trace
<1>10. Now = Codes[at][idx] /\ Origin = OriginOf(func, at, Codes[at], idx)
  BY <1>6 DEF Now, Origin, OriginOf, Plain
<1>11. H[<<at, idx + 1>>] = Effect(holds, Now, Origin) /\ RightReads(holds, Now, Origin)
  BY <1>5, <1>9, <1>10 DEF TraceStep
<1> QED
  BY <1>2, <1>5, <1>6, <1>8, <1>11

\* Running the allocated code follows the trace built while it was emitted.
LEMMA RunSyllableKeeps ==
  ASSUME RunInv, func \in Functions, RunSpillCode \/ RunSyllable
  PROVE  RunInv'
<1>0. /\ Running /\ ~AtEnd /\ idx' = idx + 1 /\ at' = at
      /\ func' = func /\ live_out' = live_out /\ blocks' = blocks /\ phase' = phase
  BY DEF RunSpillCode, RunSyllable, vars, input
<1>1. PICK H : /\ Trace(func, Codes, Len(func), H)
               /\ at \in DOMAIN func /\ Code = Codes[at]
               /\ idx \in 1 .. Len(Codes[at]) /\ idx + 1 \in 1 .. (Len(Codes[at]) + 1)
               /\ H[<<at, idx + 1>>] = Effect(holds, Now, Origin)
               /\ RightReads(holds, Now, Origin)
               /\ holds = H[<<at, idx>>]
  BY <1>0, AtSyllable
<1>2. \A loc, vs : Overwrite(loc, vs) = Put(holds, loc, vs) /\ Held(loc) = HeldIn(holds, loc)
  BY DEF Overwrite, Put, Held, HeldIn
<1>3. holds' = Effect(holds, Now, Origin)
  <2>1. CASE RunSpillCode
    <3>1. IsSpillCode(Now) /\ holds' = SpillEffect(holds, Now)
      BY <1>2, <2>1 DEF RunSpillCode, SpillEffect
    <3> QED
      BY <3>1 DEF Effect
  <2>2. CASE RunSyllable
    <3>1. ~IsSpillCode(Now) /\ holds' = PlainEffect(holds, Now, Origin)
      BY <1>2, <2>2 DEF RunSyllable, PlainEffect
    <3> QED
      BY <3>1 DEF Effect
  <2> QED
    BY <2>1, <2>2
<1>4. Codes' = Codes /\ BlocksOK' /\ LiveOutOK'
  BY <1>0 DEF Codes, RunInv, BlocksOK, LiveOutOK
<1>5. Followed'
  BY <1>0, <1>1, <1>3, <1>4 DEF Followed
<1> QED
  BY <1>0, <1>4, <1>5 DEF RunInv, Running

\* The end of a block leads to the next one, or ends the run.
LEMMA RunTerminatorKeeps ==
  ASSUME RunInv, StraightCode(func), func \in Functions, RunTerminator
  PROVE  RunInv'
<1>0. /\ phase = "done" /\ at > 0 /\ AtEnd /\ idx' = 1 /\ holds' = holds
      /\ func' = func /\ live_out' = live_out /\ blocks' = blocks /\ phase' = phase
      /\ at' \in IF func[at].terminator.op = "ret" THEN {0}
                 ELSE {c \in DOMAIN func : Follows(func, at, c)}
  BY DEF RunTerminator, Running, vars, input
<1>1. PICK H : /\ Trace(func, Codes, Len(func), H)
               /\ at # 0 => /\ at \in DOMAIN func /\ idx \in 1 .. (Len(Codes[at]) + 1)
                            /\ holds = H[<<at, idx>>]
  BY <1>0 DEF RunInv, Followed
<1>2. at \in DOMAIN func /\ holds = H[<<at, idx>>]
  BY <1>0, <1>1
<1>3. Len(func) \in Nat /\ DOMAIN func = 1 .. Len(func) /\ DOMAIN blocks = DOMAIN func
  BY PlacesOf DEF RunInv, BlocksOK
<1>4. idx = Len(Codes[at]) + 1
  BY <1>0, <1>2, <1>3 DEF AtEnd, Code, Codes
<1>5. Codes' = Codes /\ BlocksOK' /\ LiveOutOK'
  BY <1>0 DEF Codes, RunInv, BlocksOK, LiveOutOK
<1>6. at' # 0 => at' \in DOMAIN func /\ 1 \in 1 .. (Len(Codes[at']) + 1) /\ holds = H[<<at', 1>>]
  <2> SUFFICES ASSUME at' # 0
               PROVE  at' \in DOMAIN func /\ 1 \in 1 .. (Len(Codes[at']) + 1) /\ holds = H[<<at', 1>>]
    OBVIOUS
  <2>1. at' \in DOMAIN func /\ Follows(func, at, at')
    BY <1>0
  <2>2. at' = at + 1
    BY <1>2, <2>1 DEF StraightCode
  <2>3. at \in 1 .. (Len(func) - 1)
    BY <1>2, <1>3, <2>1, <2>2
  <2>4. H[<<at + 1, 1>>] = H[<<at, Len(Codes[at]) + 1>>]
    BY <1>1, <2>3 DEF Trace
  <2>5. Len(Codes[at']) \in Nat
    BY <1>1, <1>3, <2>1 DEF Trace, IsSequence
  <2>6. 1 \in 1 .. (Len(Codes[at']) + 1)
    BY <2>5
  <2> QED
    BY <1>2, <1>4, <2>1, <2>2, <2>4, <2>6
<1>7. Followed'
  BY <1>0, <1>1, <1>5, <1>6 DEF Followed
<1> QED
  BY <1>0, <1>5, <1>7 DEF RunInv

LEMMA RunInitInv ==
  ASSUME RunInit, StraightCode(func) PROVE RunInv
<1> USE DEF RunInit, Init
<1>1. func \in Functions /\ Len(func) \in Nat \ {0} /\ DOMAIN func = 1 .. Len(func) /\ 1 \in DOMAIN func
  <2>1. func \in Functions
    OBVIOUS
  <2>2. Len(func) \in Nat \ {0} /\ DOMAIN func = 1 .. Len(func)
    BY <2>1, PlacesOf
  <2> QED
    BY <2>1, <2>2
<1>2. LiveOutOK
  <2>1. FitsLiveSet(func)
    BY Zenon DEF StraightCode
  <2>2. live_out \in LiveOuts(func)
    OBVIOUS
  <2> QED
    BY <2>1, <2>2, Zenon DEF LiveOutOK, LiveOuts
<1>3. BlocksOK /\ \A c \in DOMAIN func : Codes[c] = <<>>
  BY DEF BlocksOK, Codes, MirBlock
<1>4. block = 1 /\ k = 1 /\ step = "read" /\ s = 1 /\ srcs = <<>> /\ phase = "alloc" /\ at = 1 /\ idx = 1
      /\ alloc.assigned = <<>> /\ alloc.spill_slots = <<>>
  OBVIOUS
<1> DEFINE H == [p \in Nat \X Nat |-> holds]
<1>5. DefinedBefore(func, <<1, 1>>) = {}
  <2> SUFFICES ASSUME NEW q \in Places(func), Before(q, <<1, 1>>) PROVE FALSE
    BY DEF DefinedBefore
  <2>1. q[1] \in Nat /\ q[2] \in Nat /\ q[1] \in 1 .. Len(func) /\ q[1] \in DOMAIN func
        /\ q[2] \in 1 .. Len(func[q[1]].syllables)
    BY <1>1, PlacesOf
  <2>2. Len(func[q[1]].syllables) \in Nat
    BY <1>1, <2>1, PlacesOf
  <2>3. q[1] >= 1 /\ q[2] >= 1
    BY <1>1, <2>1, <2>2
  <2>4. q[1] < 1 \/ (q[1] = 1 /\ q[2] < 1)
    BY DEF Before
  <2> QED
    BY <2>1, <2>3, <2>4
<1>6. Codes[1] = <<>> /\ IsSequence(Codes[1]) /\ Len(Codes[1]) = 0
  <2>1. Codes[1] = <<>>
    BY <1>1, <1>3
  <2>2. <<>> \in Seq({}) /\ Len(<<>>) = 0
    OBVIOUS
  <2> QED
    BY <2>1, <2>2, SeqIsSequence
<1>7. Trace(func, Codes, 1, H)
  <2>1. \A c \in 1 .. 1 : c = 1
    OBVIOUS
  <2>2. 1 .. (1 - 1) = {} /\ 1 .. 0 = {}
    OBVIOUS
  <2> HIDE DEF H
  <2> QED
    BY <1>6, <2>1, <2>2 DEF Trace
<1>8. Plain(Codes[1], 0) = 0
  <2>1. {j \in 1 .. 0 : ~IsSpillCode(Codes[1][j])} = {}
    OBVIOUS
  <2> QED
    BY <2>1, FS_EmptySet DEF Plain
<1>9. Traced(func, Codes, 1, holds, holds, 0)
  <2>1. DOMAIN H = Nat \X Nat /\ H = [p \in Nat \X Nat |-> H[p]] /\ H[<<1, 1>>] = holds
    OBVIOUS
  <2> HIDE DEF H
  <2>2. 0 = Plain(Codes[1], Len(Codes[1]))
    BY <1>6, <1>8
  <2>3. Len(Codes[1]) + 1 = 1
    BY <1>6
  <2>4. H[<<1, Len(Codes[1]) + 1>>] = holds
    BY <2>1, <2>3
  <2> QED
    BY <1>7, <2>1, <2>2, <2>4 DEF Traced
<1>10. Fits(alloc, holds, Needed)
  BY <1>4, <1>5 DEF Fits, Needed
<1>11. PartOK(holds)
  <2>1. CASE AtTerminator
    BY <1>4, <2>1 DEF PartOK
  <2>2. CASE ~AtTerminator
    <3>1. 1 # Len(func[1].syllables) + 1 /\ Current = func[1].syllables[1]
      BY <1>4, <2>2 DEF AtTerminator, Syllables, Current
    <3>2. 1 \in 1 .. (Len(func[1].syllables) + 1)
      <4>1. Len(func[1].syllables) \in Nat
        BY <1>1, PlacesOf
      <4> QED
        BY <4>1
    <3> DEFINE syl == func[1].syllables[1]
    <3>3. /\ 1 \in 1 .. (Len(syl.srcs) + 1)
          /\ IsSequence(<<>>) /\ Len(<<>>) = 0
          /\ SrcsOK(syl, <<>>, holds) /\ SrcsKept(alloc, syl, <<>>, holds)
      BY <1>1, <3>1, <3>2, NothingRead
    <3> HIDE DEF syl
    <3>4. Current = syl /\ 0 = 1 - 1
      BY <3>1 DEF syl
    <3> QED
      BY <1>4, <2>2, <3>3, <3>4 DEF PartOK
  <2> QED
    BY <2>1, <2>2
<1>12. Emitted(holds)
  <2>1. 1 - 1 = 0
    OBVIOUS
  <2> QED
    BY <1>4, <1>9, <1>10, <1>11, <2>1 DEF Emitted
<1>13. KnownOK
  <2>1. DOMAIN alloc.assigned = {} /\ DOMAIN alloc.spill_slots = {}
    BY <1>4
  <2>2. SlotsOK(alloc)
    BY <2>1, FS_EmptySet DEF SlotsOK, Distinct
  <2> QED
    BY <2>1, <2>2 DEF KnownOK
<1>14. Emitting
  BY <1>3, <1>4, <1>12, <1>13 DEF Emitting
<1> QED
  BY <1>2, <1>3, <1>4, <1>14 DEF RunInv

\* Every step of the allocator and of the run keeps the invariant.
LEMMA RunNextInv ==
  ASSUME Inv, StraightCode(func) => RunInv, [RunNext]_runVars
  PROVE  StraightCode(func)' => RunInv'
<1>1. CASE UNCHANGED runVars
  <2>1. /\ func' = func /\ live_out' = live_out /\ block' = block /\ k' = k /\ step' = step /\ s' = s
        /\ srcs' = srcs /\ alloc' = alloc /\ blocks' = blocks /\ phase' = phase
        /\ at' = at /\ idx' = idx /\ holds' = holds
    BY <1>1 DEF runVars, vars, input, cursor
  <2>2. Codes' = Codes /\ BlocksOK' = BlocksOK /\ LiveOutOK' = LiveOutOK /\ Needed' = Needed
        /\ KnownOK' = KnownOK /\ AtTerminator' = AtTerminator /\ Current' = Current
    BY <2>1 DEF Codes, BlocksOK, LiveOutOK, Needed, KnownOK, AtTerminator, Current, Syllables
  <2>3. \A h : PartOK(h)' = PartOK(h)
    BY <2>1, <2>2 DEF PartOK
  <2>4. \A h : Emitted(h)' = Emitted(h)
    BY <2>1, <2>2, <2>3 DEF Emitted
  <2>5. Emitting' = Emitting /\ Followed' = Followed
    BY <2>1, <2>2, <2>4 DEF Emitting, Followed
  <2>6. RunInv' = RunInv /\ StraightCode(func)' = StraightCode(func)
    BY <2>1, <2>2, <2>5 DEF RunInv
  <2> QED
    BY <2>6
<1>2. CASE RunNext /\ ~UNCHANGED runVars
  <2>1. func' = func
    BY <1>2 DEF RunNext, Compile, Next, RewriteSource, NextPart, FreeSource, RewriteDst, RewriteTerminator,
       Terminated, RunSpillCode, RunSyllable, RunTerminator, Returned, vars, input
  <2> SUFFICES ASSUME StraightCode(func) PROVE RunInv'
    BY <2>1
  <2>2. RunInv /\ func \in Functions
    BY DEF Inv, CursorOK
  <2>3. CASE Compile
    <3>1. UNCHANGED <<at, idx, holds>> /\ Next
      BY <2>3 DEF Compile
    <3>2. phase = "alloc"
      <4>1. ~Terminated
        BY <1>2, <3>1 DEF Terminated, runVars
      <4> QED
        BY <3>1, <4>1 DEF Next, RewriteSource, NextPart, FreeSource, RewriteDst, RewriteTerminator, InSyllable
    <3>3. Ready
      BY <2>2, <3>2 DEF Ready
    <3>4. ~Terminated
      BY <3>2 DEF Terminated
    <3> QED
      BY <3>1, <3>3, <3>4, RewriteSourceKeeps, NextPartKeeps, FreeSourceKeeps, RewriteDstKeeps,
         RewriteTerminatorKeeps DEF Next
  <2>4. CASE RunSpillCode \/ RunSyllable
    BY <2>2, <2>4, RunSyllableKeeps
  <2>5. CASE RunTerminator
    BY <2>2, <2>5, RunTerminatorKeeps
  <2> QED
    BY <1>2, <2>3, <2>4, <2>5 DEF RunNext, Returned
<1> QED
  BY <1>1, <1>2

\* For every function without loops or predicates whose registers are each
\* defined once, before they are read, and have a bit in a LiveSet, and for every
\* choice of victims: each register that an allocated syllable reads holds the
\* value of the virtual register it stands for, however often that was spilled
\* and reloaded.
THEOREM AllocatedCodeReadsRightValues ==
  RunSpec => [](StraightCode(func) => ReadsRightValue)
<1> DEFINE All == Inv /\ (StraightCode(func) => RunInv)
<1>1. RunInit => All
  BY InitInv, RunInitInv DEF RunInit
<1>2. All /\ [RunNext]_runVars => All'
  <2> SUFFICES ASSUME All, [RunNext]_runVars PROVE All'
    OBVIOUS
  <2>1. [Next]_vars
    BY DEF RunNext, Compile, RunSpillCode, RunSyllable, RunTerminator, Returned, runVars
  <2>2. Inv'
    BY <2>1, NextInv
  <2>3. StraightCode(func)' => RunInv'
    BY RunNextInv
  <2> QED
    BY <2>2, <2>3
<1>3. All => (StraightCode(func) => ReadsRightValue)
  <2> SUFFICES ASSUME Inv, StraightCode(func), RunInv, Running PROVE ReadsRightValue
    BY DEF ReadsRightValue
  <2>1. func \in Functions
    BY DEF Inv, CursorOK
  <2>2. CASE AtEnd
    <3>1. at \in DOMAIN func
      <4>1. at # 0
        BY DEF Running
      <4> QED
        BY <4>1 DEF Running, RunInv, Followed
    <3>2. TermUses(func[at].terminator) = {}
      BY <3>1 DEF StraightCode, TermUses, VRegsIn
    <3> QED
      BY <2>2, <3>2 DEF ReadsRightValue
  <2>3. CASE ~AtEnd
    <3>1. RightReads(holds, Now, Origin)
      BY <2>1, <2>3, AtSyllable
    <3> QED
      BY <2>3, <3>1 DEF ReadsRightValue, RightReads
  <2> QED
    BY <2>2, <2>3
<1> HIDE DEF All
<1> QED
  BY <1>1, <1>2, <1>3, PTL DEF RunSpec
=============================================================================
