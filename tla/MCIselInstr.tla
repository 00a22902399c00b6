---------------------------- MODULE MCIselInstr ----------------------------
(* Instruction sequences for IselInstr and IselSemantics. *)
EXTENDS IselSemantics

Const(c, ty) == [kind |-> "const", n |-> c, ty |-> ty]
Ref(j, ty) == [kind |-> "ref", n |-> j, ty |-> ty]
At(a) == [kind |-> "inttoptr", n |-> a, ty |-> "ptr"]
Global == [kind |-> "global", n |-> 0, ty |-> "ptr"]

Ins(op, ty, pred, elem, args) ==
  [op |-> op, ty |-> ty, pred |-> pred, elem |-> elem, args |-> args]
Binary(op, ty, a, b) == Ins(op, ty, "none", "none", <<a, b>>)
ICmp(pred, a, b) == Ins("icmp", "i1", pred, "none", <<a, b>>)
Load(ty, p) == Ins("load", ty, "none", "none", <<p>>)
StoreTo(v, p) == Ins("store", "void", "none", "none", <<v, p>>)
Gep(elem, p, n) == Ins("getelementptr", "ptr", "none", elem, <<p, Const(n, "i64")>>)
Ret(v) == Ins("ret", "void", "none", "none", <<v>>)

BitOps == {"add", "sub", "mul", "and", "or", "xor"}

\* Two operations on words, the second on the result of the first, returned;
\* shift amounts are below the width.
MCWords ==
  {<<Binary(op, "i64", Const(a, "i64"), Const(b, "i64")),
     Binary(op2, "i64", Ref(1, "i64"), Const(c, "i64")), Ret(Ref(2, "i64"))>> :
     op \in BinaryOps, op2 \in BinaryOps, a \in 0 .. 7, b \in 0 .. 2, c \in 0 .. 2}

\* The same on halves: the result of the first as left or right operand.
MCHalves ==
  {<<Binary(op, "i32", Const(a, "i32"), Const(b, "i32")),
     IF left THEN Binary(op2, "i32", Ref(1, "i32"), Const(b, "i32"))
             ELSE Binary(op2, "i32", Const(b, "i32"), Ref(1, "i32")), Ret(Ref(2, "i32"))>> :
     op \in BinaryOps, op2 \in BinaryOps, a \in 0 .. 3, b \in 0 .. 1, left \in BOOLEAN}

\* The comparison of a difference with a constant.
MCCompares ==
  {<<Binary("sub", "i64", Const(a, "i64"), Const(b, "i64")), ICmp(pred, Ref(1, "i64"), Const(c, "i64"))>> :
     pred \in ComparePreds \cup {"sle"}, a \in {0, 3, 5}, b \in {0, 1, 6}, c \in 0 .. 7}
    \cup {<<Binary("sub", "i32", Const(a, "i32"), Const(b, "i32")), ICmp(pred, Ref(1, "i32"), Const(c, "i32"))>> :
            pred \in ComparePreds, a \in 0 .. 3, b \in 0 .. 1, c \in 0 .. 3}

\* Narrow constants compared, the result returned or used with other bits and a word.
MCBits ==
  {<<ICmp(pred, Const(a, ty), Const(b, ty)), Ret(Ref(1, "i1"))>> :
     pred \in ComparePreds, ty \in {"i1", "i32"}, a \in 0 .. 1, b \in 0 .. 1}
    \cup {<<ICmp(pred, Const(a, "i32"), Const(b, "i32")), Ret(Const(a, "i32"))>> :
            pred \in ComparePreds, a \in 0 .. 3, b \in 0 .. 3}
    \cup {<<Binary(op, "i1", Const(a, "i1"), Const(b, "i1")), ICmp("eq", Const(a, "i64"), Const(1, "i64")),
            Binary(op2, "i1", Ref(1, "i1"), Ref(x, "i1")), Binary("add", "i64", Const(a, "i64"), Const(3, "i64")),
            Ret(Ref(y, IF y = 4 THEN "i64" ELSE "i1"))>> :
            op \in BitOps, op2 \in BitOps, a \in 0 .. 1, b \in 0 .. 1, x \in {1, 2}, y \in {3, 4}}

Pointers == {At(128), Ref(Param, "ptr")}

\* A store and two loads through pointers that are folded, or not supported.
MCMemory ==
  {<<Gep(e1, p, n), Gep(e2, Ref(1, "ptr"), m), StoreTo(Const(5, "i64"), Ref(2, "ptr")),
     Load("i64", q), StoreTo(Ref(4, "i64"), Ref(1, "ptr")), Load("i64", Ref(2, "ptr"))>> :
     e1 \in {"i1", "i32", "i64"}, e2 \in {"i8", "i64", "float"}, p \in Pointers \cup {Global},
     n \in {-1, 0, 2}, m \in {0, 1}, q \in {Ref(1, "ptr"), Ref(2, "ptr"), At(128)}}

MCOthers ==
  {<<StoreTo(v, p), Load(ty, p)>> :
     v \in {Const(1, "i1"), Const(1, "i8"), Const(1, "i32")}, ty \in {"i1", "i8", "i32", "float"},
     p \in Pointers \cup {Global}}
    \cup {<<Ins("fence", "void", "none", "none", <<>>)>>, <<Ins("alloca", "ptr", "none", "none", <<>>)>>}

\* Integer operations on vectors, and a comparison of pointers.
MCVectors ==
  {<<Binary("add", "vector", Const(1, "vector"), Const(1, "vector"))>>}
    \cup {<<ICmp("eq", Ref(Param, "ptr"), At(0))>>}

MCBodies == MCWords \cup MCHalves \cup MCCompares \cup MCBits \cup MCMemory \cup MCOthers \cup MCVectors
=============================================================================
