------------------------- MODULE MCInlineFunctions --------------------------
(* The inline functions of the library (lib_base.cpp, lib_math.cpp), with
   operands that cover every value of their small types, and every way the
   target may be one of the operands. *)
EXTENDS InlineFunctions, Bitwise, TLC

FewBits == [bool |-> 1, u8 |-> 2, i8 |-> 2, i32 |-> 3, i64 |-> 4, pointer |-> 3]
AndTable == [x \in 0..15, y \in 0..15 |-> x & y]
OrTable == [x \in 0..15, y \in 0..15 |-> x | y]
XorTable == [x \in 0..15, y \in 0..15 |-> x ^^ y]
BitLogic == [AND |-> AndTable, OR |-> OrTable, XOR |-> XorTable]

Job(op, t, p, r, ms) ==
    [op |-> op, t |-> t, w |-> t, n |-> 1, p |-> p, r |-> r, order |-> "none", memories |-> ms]

Ints == {"u8", "i8", "i32", "i64"}
Wide == {"i32", "i64"}

A == Element("a", 1)
B == Element("b", 1)
R == Element("r", 1)
Cells(x, y, z) ==
    (<<"a", 1>> :> x) @@ (<<"b", 1>> :> y) @@ (<<"r", 1>> :> z) @@ (<<"t1", 1>> :> 0)
Pairs(t, u) == {Cells(x, y, 1) : x \in Patterns(t), y \in Patterns(u)}
(* C++ leaves the quotients it cannot represent and shifts by more than the width undefined. *)
Divisible(t) == {m \in Pairs(t, t) : m[<<"b", 1>>] # 0 /\ ~(Value(t, m[<<"b", 1>>]) = -1 /\ m[<<"a", 1>>] = Power[Bits[t] - 1])}
Shifts(t) == {m \in Pairs(t, t) : m[<<"b", 1>>] < Bits[t]}
NonNegative(t) == {m \in Shifts(t) : Value(t, m[<<"a", 1>>]) >= 0}

Binary(ops, ts, Ms(_)) == {Job(op, t, <<A, B>>, R, Ms(t)) : op \in ops, t \in ts}
Unary(ops, ts) == {Job(op, t, <<A>>, R, Pairs(t, t)) : op \in ops, t \in ts}
Both(t) == Pairs(t, t)

IntJobs ==
    UNION {Binary({"Add", "Subtract", "BitAnd", "BitOr", "AddAssign", "SubtractAssign", "Assign"} \cup Comparisons, Ints, Both),
           Binary({"Multiply", "MultiplyAssign"}, Wide, Both),
           Binary({"Divide", "Modulo", "DivideAssign"}, Wide, Divisible),
           Binary({"ShiftLeft"}, Wide, Shifts), Binary({"ShiftRight"}, Wide, NonNegative),
           Unary({"Negative"}, Ints), Unary({"Increase", "Decrease"}, Wide), Unary({"Passthrough"}, {"u8", "i8"}),
           {Job(op, t, <<A, A>>, R, Both(t)) : op \in {"AddAssign", "SubtractAssign", "MultiplyAssign", "Assign"}, t \in Wide}}

OtherJobs ==
    UNION {Binary({"Equal", "NotEqual"}, {"bool", "pointer"}, Both), Binary({"BoolAnd", "BoolOr"}, {"bool"}, Both),
           Unary({"BoolNot"}, {"bool"}), Unary({"PointerToBool", "SharedInit"}, {"pointer"}),
           Binary({"Assign"}, {"bool", "pointer"}, Both),
           {Job("AddInt32", "i64", <<A, B>>, R, Pairs("i64", "i32"))},
           {[Job("MOVSX", t, <<A>>, R, Both(t)) EXCEPT !.w = w] : t \in SignedTypes, w \in SignedTypes},
           {[Job("MOVZX", "u8", <<A>>, R, Both("u8")) EXCEPT !.w = "i32"], [Job("MOVZX", "i32", <<A>>, R, Both("i32")) EXCEPT !.w = "u8"]}}

Leaves(vs, n) == {[c \in (vs \X (1 .. n)) \cup {<<"t1", 1>>, <<"t2", 1>>} |-> Leaf(c)]}
FloatPair == Leaves({"a", "b", "r"}, 1)
Orders == {"less", "equal", "greater"}

FloatJobs ==
    UNION {{Job(op, t, <<A, x>>, R, FloatPair) : op \in DOMAIN FloatInst \cup DOMAIN Assigns \cup {"Assign"}, t \in Floats, x \in {A, B}},
           {[Job(op, t, <<A, B>>, R, FloatPair) EXCEPT !.order = o] : op \in Comparisons, t \in Floats, o \in Orders},
           {Job("Negative", "f32", <<A>>, R, FloatPair)},
           {Job(op, "f32", <<A>>, R, FloatPair) : op \in {"CVTTSS2SI", "CVTSS2SD", "CVTSD2SS", "CVTSI2SS"}}}

ScalarJobs == IntJobs \cup OtherJobs \cup FloatJobs
-----------------------------------------------------------------------------
Vector(n, op, p, r) == [Job(op, "f32", p, r, Leaves({"u", "v", "w"}, n)) EXCEPT !.n = n]
Vs == {Var("u"), Var("v")}
Whole == Vs \cup {Var("w")}

(* Functions that work on one component after the other: the target may be
   an operand.  A factor is a number of its own. *)
Componentwise(n) ==
    LET f == Element("w", n) IN
    UNION {{Vector(n, op, <<x, y>>, r) : op \in {"Add", "Subtract", "AddAssign", "SubtractAssign", "Assign"}, x \in Vs, y \in Vs, r \in Whole},
           {Vector(n, op, <<x, f>>, r) : op \in {"Multiply", "Divide", "MultiplyAssign", "DivideAssign"}, x \in Vs, r \in Vs},
           {Vector(n, "Multiply", <<f, y>>, r) : y \in Vs, r \in Vs},
           {Vector(n, "Negative", <<x>>, r) : x \in Vs, r \in Vs},
           {Vector(n, "Passthrough", <<x>>, r) : x \in Vs, r \in Whole},
           {Vector(n, "Create", [k \in 1 .. n |-> Element(v, n + 1 - k)], r) : v \in {"u", "v"}, r \in {Var("w")}}}

Products ==
    {Vector(2, "ComplexMultiply", <<x, y>>, Var("w")) : x \in Vs, y \in Vs} \cup
    {Vector(3, "DotProduct", <<x, y>>, Element("w", 1)) : x \in Vs, y \in Vs}

ChunkCells(n) == {[c \in ({"u", "v", "w"} \X (1 .. n)) \cup {<<"t1", 1>>} |-> IF c[1] = "u" THEN f[c[2]] ELSE IF c[1] = "v" THEN g[c[2]] ELSE 1] :
                    f \in [1 .. n -> 0 .. 1], g \in [1 .. n -> 0 .. 1]}
Chunks(ops, n) == {[Vector(n, op, <<Var("u"), y>>, Element("w", 1)) EXCEPT !.t = "i32", !.memories = ChunkCells(n)] :
                    op \in ops, y \in Vs}

VectorJobs == Componentwise(2) \cup Componentwise(3) \cup Products \cup
    Chunks({"ChunkEqual", "ChunkNotEqual"}, 2) \cup Chunks({"ChunkEqual"}, 3) \cup Chunks({"ChunkEqual"}, 4)
PassingJobs == ScalarJobs \cup VectorJobs

(* The theorem about sensible calls is about all of these. *)
ASSUME JobsAreSensible == \A j \in PassingJobs : Sensible(j)
-----------------------------------------------------------------------------
(* The functions the compiled code of which differs from the C++ ones. *)
XorJobs == {Job("BitXOr", t, <<A, B>>, R, Both(t)) : t \in Wide}
ShiftJobs == Binary({"ShiftRight"}, Wide, Shifts)
NotEqualJobs == Chunks({"ChunkNotEqual"}, 3)
NanJobs == {[Job(op, t, <<A, B>>, R, FloatPair) EXCEPT !.order = "unordered"] : op \in Comparisons, t \in Floats}
InPlaceJobs ==
    {Vector(2, "ComplexMultiply", <<x, y>>, Var("v")) : x \in Vs, y \in Vs} \cup
    {Vector(2, "Create", <<Element("v", 2), Element("v", 1)>>, Var("v"))}
ScaleJobs == {Vector(n, op, <<Var("v"), Element("v", 1)>>, Var("v")) : n \in 2 .. 3, op \in {"MultiplyAssign", "DivideAssign"}}
=============================================================================
