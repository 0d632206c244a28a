-------------------------- MODULE InlineFunctions ---------------------------
(***************************************************************************)
(* Operators and constructors the compiler does not call but writes out    *)
(* as commands (Serializer::serialize_inline_function), executed the way   *)
(* the x86 and amd64 back ends implement a command: read the operands into *)
(* a register, compute, write.                                             *)
(*                                                                         *)
(* The same functions are registered with a C++ function, which constant   *)
(* folding calls: a program must not depend on which of the two ran.  A    *)
(* value of an integer type is a bit pattern, a float the term that        *)
(* computes it.  The assignment of a call to a variable makes the variable *)
(* the target of the commands, even one they read from.                    *)
(***************************************************************************)
EXTENDS Integers, Sequences

CONSTANTS Jobs,
          Bits,     \* how many bits the patterns of a type have
          Logic     \* what AND, OR and XOR make of two patterns

VARIABLES job,      \* the function, its operands and target
          code, pc,
          mem,      \* the words of every variable
          before,   \* mem when the code starts
          flags

vars == <<job, code, pc, mem, before, flags>>
-----------------------------------------------------------------------------
PointerWords == 2
SignedTypes == {"i8", "i32", "i64"}
Ordinals == SignedTypes \cup {"bool", "u8", "pointer"}
Floats == {"f32", "f64"}

ASSUME BitsAssumption == Bits \in [Ordinals -> Nat \ {0}] /\ Bits["bool"] = 1
ASSUME LogicAssumption ==
    /\ DOMAIN Logic = {"AND", "OR", "XOR"}
    /\ \A x, y \in 0..1 : /\ Logic["AND"][x, y] = IF x = 1 /\ y = 1 THEN 1 ELSE 0
                          /\ Logic["OR"][x, y] = IF x = 1 \/ y = 1 THEN 1 ELSE 0
    /\ \A x \in 0..1 : Logic["XOR"][x, 1] = 1 - x

(* Two to the power of n. *)
Power[n \in Nat] == IF n = 0 THEN 1 ELSE 2 * Power[n - 1]

Patterns(t) == 0 .. Power[Bits[t]] - 1
Pattern(t, v) == v % Power[Bits[t]]
Value(t, x) == IF t \in SignedTypes /\ x >= Power[Bits[t] - 1] THEN x - Power[Bits[t]] ELSE x
Quotient(x, y) == LET abs(v) == IF v < 0 THEN -v ELSE v
                      q == abs(x) \div abs(y)
                  IN  IF (x < 0) = (y < 0) THEN q ELSE -q

(* A float: where it was, or how it was computed. *)
Leaf(cell) == <<"word", cell>>
Term(inst, x, y) == IF inst \in {"FADD", "FMUL"} THEN <<inst, {x, y}>> ELSE <<inst, x, y>>

(* An operand: word k of variable v, or the first of all its words. *)
Operand(v, k, wide) == [v |-> v, k |-> k, wide |-> wide]
Var(v) == Operand(v, 1, TRUE)
Element(v, k) == Operand(v, k, FALSE)
param_imm(x) == Operand("imm", x, FALSE)
param_shift(p, i) == IF p.wide THEN [p EXCEPT !.k = @ + i] ELSE p

(* t: the type of the operands read, w: of the one written, to: where a jump leads. *)
Command(inst, t, p) == [inst |-> inst, t |-> t, w |-> t, p |-> p, to |-> 0]
Convert(inst, t, w, p) == [Command(inst, t, p) EXCEPT !.w = w]
Jump(inst, to) == [Command(inst, "bool", <<>>) EXCEPT !.to = to]
-----------------------------------------------------------------------------
IntInst == [Add |-> "ADD", Subtract |-> "SUB", Multiply |-> "IMUL", Divide |-> "IDIV", Modulo |-> "MODULO",
            BitAnd |-> "AND", BitOr |-> "OR", BitXOr |-> "OR", ShiftRight |-> "SHR", ShiftLeft |-> "SHL"]
FloatInst == [Add |-> "FADD", Subtract |-> "FSUB", Multiply |-> "FMUL", Divide |-> "FDIV"]
Inst(op, t) == IF t \in Floats THEN FloatInst[op] ELSE IntInst[op]

(* Mutant: one table for signed and unsigned numbers. *)
SetInst_Signed(op, t) ==
    [Equal |-> "SETZ", NotEqual |-> "SETNZ", Greater |-> "SETNLE", GreaterEqual |-> "SETNL", Smaller |-> "SETL", SmallerEqual |-> "SETLE"][op]

(* Greater and less are for signed numbers, above and below for others. *)
SetInst(op, t) ==
    IF t \in SignedTypes
    THEN [Equal |-> "SETZ", NotEqual |-> "SETNZ", Greater |-> "SETNLE", GreaterEqual |-> "SETNL", Smaller |-> "SETL", SmallerEqual |-> "SETLE"][op]
    ELSE [Equal |-> "SETZ", NotEqual |-> "SETNZ", Greater |-> "SETNBE", GreaterEqual |-> "SETNB", Smaller |-> "SETB", SmallerEqual |-> "SETBE"][op]

Arithmetic == DOMAIN IntInst
Assigns == [AddAssign |-> "Add", SubtractAssign |-> "Subtract", MultiplyAssign |-> "Multiply", DivideAssign |-> "Divide"]
Comparisons == {"Equal", "NotEqual", "Greater", "GreaterEqual", "Smaller", "SmallerEqual"}
Conversions == {"MOVSX", "MOVZX", "CVTSI2SS", "CVTTSS2SI", "CVTSS2SD", "CVTSD2SS"}

(* One command for each word. *)
Pointwise(j, inst, ps) ==
    [i \in 1 .. j.n |-> Command(inst, j.t, [k \in DOMAIN ps |-> param_shift(ps[k], i - 1)])]

(* A chunk that fits into a pointer is compared at once, a larger one word by
   word with a jump to the end behind each word but the last. *)
ChunkCompare(j, set, leave) ==
    IF j.n <= PointerWords THEN <<Command("CMP", j.t, j.p), Command(set, "bool", <<j.r>>)>>
    ELSE [i \in 1 .. 3 * j.n - 1 |->
            CASE i % 3 = 1 -> Command("CMP", j.t, <<Element(j.p[1].v, 1 + i \div 3), Element(j.p[2].v, 1 + i \div 3)>>)
              [] i % 3 = 2 -> Command(set, "bool", <<j.r>>)
              [] OTHER     -> Jump(leave, 3 * j.n)]

ComplexMultiply(j) ==
    LET a(i) == param_shift(j.p[1], i)
        b(i) == param_shift(j.p[2], i)
        t1 == Element("t1", 1)
        t2 == Element("t2", 1)
    IN  <<Command("FMUL", j.t, <<t1, a(0), b(0)>>), Command("FMUL", j.t, <<t2, a(1), b(1)>>),
          Command("FSUB", j.t, <<param_shift(j.r, 0), t1, t2>>),
          Command("FMUL", j.t, <<t1, a(0), b(1)>>), Command("FMUL", j.t, <<t2, a(1), b(0)>>),
          Command("FADD", j.t, <<param_shift(j.r, 1), t1, t2>>)>>

(* vec3 * vec3 is a number. *)
DotProduct(j) ==
    LET a(i) == param_shift(j.p[1], i)
        b(i) == param_shift(j.p[2], i)
        t1 == Element("t1", 1)
        plus == Command("FADD", j.t, <<j.r, t1>>)
    IN  <<Command("FMUL", j.t, <<j.r, a(0), b(0)>>), Command("FMUL", j.t, <<t1, a(1), b(1)>>), plus,
          Command("FMUL", j.t, <<t1, a(2), b(2)>>), plus>>

(* The commands of one inline function: j.n words of type j.t, operands j.p, target j.r. *)
Code(j) ==
    CASE j.op \in Arithmetic     -> Pointwise(j, Inst(j.op, j.t), <<j.r>> \o j.p)
      [] j.op \in DOMAIN Assigns -> Pointwise(j, Inst(Assigns[j.op], j.t), j.p)
      [] j.op = "Assign"         -> Pointwise(j, "MOV", j.p)
      [] j.op = "Passthrough"    -> Pointwise(j, "MOV", <<j.r>> \o j.p)
      [] j.op = "Create"         -> [i \in 1 .. j.n |-> Command("MOV", j.t, <<param_shift(j.r, i - 1), j.p[i]>>)]
      [] j.op = "SharedInit"     -> <<Command("MOV", j.t, <<j.p[1], param_imm(0)>>)>>
      [] j.op = "Negative"       ->
            IF j.t \in Floats THEN Pointwise(j, "XOR", <<j.r, j.p[1], param_imm(0)>>)
            ELSE <<Command("SUB", j.t, <<j.r, param_imm(0), j.p[1]>>)>>
      [] j.op = "Increase"       -> <<Command("ADD", j.t, <<j.p[1], param_imm(1)>>)>>
      [] j.op = "Decrease"       -> <<Command("SUB", j.t, <<j.p[1], param_imm(1)>>)>>
      [] j.op = "BoolAnd"        -> <<Command("AND", j.t, <<j.r, j.p[1], j.p[2]>>)>>
      [] j.op = "BoolOr"         -> <<Command("OR", j.t, <<j.r, j.p[1], j.p[2]>>)>>
      [] j.op = "BoolNot"        -> <<Command("XOR", j.t, <<j.r, j.p[1], param_imm(1)>>)>>
      [] j.op \in Comparisons    -> <<Command(IF j.t \in Floats THEN "FCMP" ELSE "CMP", j.t, j.p), Command(SetInst(j.op, j.t), "bool", <<j.r>>)>>
      [] j.op = "PointerToBool"  -> <<Command("CMP", j.t, <<j.p[1], param_imm(0)>>), Command("SETNZ", "bool", <<j.r>>)>>
      [] j.op = "ChunkEqual"     -> ChunkCompare(j, "SETZ", "JNZ")
      [] j.op = "ChunkNotEqual"  -> ChunkCompare(j, "SETNZ", "JZ")
      [] j.op \in Conversions    -> <<Convert(j.op, j.t, j.w, <<j.r, j.p[1]>>)>>
      [] j.op = "AddInt32"       -> <<Convert("MOVSX", "i32", "i64", <<Element("t1", 1), j.p[2]>>), Command("ADD", j.t, <<j.r, j.p[1], Element("t1", 1)>>)>>
      [] j.op = "ComplexMultiply" -> ComplexMultiply(j)
      [] j.op = "DotProduct"     -> DotProduct(j)
-----------------------------------------------------------------------------
(* The first word an operand stands for, and what is in it, in a memory m. *)
Cell(p) == <<p.v, p.k>>
Val(m, p) == IF p.v = "imm" THEN p.k ELSE m[Cell(p)]

IntResult(inst, t, x, y) ==
    CASE inst = "ADD"    -> Pattern(t, x + y)
      [] inst = "SUB"    -> Pattern(t, x - y)
      [] inst = "IMUL"   -> Pattern(t, x * y)
      [] inst = "IDIV"   -> Pattern(t, Quotient(Value(t, x), Value(t, y)))
      [] inst = "MODULO" -> Pattern(t, Value(t, x) - Value(t, y) * Quotient(Value(t, x), Value(t, y)))
      [] inst \in DOMAIN Logic -> Logic[inst][x, y]
      [] inst = "SHL"    -> Pattern(t, x * Power[y])
      [] inst = "SHR"    -> x \div Power[y]

(* A command with three operands computes from the last two, one with two
   changes its first. *)
Computed(m, c) ==
    LET x == Val(m, c.p[IF Len(c.p) = 3 THEN 2 ELSE 1])
        y == Val(m, c.p[Len(c.p)])
    IN  IF c.inst \in {"MOVSX", "MOVZX"} THEN Pattern(c.w, IF c.inst = "MOVSX" THEN Value(c.t, y) ELSE y)
        ELSE IF c.inst \in Conversions THEN <<c.inst, y>>
        ELSE IF c.inst = "MOV" THEN y
        ELSE IF c.t \in Floats THEN IF c.inst = "XOR" THEN <<"negative", x>> ELSE Term(c.inst, x, y)
        ELSE IntResult(c.inst, c.t, x, y)

(* Zero, less (signed), below (unsigned and floats).  Of two floats one of which
   is not a number the processor says all of equal and below. *)
Compared(j, m, c) ==
    LET x == Val(m, c.p[1])
        y == Val(m, c.p[2])
    IN  IF c.inst = "FCMP"
        THEN [z |-> j.order \in {"equal", "unordered"}, l |-> FALSE, b |-> j.order \in {"less", "unordered"}]
        ELSE IF c.p[1].wide
        THEN [z |-> \A i \in 0 .. j.n - 1 : Val(m, param_shift(c.p[1], i)) = Val(m, param_shift(c.p[2], i)), l |-> FALSE, b |-> FALSE]
        ELSE [z |-> x = y, l |-> Value(c.t, x) < Value(c.t, y), b |-> x < y]

Condition(f, inst) ==
    [SETZ |-> f.z, SETNZ |-> ~f.z, JZ |-> f.z, JNZ |-> ~f.z,
     SETL |-> f.l, SETNL |-> ~f.l, SETLE |-> f.l \/ f.z, SETNLE |-> ~(f.l \/ f.z),
     SETB |-> f.b, SETNB |-> ~f.b, SETBE |-> f.b \/ f.z, SETNBE |-> ~(f.b \/ f.z)][inst]
-----------------------------------------------------------------------------
Compares == {"CMP", "FCMP"}
Sets == {"SETZ", "SETNZ", "SETL", "SETNL", "SETLE", "SETNLE", "SETB", "SETNB", "SETBE", "SETNBE"}
Jumps == {"JZ", "JNZ"}

Bool(b) == IF b THEN 1 ELSE 0
Running == pc <= Len(code)
Now == code[pc]

Init ==
    /\ job \in Jobs
    /\ code = Code(job)
    /\ pc = 1
    /\ mem \in job.memories
    /\ before = mem
    /\ flags = [z |-> FALSE, l |-> FALSE, b |-> FALSE]

Write(cell, x) ==
    /\ mem' = [mem EXCEPT ![cell] = x]
    /\ pc' = pc + 1
    /\ UNCHANGED <<job, code, before, flags>>

Compute ==
    /\ Running /\ Now.inst \notin Compares \cup Sets \cup Jumps
    /\ Write(Cell(Now.p[1]), Computed(mem, Now))

Compare ==
    /\ Running /\ Now.inst \in Compares
    /\ flags' = Compared(job, mem, Now)
    /\ pc' = pc + 1
    /\ UNCHANGED <<job, code, mem, before>>

SetByte ==
    /\ Running /\ Now.inst \in Sets
    /\ Write(Cell(Now.p[1]), Bool(Condition(flags, Now.inst)))

JumpIf ==
    /\ Running /\ Now.inst \in Jumps
    /\ pc' = IF Condition(flags, Now.inst) THEN Now.to ELSE pc + 1
    /\ UNCHANGED <<job, code, mem, before, flags>>

Next == Compute \/ Compare \/ SetByte \/ JumpIf

Spec == Init /\ [][Next]_vars
-----------------------------------------------------------------------------
(* The functions of C++, on the values the operands have in a memory m. *)
Word(j, m, k, i) == m[Cell(param_shift(j.p[k], i - 1))]

(* x and y are the numbers, not the patterns. *)
IntOperator(op, x, y) ==
    CASE op = "Add" -> x + y [] op = "Subtract" -> x - y [] op = "Multiply" -> x * y
      [] op = "Divide" -> Quotient(x, y)
      [] op = "Modulo" -> x - y * Quotient(x, y)
      [] op = "ShiftLeft" -> x * Power[y]
      [] op = "ShiftRight" -> x \div Power[y]

BitOperators == [BitAnd |-> "AND", BitOr |-> "OR", BitXOr |-> "XOR"]
Operator(op, t, x, y) ==
    IF t \in Floats THEN Term(FloatInst[op], x, y)
    ELSE IF op \in DOMAIN BitOperators THEN Logic[BitOperators[op]][x, y]
    ELSE Pattern(t, IntOperator(op, Value(t, x), Value(t, y)))

Holds(op, order) ==
    [Equal |-> order = "equal", NotEqual |-> order # "equal", Greater |-> order = "greater", GreaterEqual |-> order \in {"greater", "equal"},
     Smaller |-> order = "less", SmallerEqual |-> order \in {"less", "equal"}][op]

Order(j, m) ==
    LET x == Value(j.t, Word(j, m, 1, 1))
        y == Value(j.t, Word(j, m, 2, 1))
    IN  IF j.t \in Floats THEN j.order ELSE IF x < y THEN "less" ELSE IF x = y THEN "equal" ELSE "greater"

SameChunk(j, m) == \A i \in 1 .. j.n : Word(j, m, 1, i) = Word(j, m, 2, i)

Times(j, m, a, b) == Term("FMUL", Word(j, m, 1, a), Word(j, m, 2, b))
Plus(x, y) == Term("FADD", x, y)

(* Word i of what the function returns or leaves in its first operand. *)
Meaning(j, m, i) ==
    LET x == Word(j, m, 1, i)
        y == Word(j, m, 2, i)
    IN  CASE j.op \in Arithmetic     -> Operator(j.op, j.t, x, y)
          [] j.op \in DOMAIN Assigns -> Operator(Assigns[j.op], j.t, x, y)
          [] j.op = "Assign"         -> y
          [] j.op = "Passthrough"    -> x
          [] j.op = "Create"         -> Word(j, m, i, 1)
          [] j.op = "SharedInit"     -> 0
          [] j.op = "Negative"       -> IF j.t \in Floats THEN <<"negative", x>> ELSE Pattern(j.t, -Value(j.t, x))
          [] j.op = "Increase"       -> Pattern(j.t, Value(j.t, x) + 1)
          [] j.op = "Decrease"       -> Pattern(j.t, Value(j.t, x) - 1)
          [] j.op = "BoolAnd"        -> Bool(x = 1 /\ y = 1)
          [] j.op = "BoolOr"         -> Bool(x = 1 \/ y = 1)
          [] j.op = "BoolNot"        -> Bool(x = 0)
          [] j.op \in Comparisons    -> Bool(Holds(j.op, Order(j, m)))
          [] j.op = "PointerToBool"  -> Bool(x # 0)
          [] j.op = "ChunkEqual"     -> Bool(SameChunk(j, m))
          [] j.op = "ChunkNotEqual"  -> Bool(~SameChunk(j, m))
          [] j.op \in {"MOVSX", "MOVZX"} -> Pattern(j.w, Value(j.t, x))
          [] j.op \in Conversions \ {"MOVSX", "MOVZX"} -> <<j.op, x>>
          [] j.op = "AddInt32"       -> Pattern("i64", Value("i64", x) + Value("i32", y))
          [] j.op = "ComplexMultiply" -> IF i = 1 THEN Term("FSUB", Times(j, m, 1, 1), Times(j, m, 2, 2)) ELSE Plus(Times(j, m, 1, 2), Times(j, m, 2, 1))
          [] j.op = "DotProduct"     -> Plus(Plus(Times(j, m, 1, 1), Times(j, m, 2, 2)), Times(j, m, 3, 3))

(* Where the result goes, and how many words it has. *)
InPlace == {"Assign", "SharedInit", "Increase", "Decrease"} \cup DOMAIN Assigns
Target(j) == IF j.op \in InPlace THEN j.p[1] ELSE j.r
TargetWord(j, i) == Cell(param_shift(Target(j), i - 1))
Width(j) == IF Target(j).wide THEN j.n ELSE 1
-----------------------------------------------------------------------------
(* The commands leave in the target what the C++ function the operator is
   registered with returns for the values the operands had, and nothing else
   in any variable: constant folding, which calls that function, and the
   compiled code agree (eval_function_call, serialize_inline_function). *)
SameAsFunction ==
    ~Running =>
        \A c \in DOMAIN mem :
            c[1] \notin {"t1", "t2"} =>
                LET to == Target(job) IN
                mem[c] = IF c[1] = to.v /\ c[2] \in to.k .. to.k + Width(job) - 1
                         THEN Meaning(job, before, c[2] - to.k + 1) ELSE before[c]
-----------------------------------------------------------------------------
(***************************************************************************)
(* Which calls agree.                                                      *)
(***************************************************************************)
Alone == {"SharedInit", "Increase", "Decrease", "BoolAnd", "BoolOr", "BoolNot"} \cup Conversions
WordByWord == Arithmetic \cup DOMAIN Assigns \cup {"Assign", "Passthrough", "Create", "Negative"} \cup Alone
Tests == Comparisons \cup {"PointerToBool"}
ChunkTests == {"ChunkEqual", "ChunkNotEqual"}
WithTemps == {"AddInt32", "ComplexMultiply", "DotProduct"}
OnFloats == DOMAIN FloatInst \cup DOMAIN Assigns \cup {"Assign", "Passthrough", "Create", "Negative", "ComplexMultiply", "DotProduct"}
            \cup Comparisons \cup (Conversions \ {"MOVSX", "MOVZX"})

Arity(j) ==
    CASE j.op = "Create" -> j.n
      [] j.op \in {"Passthrough", "Negative", "SharedInit", "Increase", "Decrease", "BoolNot", "PointerToBool"} \cup Conversions -> 1
      [] OTHER -> 2

Operands == [v : STRING \ {"imm", "t1", "t2"}, k : Int, wide : BOOLEAN]

HasTypes(j) ==
    /\ j.t \in Ordinals \cup (IF j.op \in OnFloats THEN Floats ELSE {})
    /\ j.op \in {"BoolAnd", "BoolOr", "BoolNot"} => j.t = "bool"
    /\ j.op \in {"ComplexMultiply", "DotProduct"} => j.t \in Floats
    /\ j.op = "AddInt32" => j.t = "i64"
    /\ j.op \in {"MOVSX", "MOVZX"} => j.w \in Ordinals
    \* a number that may be negative gets no wider without its sign
    /\ j.op = "MOVZX" /\ j.t \in SignedTypes => Bits[j.w] <= Bits[j.t]

HasWords(j) ==
    /\ j.op \in WordByWord => Target(j).wide \/ j.n = 1
    /\ j.op \in Alone \cup Tests \/ (j.op = "Negative" /\ j.t \notin Floats) => j.n = 1
    /\ j.op \in Tests => ~j.p[1].wide
    /\ j.op \in ChunkTests => /\ ~j.r.wide
                              /\ \A k \in 1 .. 2 : j.p[k].wide /\ j.p[k].k = 1
    /\ j.op = "AddInt32" => j.n = 1
    /\ j.op = "ComplexMultiply" => j.n = 2 /\ j.r.wide
    /\ j.op = "DotProduct" => j.n = 3 /\ ~j.r.wide

(* The operands the command for word i reads, and those it must still find. *)
ReadFor(j, i) == IF j.op = "Create" THEN {j.p[i]} ELSE {param_shift(j.p[k], i - 1) : k \in DOMAIN j.p}
NothingOverwritten(j) ==
    IF j.op \in WordByWord
    THEN \A i \in 1 .. j.n : \A h \in 1 .. i - 1 : \A p \in ReadFor(j, i) : Cell(p) # TargetWord(j, h)
    ELSE j.op \in Tests \/ \A k \in DOMAIN j.p : j.p[k].v # j.r.v

(* What C++ leaves undefined, and shifts of negative numbers. *)
Defined(j, x, y) ==
    /\ j.op \in {"Divide", "DivideAssign", "Modulo"} => y # 0 /\ ~(Value(j.t, y) = -1 /\ x = Power[Bits[j.t] - 1])
    /\ j.op \in {"ShiftLeft", "ShiftRight"} => Value(j.t, y) \in 0 .. Bits[j.t] - 1
    /\ j.op = "ShiftRight" => Value(j.t, x) >= 0

Holding(j, m) ==
    /\ DOMAIN m \subseteq STRING \X Int
    /\ j.op \in WithTemps => <<"t1", 1>> \in DOMAIN m
    /\ j.op = "ComplexMultiply" => <<"t2", 1>> \in DOMAIN m
    /\ \A i \in 1 .. j.n :
          /\ TargetWord(j, i) \in DOMAIN m
          /\ \A p \in ReadFor(j, i) : Cell(p) \in DOMAIN m /\ (j.t \in Ordinals => m[Cell(p)] \in Patterns(j.t))
          /\ j.t \in Ordinals /\ Arity(j) = 2 => Defined(j, Word(j, m, 1, i), Word(j, m, 2, i))

(* The calls for which the commands do the same.  Left out are: exclusive or and
   NotEqual of large chunks, which are implemented wrongly, floats that are not
   a number, and a target that is overwritten too early. *)
Sensible(j) ==
    /\ j.op \in (WordByWord \ {"BitXOr"}) \cup Tests \cup ChunkTests \cup WithTemps
    /\ j.op = "ChunkNotEqual" => j.n <= PointerWords
    /\ j.op \in Comparisons /\ j.t \in Floats => j.order \in {"less", "equal", "greater"}
    /\ j.n \in Nat \ {0} /\ j.r \in Operands /\ j.p \in [1 .. Arity(j) -> Operands]
    /\ HasTypes(j) /\ HasWords(j) /\ NothingOverwritten(j)
    /\ \A m \in j.memories : m = [c \in DOMAIN m |-> m[c]] /\ Holding(j, m)
-----------------------------------------------------------------------------
(***************************************************************************)
(* Why they agree: what the commands so far have done.                     *)
(***************************************************************************)
OnlyIn(cs) == \A c \in DOMAIN mem : c \notin cs => mem[c] = before[c]
Temps == {<<"t1", 1>>, <<"t2", 1>>}

WordsSoFar ==
    /\ pc \in 1 .. job.n + 1
    /\ \A i \in 1 .. pc - 1 : mem[TargetWord(job, i)] = Meaning(job, before, i)
    /\ OnlyIn({TargetWord(job, i) : i \in 1 .. pc - 1})

TestSoFar ==
    /\ pc \in 1 .. 3
    /\ OnlyIn(IF pc = 3 THEN {Cell(job.r)} ELSE {})
    /\ pc = 2 => Bool(Condition(flags, code[2].inst)) = Meaning(job, before, 1)
    /\ pc = 3 => mem[Cell(job.r)] = Meaning(job, before, 1)

(* At the three commands for pair k. *)
PairSoFar(k) ==
    /\ pc \in 3 * k - 2 .. 3 * k
    /\ \A i \in 1 .. k - 1 : Word(job, before, 1, i) = Word(job, before, 2, i)
    /\ pc > 3 * k - 2 => flags.z = (Word(job, before, 1, k) = Word(job, before, 2, k))
    /\ pc = 3 * k => mem[Cell(job.r)] = Bool(flags.z)
ChunkSoFar ==
    /\ OnlyIn({Cell(job.r)})
    /\ \/ pc = 3 * job.n /\ mem[Cell(job.r)] = Bool(SameChunk(job, before))
       \/ \E k \in 1 .. job.n : pc < 3 * job.n /\ PairSoFar(k)

SumSoFar ==
    /\ pc \in 1 .. 3
    /\ OnlyIn(Temps \cup IF pc = 3 THEN {Cell(job.r)} ELSE {})
    /\ pc >= 2 => mem[<<"t1", 1>>] = Pattern("i64", Value("i32", Word(job, before, 2, 1)))
    /\ pc = 3 => mem[Cell(job.r)] = Meaning(job, before, 1)

ComplexSoFar ==
    /\ pc \in 1 .. 7
    /\ OnlyIn(Temps \cup {TargetWord(job, i) : i \in 1 .. 2})
    /\ pc \in 2 .. 3 => mem[<<"t1", 1>>] = Times(job, before, 1, 1)
    /\ pc = 3 => mem[<<"t2", 1>>] = Times(job, before, 2, 2)
    /\ pc >= 4 => mem[TargetWord(job, 1)] = Meaning(job, before, 1)
    /\ pc >= 5 => mem[<<"t1", 1>>] = Times(job, before, 1, 2)
    /\ pc >= 6 => mem[<<"t2", 1>>] = Times(job, before, 2, 1)
    /\ pc = 7 => mem[TargetWord(job, 2)] = Meaning(job, before, 2)

DotSoFar ==
    /\ pc \in 1 .. 6
    /\ OnlyIn(Temps \cup {Cell(job.r)})
    /\ pc \in 2 .. 3 => mem[Cell(job.r)] = Times(job, before, 1, 1)
    /\ pc = 3 => mem[<<"t1", 1>>] = Times(job, before, 2, 2)
    /\ pc \in 4 .. 5 => mem[Cell(job.r)] = Plus(Times(job, before, 1, 1), Times(job, before, 2, 2))
    /\ pc = 5 => mem[<<"t1", 1>>] = Times(job, before, 3, 3)
    /\ pc = 6 => mem[Cell(job.r)] = Meaning(job, before, 1)

SoFar ==
    /\ job \in Jobs /\ code = Code(job) /\ before \in job.memories
    /\ mem = [c \in DOMAIN before |-> mem[c]]
    /\ job.op \in WordByWord => WordsSoFar
    /\ job.op \in Tests \/ (job.op \in ChunkTests /\ job.n <= PointerWords) => TestSoFar
    /\ job.op \in ChunkTests /\ job.n > PointerWords => ChunkSoFar
    /\ job.op = "AddInt32" => SumSoFar
    /\ job.op = "ComplexMultiply" => ComplexSoFar
    /\ job.op = "DotProduct" => DotSoFar
=============================================================================
