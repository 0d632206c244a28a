----------------------- MODULE InlineFunctionsProofs -----------------------
(***************************************************************************)
(* Why the commands written out for a function do what the function does:  *)
(* proofs about InlineFunctions, for all widths, operands and memories.     *)
(***************************************************************************)
EXTENDS InlineFunctions, WellFoundedInduction, TLAPS

(* Induction, by least elements of sets of numbers. *)
LEMMA Induction ==
  ASSUME NEW S, 0 \in S, \A n \in Nat : n \in S => n + 1 \in S
  PROVE  Nat \subseteq S
<1> SUFFICES ASSUME Nat \ S # {}
             PROVE  FALSE
  OBVIOUS
<1> DEFINE R == {pair \in Nat \X Nat : pair[1] < pair[2]}
<1>1. IsWellFoundedOn(R, Nat)
  BY NatLessThanWellFounded DEF OpToRel
<1> DEFINE T == Nat \ S
<1>2. T \subseteq Nat /\ T # {}
  OBVIOUS
<1>3. PICK x \in T : \A y \in T : ~ (<<y, x>> \in R)
  <2> HIDE DEF R, T
  <2> QED BY <1>1, <1>2, WFMin
<1>4. x \in Nat /\ x # 0
  BY <1>3
<1>5. x - 1 \in Nat /\ <<x - 1, x>> \in R
  BY <1>4
<1>6. x - 1 \in S
  BY <1>3, <1>5
<1> QED BY <1>3, <1>4, <1>5, <1>6

-----------------------------------------------------------------------------
(* Powers of two: that the recursive definition defines a function. *)
LEMMA PowerIs ==
  /\ Power \in [Nat -> Nat \ {0}]
  /\ Power[0] = 1
  /\ \A n \in Nat : Power[n + 1] = 2 * Power[n]
<1> DEFINE Pos == Nat \ {0}
           Good(f, n) == f \in [0..n -> Pos] /\ f[0] = 1 /\ \A i \in 1..n : f[i] = 2 * f[i - 1]
           Some == {n \in Nat : \E f \in [0..n -> Pos] : Good(f, n)}
           At(n) == CHOOSE f : Good(f, n)
           F == [n \in Nat |-> At(n)[n]]
<1>1. Nat \subseteq Some
  <2>1. 0 \in Some
    <3>1. Good([i \in 0..0 |-> 1], 0)
      OBVIOUS
    <3> QED BY <3>1
  <2>2. ASSUME NEW n \in Nat, n \in Some
        PROVE  n + 1 \in Some
    <3> PICK f \in [0..n -> Pos] : Good(f, n)
      BY <2>2
    <3> DEFINE g == [i \in 0..n + 1 |-> IF i <= n THEN f[i] ELSE 2 * f[n]]
    <3>1. g \in [0..n + 1 -> Pos]
      OBVIOUS
    <3>2. g[0] = 1
      OBVIOUS
    <3>3. ASSUME NEW i \in 1..n + 1
          PROVE  g[i] = 2 * g[i - 1]
      <4>1. CASE i <= n
        BY <4>1
      <4>2. CASE i = n + 1
        BY <4>2
      <4> QED BY <4>1, <4>2
    <3>4. Good(g, n + 1)
      BY <3>1, <3>2, <3>3
    <3> HIDE DEF Good, g
    <3>5. \E h \in [0..n + 1 -> Pos] : Good(h, n + 1)
      BY <3>1, <3>4
    <3> QED BY <3>5
  <2> HIDE DEF Some
  <2> QED BY <2>1, <2>2, Induction
<1>2. ASSUME NEW n \in Nat
      PROVE  Good(At(n), n)
  <2>1. \E f : Good(f, n)
    BY <1>1
  <2> HIDE DEF Good
  <2> QED BY <2>1
<1>3. ASSUME NEW n \in Nat
      PROVE  At(n + 1)[n] = At(n)[n]
  <2> DEFINE f == At(n + 1)
             g == At(n)
             Same == {i \in Nat : i <= n => f[i] = g[i]}
  <2>0. n + 1 \in Nat
    OBVIOUS
  <2>1. Good(f, n + 1) /\ Good(g, n)
    BY <2>0, <1>2
  <2> HIDE DEF f, g
  <2>2. 0 \in Same
    BY <2>1
  <2>3. ASSUME NEW i \in Nat, i \in Same
        PROVE  i + 1 \in Same
    <3> SUFFICES ASSUME i + 1 <= n
                 PROVE  f[i + 1] = g[i + 1]
      OBVIOUS
    <3>1. f[i + 1] = 2 * f[i] /\ g[i + 1] = 2 * g[i]
      <4>1. i + 1 \in 1..n /\ i + 1 \in 1..n + 1 /\ (i + 1) - 1 = i
        OBVIOUS
      <4> QED BY <2>1, <4>1
    <3> QED BY <3>1, <2>3
  <2> HIDE DEF Same
  <2>4. Nat \subseteq Same
    BY <2>2, <2>3, Induction
  <2>5. f[n] = g[n]
    <3> USE DEF Same
    <3> QED BY <2>4
  <2> QED BY <2>5 DEF f, g
<1>4. /\ F \in [Nat -> Pos] /\ F[0] = 1
      /\ \A n \in Nat : F[n + 1] = 2 * F[n]
  <2> HIDE DEF At
  <2>1. \A n \in Nat : At(n)[n] \in Pos
    BY <1>2
  <2>2. F[0] = 1
    BY <1>2
  <2>3. ASSUME NEW n \in Nat
        PROVE  F[n + 1] = 2 * F[n]
    <3>1. At(n + 1)[n + 1] = 2 * At(n + 1)[n]
      <4>1. n + 1 \in 1..n + 1 /\ (n + 1) - 1 = n /\ n + 1 \in Nat
        OBVIOUS
      <4>2. Good(At(n + 1), n + 1)
        BY <4>1, <1>2
      <4> QED BY <4>1, <4>2
    <3> QED BY <3>1, <1>3
  <2> QED BY <2>1, <2>2, <2>3
<1> HIDE DEF F
<1>5. F = [n \in Nat |-> IF n = 0 THEN 1 ELSE 2 * F[n - 1]]
  <2>1. ASSUME NEW n \in Nat
        PROVE  F[n] = IF n = 0 THEN 1 ELSE 2 * F[n - 1]
    <3>1. CASE n = 0
      BY <3>1, <1>4
    <3>2. CASE n # 0
      <4>1. n - 1 \in Nat /\ (n - 1) + 1 = n
        BY <3>2
      <4>2. F[(n - 1) + 1] = 2 * F[n - 1]
        BY <4>1, <1>4
      <4> QED BY <4>1, <4>2, <3>2
    <3> QED BY <3>1, <3>2
  <2> QED BY <1>4, <2>1
<1>6. Power = [n \in Nat |-> IF n = 0 THEN 1 ELSE 2 * Power[n - 1]]
  BY <1>5 DEF Power
<1> HIDE DEF Good, Some, At
<1>7. Power[0] = 1
  BY <1>6
<1>8. ASSUME NEW n \in Nat
      PROVE  Power[n + 1] = 2 * Power[n]
  <2>1. n + 1 \in Nat /\ n + 1 # 0 /\ (n + 1) - 1 = n
    OBVIOUS
  <2> QED BY <2>1, <1>6
<1>9. \A n \in Nat : Power[n] \in Pos
  <2> DEFINE Whole == {n \in Nat : Power[n] \in Pos}
  <2>1. 0 \in Whole
    BY <1>7
  <2>2. \A n \in Nat : n \in Whole => n + 1 \in Whole
    BY <1>8
  <2> HIDE DEF Whole
  <2>3. Nat \subseteq Whole
    BY <2>1, <2>2, Induction
  <2> USE DEF Whole
  <2> QED BY <2>3
<1>10. Power \in [Nat -> Pos]
  BY <1>6, <1>9
<1> QED BY <1>7, <1>8, <1>10

LEMMA PowerOfSum ==
  ASSUME NEW a \in Nat, NEW b \in Nat
  PROVE  Power[a + b] = Power[a] * Power[b]
<1> DEFINE Good == {n \in Nat : Power[a + n] = Power[a] * Power[n]}
<1>0. \A n \in Nat : Power[n] \in Nat \ {0}
  BY PowerIs
<1>1. 0 \in Good
  BY PowerIs
<1>2. ASSUME NEW n \in Nat, n \in Good
      PROVE  n + 1 \in Good
  <2>1. Power[a + (n + 1)] = 2 * Power[a + n]
    <3>1. a + (n + 1) = (a + n) + 1 /\ a + n \in Nat
      OBVIOUS
    <3> QED BY <3>1, PowerIs
  <2>2. Power[n + 1] = 2 * Power[n]
    BY PowerIs
  <2>3. Power[a + n] = Power[a] * Power[n]
    BY <1>2
  <2>4. Power[a] * (2 * Power[n]) = 2 * (Power[a] * Power[n])
    BY <1>0
  <2> QED BY <2>1, <2>2, <2>3, <2>4
<1> HIDE DEF Good
<1>3. b \in Good
  BY <1>1, <1>2, Induction
<1> USE DEF Good
<1> QED BY <1>3

-----------------------------------------------------------------------------
(* Patterns and the numbers they stand for. *)
LEMMA SameRest ==
  ASSUME NEW n \in Nat \ {0}, NEW y \in Int, NEW k \in Int
  PROVE  (y + n * k) % n = y % n
<1> DEFINE z == y + n * k
<1>0. n * k \in Int /\ z \in Int
  OBVIOUS
<1> DEFINE q == y \div n  r == y % n  p == z \div n  s == z % n
<1>1. q \in Int /\ r \in 0..n - 1 /\ y = n * q + r
  OBVIOUS
<1> HIDE DEF z
<1>2. p \in Int /\ s \in 0..n - 1 /\ z = n * p + s
  BY <1>0
<1> HIDE DEF q, r, p, s
<1> USE DEF z
<1> DEFINE d == p - (q + k)
<1>3. d \in Int /\ r - s = n * d
  <2>1. n * p = n * (q + k) + n * d
    BY <1>1, <1>2
  <2>2. n * (q + k) = n * q + n * k
    BY <1>1
  <2> QED BY <1>1, <1>2, <2>1, <2>2
<1>4. d = 0
  <2>1. CASE d >= 1
    <3>1. n * d >= n
      BY <2>1, <1>3
    <3> QED BY <3>1, <1>1, <1>2, <1>3
  <2>2. CASE d <= -1
    <3>1. n * d <= -n
      BY <2>2, <1>3
    <3> QED BY <3>1, <1>1, <1>2, <1>3
  <2> QED BY <2>1, <2>2, <1>3
<1>5. r = s
  BY <1>3, <1>4, <1>1, <1>2
<1> QED BY <1>5 DEF r, s

(* Half of the patterns of a type with a sign stand for negative numbers. *)
LEMMA ValueIs ==
  ASSUME NEW t \in Ordinals
  PROVE  /\ Power[Bits[t]] \in Nat \ {0}
         /\ \A x \in Int : Value(t, x) \in Int /\ (Value(t, x) = x \/ Value(t, x) = x - Power[Bits[t]])
         /\ t \notin SignedTypes => \A x \in Int : Value(t, x) = x
         /\ \A x \in Patterns(t) : Value(t, x) >= 0 => Value(t, x) = x
         /\ \A x, y \in Patterns(t) : Value(t, x) = Value(t, y) => x = y
<1>1. Bits[t] \in Nat \ {0}
  BY BitsAssumption
<1>2. Bits[t] - 1 \in Nat /\ (Bits[t] - 1) + 1 = Bits[t]
  BY <1>1
<1> DEFINE H == Power[Bits[t] - 1]
           N == Power[Bits[t]]
<1>3. H \in Nat \ {0} /\ N = 2 * H
  BY <1>2, PowerIs
<1> HIDE DEF H
<1>4. \A x : Value(t, x) = IF t \in SignedTypes /\ x >= H THEN x - N ELSE x
  BY DEF Value, H
<1>5. \A x \in Patterns(t) : x \in Nat /\ x < N
  BY <1>3 DEF Patterns
<1> HIDE DEF N
<1>6. \A x \in Int : Value(t, x) \in Int /\ (Value(t, x) = x \/ Value(t, x) = x - N)
  BY <1>3, <1>4
<1>7. t \notin SignedTypes => \A x \in Int : Value(t, x) = x
  BY <1>4
<1>8. \A x \in Patterns(t) : Value(t, x) >= 0 => Value(t, x) = x
  BY <1>3, <1>4, <1>5
<1>9. \A x, y \in Patterns(t) : Value(t, x) = Value(t, y) => x = y
  BY <1>3, <1>4, <1>5
<1> QED BY <1>3, <1>6, <1>7, <1>8, <1>9 DEF N

(* Whether a pattern is taken for the number it stands for or for itself, sums,
   differences and products have the same pattern. *)
LEMMA SamePattern ==
  ASSUME NEW t \in Ordinals, NEW x \in Int, NEW y \in Int
  PROVE  /\ Pattern(t, Value(t, x) + y) = Pattern(t, x + y)
         /\ Pattern(t, y - Value(t, x)) = Pattern(t, y - x)
         /\ Pattern(t, Value(t, x) * y) = Pattern(t, x * y)
<1> DEFINE N == Power[Bits[t]]
           v == Value(t, x)
<1>1. N \in Nat \ {0} /\ v \in Int /\ (v = x \/ v = x - N)
  BY ValueIs
<1>2. \A z : Pattern(t, z) = z % N
  BY DEF Pattern
<1> HIDE DEF N, v
<1>3. CASE v = x
  BY <1>3 DEF v
<1>4. CASE v = x - N
  <2>1. \A a, b, k \in Int : b = a + N * k => b % N = a % N
    BY <1>1, SameRest, ZenonT(40)
  <2>2. /\ v + y \in Int /\ x + y \in Int /\ y - v \in Int /\ y - x \in Int
        /\ v * y \in Int /\ x * y \in Int /\ -y \in Int /\ 1 \in Int /\ -1 \in Int
    BY <1>1
  <2>3. v + y = (x + y) + N * (-1) /\ y - v = (y - x) + N * 1 /\ v * y = x * y + N * (-y)
    BY <1>4, <1>1
  <2>4. (v + y) % N = (x + y) % N
    BY <2>1, <2>2, <2>3, Zenon
  <2>5. (y - v) % N = (y - x) % N
    BY <2>1, <2>2, <2>3, Zenon
  <2>6. (v * y) % N = (x * y) % N
    BY <2>1, <2>2, <2>3, Zenon
  <2> QED BY <2>4, <2>5, <2>6, <1>2 DEF v
<1> QED BY <1>1, <1>3, <1>4

(* A number cut off to fewer bits is the same, with its sign and without. *)
LEMMA SameLowBits ==
  ASSUME NEW t \in Ordinals, NEW w \in Ordinals, Bits[w] <= Bits[t], NEW x \in Int
  PROVE  Pattern(w, Value(t, x)) = Pattern(w, x)
<1> DEFINE N == Power[Bits[t]]
           M == Power[Bits[w]]
           K == Power[Bits[t] - Bits[w]]
           v == Value(t, x)
<1>1. Bits[t] \in Nat /\ Bits[w] \in Nat /\ Bits[t] - Bits[w] \in Nat /\ Bits[w] + (Bits[t] - Bits[w]) = Bits[t]
  BY BitsAssumption
<1>2. N = M * K
  BY <1>1, PowerOfSum
<1>3. M \in Nat \ {0} /\ K \in Nat
  BY <1>1, PowerIs
<1>4. v \in Int /\ (v = x \/ v = x - N)
  BY ValueIs
<1> HIDE DEF N, M, K, v
<1>5. CASE v = x - N
  <2>1. v = x + M * (-K) /\ -K \in Int
    BY <1>5, <1>2, <1>3
  <2>2. v % M = x % M
    BY <2>1, <1>3, SameRest
  <2> QED BY <2>2 DEF Pattern, M, v
<1> QED BY <1>4, <1>5 DEF v

-----------------------------------------------------------------------------
(* Operands and commands. *)
LEMMA LenOf ==
  ASSUME NEW n \in Nat, NEW s, s = [k \in 1..n |-> s[k]]
  PROVE  Len(s) = n
<1>1. s \in [1..n -> {s[k] : k \in 1..n}]
  OBVIOUS
<1> QED BY <1>1

LEMMA Shifted ==
  ASSUME NEW p \in Operands, NEW i \in Int
  PROVE  LET q == param_shift(p, i) IN
         /\ q \in Operands /\ q.v = p.v /\ q.wide = p.wide
         /\ q.k = IF p.wide THEN p.k + i ELSE p.k
         /\ Cell(q) = <<p.v, IF p.wide THEN p.k + i ELSE p.k>>
         /\ \A m : Val(m, q) = m[Cell(q)]
         /\ i = 0 => Cell(q) = Cell(p)
<1>1. CASE p.wide
  <2> DEFINE q == param_shift(p, i)
  <2>0. p.v \in STRING \ {"imm", "t1", "t2"} /\ p.k \in Int
    BY DEF Operands
  <2>1. q = [p EXCEPT !.k = @ + i]
    BY <1>1 DEF param_shift
  <2>2. q = [v |-> p.v, k |-> p.k + i, wide |-> TRUE]
    BY <2>1, <1>1 DEF Operands
  <2> HIDE DEF q
  <2>3. q \in Operands
    BY <2>0, <2>2 DEF Operands
  <2> QED BY <2>0, <2>2, <2>3, <1>1 DEF Cell, Val, q
<1>2. CASE ~p.wide
  BY <1>2 DEF param_shift, Operands, Cell, Val
<1> QED BY <1>1, <1>2

LEMMA SensibleParts ==
  ASSUME NEW j, Sensible(j)
  PROVE  /\ j.n \in Nat \ {0} /\ j.r \in Operands /\ j.p \in [1 .. Arity(j) -> Operands] /\ Arity(j) \in Nat \ {0}
         /\ j.p \in Seq(Operands) /\ Len(j.p) = Arity(j)
         /\ HasTypes(j) /\ HasWords(j) /\ NothingOverwritten(j)
         /\ \A b \in j.memories : b = [c \in DOMAIN b |-> b[c]] /\ Holding(j, b)
         /\ Target(j) \in Operands
<1>1. /\ j.n \in Nat \ {0} /\ j.r \in Operands /\ j.p \in [1 .. Arity(j) -> Operands]
      /\ HasTypes(j) /\ HasWords(j) /\ NothingOverwritten(j)
      /\ \A b \in j.memories : b = [c \in DOMAIN b |-> b[c]] /\ Holding(j, b)
  BY DEF Sensible
<1>2. Arity(j) \in Nat \ {0}
  BY <1>1 DEF Arity
<1>3. Target(j) \in Operands
  BY <1>1, <1>2 DEF Target
<1>4. j.p \in Seq(Operands) /\ Len(j.p) = Arity(j)
  BY <1>1, <1>2
<1> QED BY <1>1, <1>2, <1>3, <1>4

LEMMA CommandIs ==
  ASSUME NEW inst, NEW t, NEW p
  PROVE  LET c == Command(inst, t, p) IN c.inst = inst /\ c.t = t /\ c.w = t /\ c.p = p
BY DEF Command

(* What a command makes of its last two operands. *)
Result(c, x, y) ==
  IF c.inst = "MOVSX" THEN Pattern(c.w, Value(c.t, y))
  ELSE IF c.inst = "MOVZX" THEN Pattern(c.w, y)
  ELSE IF c.inst \in Conversions THEN <<c.inst, y>>
  ELSE IF c.inst = "MOV" THEN y
  ELSE IF c.t \notin Floats THEN IntResult(c.inst, c.t, x, y)
  ELSE IF c.inst = "XOR" THEN <<"negative", x>> ELSE Term(c.inst, x, y)

LEMMA Computes ==
  ASSUME NEW m, NEW c
  PROVE  /\ Len(c.p) = 2 => Computed(m, c) = Result(c, Val(m, c.p[1]), Val(m, c.p[2]))
         /\ Len(c.p) = 3 => Computed(m, c) = Result(c, Val(m, c.p[2]), Val(m, c.p[3]))
<1> DEFINE x == Val(m, c.p[IF Len(c.p) = 3 THEN 2 ELSE 1])
           y == Val(m, c.p[Len(c.p)])
<1>1. Computed(m, c) = Result(c, x, y)
  BY DEF Computed, Result
<1>2. Len(c.p) = 2 => x = Val(m, c.p[1]) /\ y = Val(m, c.p[2])
  OBVIOUS
<1>3. Len(c.p) = 3 => x = Val(m, c.p[2]) /\ y = Val(m, c.p[3])
  OBVIOUS
<1> HIDE DEF x, y
<1> QED BY <1>1, <1>2, <1>3

LEMMA ResultIs ==
  ASSUME NEW c, NEW x, NEW y
  PROVE  /\ c.inst = "MOVSX" => Result(c, x, y) = Pattern(c.w, Value(c.t, y))
         /\ c.inst = "MOVZX" => Result(c, x, y) = Pattern(c.w, y)
         /\ c.inst \in Conversions \ {"MOVSX", "MOVZX"} => Result(c, x, y) = <<c.inst, y>>
         /\ c.inst = "MOV" => Result(c, x, y) = y
         /\ c.inst \notin Conversions \cup {"MOV"} =>
               Result(c, x, y) = IF c.t \notin Floats THEN IntResult(c.inst, c.t, x, y)
                                 ELSE IF c.inst = "XOR" THEN <<"negative", x>> ELSE Term(c.inst, x, y)
<1>1. {"MOVSX", "MOVZX"} \subseteq Conversions /\ "MOV" \notin Conversions
  BY DEF Conversions
<1> QED BY <1>1 DEF Result

(* Every operand a command reads is one that is to be found. *)
LEMMA ReadsWord ==
  ASSUME NEW j, Sensible(j), j.op # "Create", NEW i \in 1 .. j.n, NEW k \in 1 .. Arity(j)
  PROVE  /\ param_shift(j.p[k], i - 1) \in ReadFor(j, i)
         /\ param_shift(j.p[k], i - 1) \in Operands
         /\ \A m : Val(m, param_shift(j.p[k], i - 1)) = m[Cell(param_shift(j.p[k], i - 1))]
<1>1. j.p[k] \in Operands /\ k \in DOMAIN j.p /\ i - 1 \in Int
  BY SensibleParts
<1>2. /\ param_shift(j.p[k], i - 1) \in Operands
      /\ \A m : Val(m, param_shift(j.p[k], i - 1)) = m[Cell(param_shift(j.p[k], i - 1))]
  BY <1>1, Shifted
<1> QED BY <1>1, <1>2 DEF ReadFor

IsListOf(cs, n) == cs = [i \in 1 .. n |-> cs[i]] /\ Len(cs) = n

(* One command for each word, of two operands or of three. *)
LEMMA PointwiseIs ==
  ASSUME NEW j, j.n \in Nat \ {0}, NEW inst, NEW ps, NEW i \in 1 .. j.n
  PROVE  /\ IsListOf(Pointwise(j, inst, ps), j.n)
         /\ Pointwise(j, inst, ps)[i] = Command(inst, j.t, [k \in DOMAIN ps |-> param_shift(ps[k], i - 1)])
<1> DEFINE cs == Pointwise(j, inst, ps)
<1>1. cs = [h \in 1 .. j.n |-> Command(inst, j.t, [k \in DOMAIN ps |-> param_shift(ps[k], h - 1)])]
  BY DEF Pointwise
<1>2. cs = [h \in 1 .. j.n |-> cs[h]]
  BY <1>1
<1> HIDE DEF cs
<1>3. Len(cs) = j.n
  BY <1>2, LenOf
<1> QED BY <1>1, <1>2, <1>3 DEF IsListOf, cs

IsCommand2(c, inst, t, x, y) == c.inst = inst /\ c.t = t /\ c.p[1] = x /\ c.p[2] = y /\ Len(c.p) = 2
IsCommand3(c, inst, t, x, y, z) ==
  c.inst = inst /\ c.t = t /\ c.p[1] = x /\ c.p[2] = y /\ c.p[3] = z /\ Len(c.p) = 3

LEMMA Pointwise2 ==
  ASSUME NEW j, j.n \in Nat \ {0}, NEW inst, NEW x, NEW y, NEW i \in 1 .. j.n
  PROVE  LET cs == Pointwise(j, inst, <<x, y>>)
         IN IsListOf(cs, j.n) /\ IsCommand2(cs[i], inst, j.t, param_shift(x, i - 1), param_shift(y, i - 1))
<1> DEFINE ps == <<x, y>>
           c == Pointwise(j, inst, ps)[i]
           q == [k \in DOMAIN ps |-> param_shift(ps[k], i - 1)]
<1>1. DOMAIN ps = 1 .. 2 /\ ps[1] = x /\ ps[2] = y
  OBVIOUS
<1> HIDE DEF ps
<1>2. IsListOf(Pointwise(j, inst, ps), j.n) /\ c = Command(inst, j.t, q)
  BY PointwiseIs
<1>3. q = [k \in 1 .. 2 |-> q[k]] /\ q[1] = param_shift(x, i - 1) /\ q[2] = param_shift(y, i - 1)
  BY <1>1
<1> HIDE DEF q
<1>4. Len(q) = 2
  BY <1>3, LenOf
<1>5. IsCommand2(c, inst, j.t, param_shift(x, i - 1), param_shift(y, i - 1))
  BY <1>2, <1>3, <1>4, CommandIs DEF IsCommand2
<1> QED BY <1>2, <1>5 DEF ps

LEMMA Pointwise3 ==
  ASSUME NEW j, j.n \in Nat \ {0}, NEW inst, NEW x, NEW y, NEW z, NEW i \in 1 .. j.n
  PROVE  LET cs == Pointwise(j, inst, <<x, y, z>>)
         IN /\ IsListOf(cs, j.n)
            /\ IsCommand3(cs[i], inst, j.t, param_shift(x, i - 1), param_shift(y, i - 1), param_shift(z, i - 1))
<1> DEFINE ps == <<x, y, z>>
           c == Pointwise(j, inst, ps)[i]
           q == [k \in DOMAIN ps |-> param_shift(ps[k], i - 1)]
<1>1. DOMAIN ps = 1 .. 3 /\ ps[1] = x /\ ps[2] = y /\ ps[3] = z
  OBVIOUS
<1> HIDE DEF ps
<1>2. IsListOf(Pointwise(j, inst, ps), j.n) /\ c = Command(inst, j.t, q)
  BY PointwiseIs
<1>3. /\ q = [k \in 1 .. 3 |-> q[k]]
      /\ q[1] = param_shift(x, i - 1) /\ q[2] = param_shift(y, i - 1) /\ q[3] = param_shift(z, i - 1)
  BY <1>1
<1> HIDE DEF q
<1>4. Len(q) = 3
  BY <1>3, LenOf
<1>5. IsCommand3(c, inst, j.t, param_shift(x, i - 1), param_shift(y, i - 1), param_shift(z, i - 1))
  BY <1>2, <1>3, <1>4, CommandIs DEF IsCommand3
<1> QED BY <1>2, <1>5 DEF ps

(* The processor's operation on patterns and the operator on the numbers. *)
LEMMA SameResult ==
  ASSUME NEW t \in Ordinals, NEW op \in Arithmetic \ {"BitXOr"}, NEW x \in Patterns(t), NEW y \in Patterns(t),
         op \in {"ShiftLeft", "ShiftRight"} => Value(t, y) >= 0,
         op = "ShiftRight" => Value(t, x) >= 0
  PROVE  IntResult(IntInst[op], t, x, y) = Operator(op, t, x, y)
<1> DEFINE vx == Value(t, x)
           vy == Value(t, y)
<1>0. op \in {"Add", "Subtract", "Multiply", "Divide", "Modulo", "BitAnd", "BitOr", "ShiftRight", "ShiftLeft"}
  BY DEF Arithmetic, IntInst
<1>1. /\ x \in Int /\ y \in Int /\ vx \in Int /\ vy \in Int
      /\ x >= 0 /\ x < Power[Bits[t]] /\ Power[Bits[t]] \in Nat \ {0}
  BY ValueIs DEF Patterns
<1>2. t \notin Floats /\ DOMAIN Logic = {"AND", "OR", "XOR"} /\ DOMAIN BitOperators = {"BitAnd", "BitOr", "BitXOr"}
  BY LogicAssumption DEF Ordinals, SignedTypes, Floats, BitOperators
<1>3. op \notin DOMAIN BitOperators => Operator(op, t, x, y) = Pattern(t, IntOperator(op, vx, vy))
  BY <1>2 DEF Operator
<1> HIDE DEF vx, vy
<1>4. CASE op = "Add"
  <2>1. IntResult(IntInst[op], t, x, y) = Pattern(t, x + y) /\ IntOperator(op, vx, vy) = vx + vy
    BY <1>4, <1>2 DEF IntInst, IntResult, IntOperator
  <2>2. Pattern(t, vx + vy) = Pattern(t, x + vy)
    BY <1>1, SamePattern DEF vx
  <2>3. Pattern(t, vy + x) = Pattern(t, y + x)
    BY <1>1, SamePattern DEF vy
  <2>4. x + vy = vy + x /\ y + x = x + y
    BY <1>1
  <2> QED BY <2>1, <2>2, <2>3, <2>4, <1>2, <1>3, <1>4
<1>5. CASE op = "Subtract"
  <2>1. IntResult(IntInst[op], t, x, y) = Pattern(t, x - y) /\ IntOperator(op, vx, vy) = vx - vy
    BY <1>5, <1>2 DEF IntInst, IntResult, IntOperator
  <2>2. Pattern(t, vx - vy) = Pattern(t, vx - y)
    BY <1>1, SamePattern DEF vy
  <2>3. -y \in Int /\ vx - y = vx + (-y) /\ x - y = x + (-y)
    BY <1>1
  <2>4. Pattern(t, vx + (-y)) = Pattern(t, x + (-y))
    BY <1>1, <2>3, SamePattern DEF vx
  <2> QED BY <2>1, <2>2, <2>3, <2>4, <1>2, <1>3, <1>5
<1>6. CASE op = "Multiply"
  <2>1. IntResult(IntInst[op], t, x, y) = Pattern(t, x * y) /\ IntOperator(op, vx, vy) = vx * vy
    BY <1>6, <1>2 DEF IntInst, IntResult, IntOperator
  <2>2. Pattern(t, vx * vy) = Pattern(t, x * vy)
    BY <1>1, SamePattern DEF vx
  <2>3. Pattern(t, vy * x) = Pattern(t, y * x)
    BY <1>1, SamePattern DEF vy
  <2>4. x * vy = vy * x /\ y * x = x * y
    BY <1>1
  <2> QED BY <2>1, <2>2, <2>3, <2>4, <1>2, <1>3, <1>6
<1>7. CASE op \in {"Divide", "Modulo"}
  <2>1. IntResult(IntInst[op], t, x, y) = Pattern(t, IntOperator(op, vx, vy))
    <3>1. CASE op = "Divide"
      <4>1. IntInst[op] = "IDIV"
        BY <3>1 DEF IntInst
      <4> QED BY <4>1, <3>1, <1>2 DEF IntResult, IntOperator, vx, vy
    <3>2. CASE op = "Modulo"
      <4>1. IntInst[op] = "MODULO"
        BY <3>2 DEF IntInst
      <4> QED BY <4>1, <3>2, <1>2 DEF IntResult, IntOperator, vx, vy
    <3> QED BY <3>1, <3>2, <1>7
  <2> QED BY <2>1, <1>2, <1>3, <1>7
<1>8. CASE op \in {"BitAnd", "BitOr"}
  <2>1. IntResult(IntInst[op], t, x, y) = Logic[IntInst[op]][x, y]
    <3>1. IntInst[op] \in {"AND", "OR"}
      BY <1>8 DEF IntInst
    <3> QED BY <3>1, <1>2 DEF IntResult
  <2>2. Operator(op, t, x, y) = Logic[BitOperators[op]][x, y]
    BY <1>8, <1>2 DEF Operator
  <2>3. IntInst[op] = BitOperators[op]
    BY <1>8 DEF IntInst, BitOperators
  <2> QED BY <2>1, <2>2, <2>3
<1>9. CASE op = "ShiftLeft"
  <2>1. vy = y
    BY <1>9, ValueIs DEF vy
  <2>2. IntResult(IntInst[op], t, x, y) = Pattern(t, x * Power[y]) /\ IntOperator(op, vx, vy) = vx * Power[y]
    BY <1>9, <1>2, <2>1 DEF IntInst, IntResult, IntOperator
  <2>3. y \in Nat /\ Power[y] \in Int
    BY <1>1, <1>9, <2>1, PowerIs DEF vy
  <2>4. Pattern(t, vx * Power[y]) = Pattern(t, x * Power[y])
    BY <1>1, <2>3, SamePattern DEF vx
  <2> QED BY <2>2, <2>4, <1>2, <1>3, <1>9
<1>10. CASE op = "ShiftRight"
  <2>1. vy = y /\ vx = x
    BY <1>10, ValueIs DEF vx, vy
  <2>2. IntResult(IntInst[op], t, x, y) = x \div Power[y] /\ IntOperator(op, vx, vy) = x \div Power[y]
    BY <1>10, <1>2, <2>1 DEF IntInst, IntResult, IntOperator
  <2>3. y \in Nat /\ x \in Nat /\ Power[y] \in Nat \ {0}
    BY <1>1, <1>10, <2>1, PowerIs DEF vy
  <2>4. x \div Power[y] \in 0 .. x
    BY <2>3
  <2> DEFINE q == x \div Power[y]
             N == Power[Bits[t]]
  <2>5. q \in 0 .. N - 1 /\ N \in Nat \ {0}
    BY <2>3, <2>4, <1>1
  <2> HIDE DEF q, N
  <2>6. q % N = q
    BY <2>5
  <2>7. Pattern(t, q) = q
    BY <2>6 DEF Pattern, N
  <2> QED BY <2>2, <2>7, <1>2, <1>3, <1>10 DEF q
<1> QED BY <1>0, <1>4, <1>5, <1>6, <1>7, <1>8, <1>9, <1>10

-----------------------------------------------------------------------------
(* The functions that are one command for each word. *)
LEMMA Names ==
  /\ Arithmetic = {"Add", "Subtract", "Multiply", "Divide", "Modulo", "BitAnd", "BitOr", "BitXOr", "ShiftRight", "ShiftLeft"}
  /\ DOMAIN Assigns = {"AddAssign", "SubtractAssign", "MultiplyAssign", "DivideAssign"}
  /\ DOMAIN FloatInst = {"Add", "Subtract", "Multiply", "Divide"}
  /\ \A op \in DOMAIN Assigns : Assigns[op] \in DOMAIN FloatInst
  /\ Ordinals \cap Floats = {}
BY DEF Arithmetic, Assigns, IntInst, FloatInst, Ordinals, SignedTypes, Floats

(* Instructions that compute. *)
IsPlain(inst) == inst \notin Compares \cup Sets \cup Jumps

LEMMA PlainInstructions ==
  /\ \A op \in Arithmetic : IsPlain(IntInst[op]) /\ IntInst[op] \notin Conversions \cup {"MOV"}
  /\ \A op \in DOMAIN FloatInst : IsPlain(FloatInst[op]) /\ FloatInst[op] \notin Conversions \cup {"MOV", "XOR"}
  /\ \A inst \in Conversions \cup {"MOV", "ADD", "SUB", "AND", "OR", "XOR", "FADD", "FSUB", "FMUL", "FDIV", "IMUL"} : IsPlain(inst)
  /\ {"ADD", "SUB", "AND", "OR", "XOR", "FADD", "FSUB", "FMUL"} \cap (Conversions \cup {"MOV"}) = {}
<1>1. \A op \in Arithmetic : IntInst[op] \in {"ADD", "SUB", "IMUL", "IDIV", "MODULO", "AND", "OR", "SHR", "SHL"}
  BY DEF Arithmetic, IntInst
<1>2. \A op \in DOMAIN FloatInst : FloatInst[op] \in {"FADD", "FSUB", "FMUL", "FDIV"}
  BY DEF FloatInst
<1> QED BY <1>1, <1>2 DEF IsPlain, Compares, Sets, Jumps, Conversions

(* In a memory m that holds what b held where word i is computed from, command
   i computes what the function gives for b, and writes it to word i. *)
Stands(j, b, m, i) == \A p \in ReadFor(j, i) : m[Cell(p)] = b[Cell(p)]
Does(j, b, m, i) ==
  LET c == Code(j)[i] IN
  IsPlain(c.inst) /\ Cell(c.p[1]) = TargetWord(j, i) /\ Computed(m, c) = Meaning(j, b, i)
LEMMA OperandStands ==
  ASSUME NEW j, Sensible(j), j.op # "Create", NEW b, NEW m, NEW i \in 1 .. j.n, Stands(j, b, m, i), NEW k \in 1 .. Arity(j)
  PROVE  Val(m, param_shift(j.p[k], i - 1)) = Word(j, b, k, i)
BY ReadsWord DEF Stands, Word

(* The operands of a function, with the place of its result before them. *)
LEMMA OperandsAre ==
  ASSUME NEW j, Sensible(j)
  PROVE  /\ Arity(j) = 1 => <<j.r>> \o j.p = <<j.r, j.p[1]>>
         /\ Arity(j) = 2 => <<j.r>> \o j.p = <<j.r, j.p[1], j.p[2]>> /\ j.p = <<j.p[1], j.p[2]>>
<1> DEFINE q == <<j.r>> \o j.p
<1>1. j.p \in Seq(Operands) /\ Len(j.p) = Arity(j) /\ j.r \in Operands
  BY SensibleParts
<1>2. q \in Seq(Operands) /\ Len(q) = Len(j.p) + 1 /\ q[1] = j.r
  BY <1>1
<1>3. /\ Len(j.p) >= 1 => q[2] = j.p[1]
      /\ Len(j.p) = 2 => q[3] = j.p[2]
  BY <1>1
<1> HIDE DEF q
<1>4. Arity(j) = 1 => q = <<j.r, j.p[1]>>
  BY <1>1, <1>2, <1>3
<1>5. Arity(j) = 2 => q = <<j.r, j.p[1], j.p[2]>>
  BY <1>1, <1>2, <1>3
<1>6. Arity(j) = 2 => j.p = <<j.p[1], j.p[2]>>
  BY <1>1
<1> QED BY <1>4, <1>5, <1>6 DEF q

(* Operators on numbers, components of vectors, complex numbers. *)
LEMMA OperatorDoes ==
  ASSUME NEW j, Sensible(j), j.op \in Arithmetic, NEW b \in j.memories, NEW m, NEW i \in 1 .. j.n, Stands(j, b, m, i)
  PROVE  IsListOf(Code(j), j.n) /\ Does(j, b, m, i)
<1>0. Arity(j) = 2 /\ j.op # "BitXOr" /\ Target(j) = j.r /\ j.op # "Create"
  BY Names DEF Arity, Sensible, Target, InPlace, WordByWord, Tests, ChunkTests, WithTemps, Comparisons, Conversions
<1> DEFINE x == Word(j, b, 1, i)
           y == Word(j, b, 2, i)
           ps == <<j.r>> \o j.p
           inst == Inst(j.op, j.t)
           c == Code(j)[i]
<1>1. Code(j) = Pointwise(j, inst, ps)
  BY Names DEF Code, Comparisons, Conversions
<1>2. ps = <<j.r, j.p[1], j.p[2]>>
  BY <1>0, OperandsAre
<1>3. j.n \in Nat \ {0}
  BY SensibleParts
<1> HIDE DEF ps, inst
<1>4. /\ IsListOf(Code(j), j.n)
      /\ c.inst = inst /\ c.t = j.t /\ Len(c.p) = 3
      /\ c.p[1] = param_shift(j.r, i - 1) /\ c.p[2] = param_shift(j.p[1], i - 1) /\ c.p[3] = param_shift(j.p[2], i - 1)
  BY <1>1, <1>2, <1>3, Pointwise3 DEF IsCommand3
<1>5. Val(m, c.p[2]) = x /\ Val(m, c.p[3]) = y
  BY <1>0, <1>4, OperandStands
<1>6. Cell(c.p[1]) = TargetWord(j, i)
  BY <1>0, <1>4 DEF TargetWord
<1>7. Meaning(j, b, i) = Operator(j.op, j.t, x, y)
  BY Names DEF Meaning, Comparisons, Conversions
<1>8. CASE j.t \in Floats
  <2>1. j.op \in DOMAIN FloatInst /\ inst = FloatInst[j.op]
    <3>1. j.op \in OnFloats
      BY <1>8, SensibleParts, Names DEF HasTypes
    <3> QED BY <3>1, <1>8, Names DEF OnFloats, Comparisons, Conversions, Inst, inst
  <2>2. Computed(m, c) = Term(inst, x, y)
    BY <2>1, <1>4, <1>5, <1>8, Computes, ResultIs, PlainInstructions
  <2>3. Meaning(j, b, i) = Term(inst, x, y)
    BY <2>1, <1>7, <1>8 DEF Operator
  <2> QED BY <2>1, <2>2, <2>3, <1>4, <1>6, PlainInstructions DEF Does
<1>9. CASE j.t \notin Floats
  <2>1. inst = IntInst[j.op] /\ j.t \in Ordinals
    BY <1>9, SensibleParts DEF HasTypes, Inst, inst
  <2>2. Computed(m, c) = IntResult(inst, j.t, x, y)
    BY <2>1, <1>4, <1>5, <1>9, Computes, ResultIs, PlainInstructions
  <2>3. x \in Patterns(j.t) /\ y \in Patterns(j.t) /\ Defined(j, x, y)
    <3>1. Holding(j, b)
      BY SensibleParts
    <3>2. param_shift(j.p[1], i - 1) \in ReadFor(j, i) /\ param_shift(j.p[2], i - 1) \in ReadFor(j, i)
      BY <1>0, ReadsWord
    <3> QED BY <3>1, <3>2, <2>1, <1>0 DEF Holding, Word
  <2>4. IntResult(IntInst[j.op], j.t, x, y) = Operator(j.op, j.t, x, y)
    <3>1. j.op \in {"ShiftLeft", "ShiftRight"} => Value(j.t, y) >= 0
      BY <2>1, <2>3, BitsAssumption DEF Defined
    <3>2. j.op = "ShiftRight" => Value(j.t, x) >= 0
      BY <2>3 DEF Defined
    <3> QED BY <3>1, <3>2, <2>1, <2>3, <1>0, SameResult
  <2> QED BY <2>1, <2>2, <2>4, <1>4, <1>6, <1>7, PlainInstructions DEF Does
<1> QED BY <1>4, <1>8, <1>9

LEMMA AssignsDoes ==
  ASSUME NEW j, Sensible(j), j.op \in DOMAIN Assigns \cup {"Assign"}, NEW b \in j.memories, NEW m, NEW i \in 1 .. j.n, Stands(j, b, m, i)
  PROVE  IsListOf(Code(j), j.n) /\ Does(j, b, m, i)
<1>0. Arity(j) = 2 /\ Target(j) = j.p[1] /\ j.op # "Create"
  BY Names DEF Arity, Target, InPlace, Conversions
<1> DEFINE x == Word(j, b, 1, i)
           y == Word(j, b, 2, i)
           inst == IF j.op = "Assign" THEN "MOV" ELSE Inst(Assigns[j.op], j.t)
           c == Code(j)[i]
<1>1. Code(j) = Pointwise(j, inst, j.p)
  BY Names DEF Code, Comparisons, Conversions
<1>2. j.p = <<j.p[1], j.p[2]>> /\ j.n \in Nat \ {0}
  BY <1>0, SensibleParts, OperandsAre
<1> HIDE DEF inst
<1>4. /\ IsListOf(Code(j), j.n)
      /\ c.inst = inst /\ c.t = j.t /\ Len(c.p) = 2
      /\ c.p[1] = param_shift(j.p[1], i - 1) /\ c.p[2] = param_shift(j.p[2], i - 1)
  <2>1. Code(j) = Pointwise(j, inst, <<j.p[1], j.p[2]>>)
    BY <1>1, <1>2
  <2> QED BY <2>1, <1>2, Pointwise2 DEF IsCommand2
<1>5. Val(m, c.p[1]) = x /\ Val(m, c.p[2]) = y
  BY <1>0, <1>4, OperandStands
<1>6. Cell(c.p[1]) = TargetWord(j, i)
  BY <1>0, <1>4 DEF TargetWord
<1>7. CASE j.op = "Assign"
  <2>1. Meaning(j, b, i) = y
    BY <1>7, Names DEF Meaning, Comparisons, Conversions
  <2>2. inst = "MOV"
    BY <1>7 DEF inst
  <2>3. Computed(m, c) = y
    BY <2>2, <1>4, <1>5, Computes, ResultIs
  <2> QED BY <2>1, <2>2, <2>3, <1>4, <1>6, PlainInstructions DEF Does
<1>8. CASE j.op \in DOMAIN Assigns
  <2> DEFINE op == Assigns[j.op]
  <2>0. op \in DOMAIN FloatInst /\ op \in Arithmetic \ {"BitXOr"} /\ op \notin {"ShiftLeft", "ShiftRight"} /\ inst = Inst(op, j.t)
    BY <1>8, Names DEF inst
  <2>1. Meaning(j, b, i) = Operator(op, j.t, x, y)
    BY <1>8, Names DEF Meaning, Comparisons, Conversions
  <2> HIDE DEF op
  <2>2. CASE j.t \in Floats
    <3>1. inst = FloatInst[op]
      BY <2>0, <2>2 DEF Inst
    <3>0. inst \notin Conversions \cup {"MOV", "XOR"}
      BY <3>1, <2>0, PlainInstructions
    <3>2. Computed(m, c) = Term(inst, x, y)
      BY <3>0, <1>4, <1>5, <2>2, Computes, ResultIs
    <3>3. Meaning(j, b, i) = Term(inst, x, y)
      BY <3>1, <2>0, <2>1, <2>2 DEF Operator
    <3> QED BY <3>1, <3>2, <3>3, <2>0, <1>4, <1>6, PlainInstructions DEF Does
  <2>3. CASE j.t \notin Floats
    <3>1. inst = IntInst[op] /\ j.t \in Ordinals
      BY <2>0, <2>3, SensibleParts DEF HasTypes, Inst
    <3>0. inst \notin Conversions \cup {"MOV"}
      BY <3>1, <2>0, PlainInstructions
    <3>2. Computed(m, c) = IntResult(inst, j.t, x, y)
      BY <3>0, <1>4, <1>5, <2>3, Computes, ResultIs
    <3>3. x \in Patterns(j.t) /\ y \in Patterns(j.t)
      <4>1. Holding(j, b)
        BY SensibleParts
      <4>2. param_shift(j.p[1], i - 1) \in ReadFor(j, i) /\ param_shift(j.p[2], i - 1) \in ReadFor(j, i)
        BY <1>0, ReadsWord
      <4> QED BY <4>1, <4>2, <3>1 DEF Holding, Word
    <3>4. IntResult(IntInst[op], j.t, x, y) = Operator(op, j.t, x, y)
      BY <3>1, <3>3, <2>0, SameResult
    <3> QED BY <3>1, <3>2, <3>4, <2>0, <2>1, <1>4, <1>6, PlainInstructions DEF Does
  <2> QED BY <2>2, <2>3
<1> QED BY <1>4, <1>7, <1>8

LEMMA PassthroughDoes ==
  ASSUME NEW j, Sensible(j), j.op = "Passthrough", NEW b \in j.memories, NEW m, NEW i \in 1 .. j.n, Stands(j, b, m, i)
  PROVE  IsListOf(Code(j), j.n) /\ Does(j, b, m, i)
<1>0. Arity(j) = 1 /\ Target(j) = j.r /\ j.op # "Create"
  BY Names DEF Arity, Target, InPlace, Conversions
<1> DEFINE x == Word(j, b, 1, i)
           ps == <<j.r>> \o j.p
           c == Code(j)[i]
<1>1. Code(j) = Pointwise(j, "MOV", ps)
  BY Names DEF Code, Comparisons, Conversions
<1>2. ps = <<j.r, j.p[1]>>
  BY <1>0, OperandsAre
<1>3. j.n \in Nat \ {0}
  BY SensibleParts
<1> HIDE DEF ps
<1>4. /\ IsListOf(Code(j), j.n)
      /\ c.inst = "MOV" /\ c.t = j.t /\ Len(c.p) = 2
      /\ c.p[1] = param_shift(j.r, i - 1) /\ c.p[2] = param_shift(j.p[1], i - 1)
  BY <1>1, <1>2, <1>3, Pointwise2 DEF IsCommand2
<1>5. Val(m, c.p[2]) = x
  BY <1>0, <1>4, OperandStands
<1>6. Cell(c.p[1]) = TargetWord(j, i)
  BY <1>0, <1>4 DEF TargetWord
<1>7. Meaning(j, b, i) = x
  BY Names DEF Meaning, Comparisons, Conversions
<1>8. Computed(m, c) = x
  BY <1>4, <1>5, Computes, ResultIs
<1> QED BY <1>4, <1>6, <1>7, <1>8, PlainInstructions DEF Does

LEMMA FloatNegativeDoes ==
  ASSUME NEW j, Sensible(j), j.op = "Negative", j.t \in Floats, NEW b \in j.memories, NEW m, NEW i \in 1 .. j.n, Stands(j, b, m, i)
  PROVE  IsListOf(Code(j), j.n) /\ Does(j, b, m, i)
<1>0. Arity(j) = 1 /\ Target(j) = j.r /\ j.op # "Create"
  BY Names DEF Arity, Target, InPlace, Conversions
<1> DEFINE x == Word(j, b, 1, i)
           ps == <<j.r, j.p[1], param_imm(0)>>
           c == Code(j)[i]
<1>1. Code(j) = Pointwise(j, "XOR", ps)
  BY Names DEF Code, Comparisons, Conversions
<1>2. ps = <<j.r, j.p[1], param_imm(0)>>
  OBVIOUS
<1>3. j.n \in Nat \ {0}
  BY SensibleParts
<1> HIDE DEF ps
<1>4. /\ IsListOf(Code(j), j.n)
      /\ c.inst = "XOR" /\ c.t = j.t /\ Len(c.p) = 3
      /\ c.p[1] = param_shift(j.r, i - 1) /\ c.p[2] = param_shift(j.p[1], i - 1)
  BY <1>1, <1>2, <1>3, Pointwise3 DEF IsCommand3
<1>5. Val(m, c.p[2]) = x
  BY <1>0, <1>4, OperandStands
<1>6. Cell(c.p[1]) = TargetWord(j, i)
  BY <1>0, <1>4 DEF TargetWord
<1>7. Meaning(j, b, i) = <<"negative", x>>
  BY Names DEF Meaning, Comparisons, Conversions
<1>8. Computed(m, c) = <<"negative", x>>
  BY <1>4, <1>5, Computes, ResultIs, PlainInstructions
<1> QED BY <1>4, <1>6, <1>7, <1>8, PlainInstructions DEF Does

LEMMA CreateDoes ==
  ASSUME NEW j, Sensible(j), j.op = "Create", NEW b \in j.memories, NEW m, NEW i \in 1 .. j.n, Stands(j, b, m, i)
  PROVE  IsListOf(Code(j), j.n) /\ Does(j, b, m, i)
<1>0. Arity(j) = j.n /\ Target(j) = j.r
  BY Names DEF Arity, Target, InPlace, Conversions
<1> DEFINE c == Code(j)[i]
<1>1. Code(j) = [h \in 1 .. j.n |-> Command("MOV", j.t, <<param_shift(j.r, h - 1), j.p[h]>>)]
  BY Names DEF Code, Comparisons, Conversions
<1>2. j.n \in Nat \ {0} /\ j.p[i] \in Operands
  BY <1>0, SensibleParts
<1>3. IsListOf(Code(j), j.n)
  <2>1. Code(j) = [h \in 1 .. j.n |-> Code(j)[h]]
    BY <1>1
  <2> QED BY <2>1, <1>2, LenOf DEF IsListOf
<1>4. c.inst = "MOV" /\ c.t = j.t /\ c.p = <<param_shift(j.r, i - 1), j.p[i]>>
  BY <1>1, CommandIs
<1>5. Val(m, c.p[2]) = m[Cell(j.p[i])] /\ Cell(j.p[i]) = Cell(param_shift(j.p[i], 1 - 1))
  <2>1. j.p[i].v # "imm"
    BY <1>2 DEF Operands
  <2>2. Cell(param_shift(j.p[i], 0)) = Cell(j.p[i])
    BY <1>2, Shifted
  <2> QED BY <2>1, <2>2, <1>4 DEF Val
<1>6. m[Cell(j.p[i])] = b[Cell(j.p[i])]
  BY DEF Stands, ReadFor
<1>7. Meaning(j, b, i) = Word(j, b, i, 1)
  BY Names DEF Meaning, Comparisons, Conversions
<1>8. Word(j, b, i, 1) = m[Cell(j.p[i])]
  BY <1>5, <1>6 DEF Word
<1>9. Computed(m, c) = m[Cell(j.p[i])]
  <2>1. Len(c.p) = 2
    BY <1>4
  <2>2. Computed(m, c) = Result(c, Val(m, c.p[1]), Val(m, c.p[2]))
    BY <2>1, Computes
  <2>3. Computed(m, c) = Val(m, c.p[2])
    BY <2>2, <1>4, ResultIs
  <2> QED BY <2>3, <1>5
<1>10. Cell(c.p[1]) = TargetWord(j, i)
  BY <1>0, <1>4 DEF TargetWord
<1> QED BY <1>3, <1>4, <1>7, <1>8, <1>9, <1>10, PlainInstructions DEF Does

(* The functions that are one command. *)
LEMMA AloneWord ==
  ASSUME NEW j, Sensible(j), j.n = 1, j.op # "Create", NEW b, NEW m, Stands(j, b, m, 1)
  PROVE  /\ \A k \in 1 .. Arity(j) : Val(m, j.p[k]) = Word(j, b, k, 1)
         /\ Cell(Target(j)) = TargetWord(j, 1)
         /\ \A x : Val(m, param_imm(x)) = x
<1>1. ASSUME NEW k \in 1 .. Arity(j)
      PROVE  Val(m, j.p[k]) = Word(j, b, k, 1)
  <2>1. j.p[k] \in Operands /\ 1 \in 1 .. j.n /\ 1 - 1 = 0 /\ 0 \in Int
    BY SensibleParts
  <2>2. Val(m, param_shift(j.p[k], 0)) = Word(j, b, k, 1)
    BY <2>1, OperandStands
  <2>3. Val(m, param_shift(j.p[k], 0)) = m[Cell(param_shift(j.p[k], 0))] /\ Cell(param_shift(j.p[k], 0)) = Cell(j.p[k])
    <3> DEFINE p == j.p[k]
    <3>1. p \in Operands
      BY <2>1
    <3> HIDE DEF p
    <3>2. Val(m, param_shift(p, 0)) = m[Cell(param_shift(p, 0))]
      BY <3>1, Shifted
    <3>3. Cell(param_shift(p, 0)) = Cell(p)
      BY <3>1, Shifted
    <3> QED BY <3>2, <3>3 DEF p
  <2>4. Val(m, j.p[k]) = m[Cell(j.p[k])]
    BY <2>1 DEF Val, Operands
  <2> QED BY <2>2, <2>3, <2>4
<1>2. Cell(Target(j)) = TargetWord(j, 1)
  <2>1. Target(j) \in Operands /\ 1 - 1 = 0 /\ 0 \in Int
    BY SensibleParts
  <2> QED BY <2>1, Shifted DEF TargetWord
<1>3. \A x : Val(m, param_imm(x)) = x
  BY DEF Val, param_imm, Operand
<1> QED BY <1>1, <1>2, <1>3

LEMMA OneCommand ==
  ASSUME NEW c
  PROVE  IsListOf(<<c>>, 1) /\ <<c>>[1] = c
BY DEF IsListOf

(* A single command that computes the meaning from two operands or of three. *)
LEMMA AloneIs ==
  ASSUME NEW j, Sensible(j), j.n = 1, NEW b, NEW m, NEW c, Code(j) = <<c>>, IsPlain(c.inst),
         c.p[1] = Target(j), Cell(Target(j)) = TargetWord(j, 1),
         \/ Len(c.p) = 2 /\ Result(c, Val(m, c.p[1]), Val(m, c.p[2])) = Meaning(j, b, 1)
         \/ Len(c.p) = 3 /\ Result(c, Val(m, c.p[2]), Val(m, c.p[3])) = Meaning(j, b, 1)
  PROVE  IsListOf(Code(j), j.n) /\ Does(j, b, m, 1)
<1>1. Computed(m, c) = Meaning(j, b, 1)
  BY Computes
<1>2. Code(j)[1] = c
  BY OneCommand
<1> QED BY <1>1, <1>2, OneCommand DEF Does

LEMMA NumberAloneDoes ==
  ASSUME NEW j, Sensible(j), j.op \in {"SharedInit", "Negative", "Increase", "Decrease"}, j.t \in Ordinals,
         NEW b \in j.memories, NEW m, Stands(j, b, m, 1)
  PROVE  IsListOf(Code(j), j.n) /\ Does(j, b, m, 1) /\ j.n = 1
<1> DEFINE x == Word(j, b, 1, 1)
           y == Val(m, j.p[1])
<1>0. j.t \notin Floats /\ Arity(j) = 1 /\ j.op # "Create"
  BY Names DEF Arity, Conversions
<1>1. j.n = 1
  BY <1>0, SensibleParts DEF HasWords, Alone
<1>2. y = x /\ Cell(Target(j)) = TargetWord(j, 1) /\ Val(m, param_imm(0)) = 0 /\ Val(m, param_imm(1)) = 1
  BY <1>0, <1>1, AloneWord
<1>3. x \in Int
  <2>1. Holding(j, b) /\ param_shift(j.p[1], 1 - 1) \in ReadFor(j, 1)
    BY <1>0, <1>1, SensibleParts, ReadsWord
  <2>2. x \in Patterns(j.t)
    BY <2>1, <1>1 DEF Holding, Word
  <2> QED BY <2>2 DEF Patterns
<1> HIDE DEF x
<1>4. CASE j.op = "SharedInit"
  <2> DEFINE c == Command("MOV", j.t, <<j.p[1], param_imm(0)>>)
  <2>1. Code(j) = <<c>> /\ Meaning(j, b, 1) = 0 /\ Target(j) = j.p[1]
    BY <1>4, Names DEF Code, Meaning, Comparisons, Conversions, Target, InPlace
  <2>2. c.inst = "MOV" /\ c.p[1] = j.p[1] /\ c.p[2] = param_imm(0) /\ Len(c.p) = 2
    BY CommandIs
  <2> HIDE DEF c
  <2>3. Result(c, Val(m, c.p[1]), Val(m, c.p[2])) = 0
    BY <2>2, <1>2, ResultIs
  <2> QED BY <2>1, <2>2, <2>3, <1>1, <1>2, AloneIs, PlainInstructions
<1>5. CASE j.op = "Negative"
  <2> DEFINE c == Command("SUB", j.t, <<j.r, param_imm(0), j.p[1]>>)
  <2>1. Code(j) = <<c>> /\ Meaning(j, b, 1) = Pattern(j.t, -Value(j.t, x)) /\ Target(j) = j.r
    BY <1>0, <1>5, Names DEF Code, Meaning, Comparisons, Conversions, Target, InPlace, x
  <2>2. c.inst = "SUB" /\ c.t = j.t /\ c.p[1] = j.r /\ c.p[2] = param_imm(0) /\ c.p[3] = j.p[1] /\ Len(c.p) = 3
    BY CommandIs
  <2> HIDE DEF c
  <2>3. Result(c, Val(m, c.p[2]), Val(m, c.p[3])) = IntResult("SUB", j.t, 0, x)
    BY <2>2, <1>0, <1>2, ResultIs, PlainInstructions
  <2>4. IntResult("SUB", j.t, 0, x) = Pattern(j.t, 0 - x)
    BY LogicAssumption DEF IntResult
  <2>5. Pattern(j.t, 0 - Value(j.t, x)) = Pattern(j.t, 0 - x)
    BY <1>3, SamePattern
  <2>6. 0 - Value(j.t, x) = -Value(j.t, x)
    BY <1>3, ValueIs
  <2> QED BY <2>1, <2>2, <2>3, <2>4, <2>5, <2>6, <1>1, <1>2, AloneIs, PlainInstructions
<1>6. CASE j.op = "Increase"
  <2> DEFINE c == Command("ADD", j.t, <<j.p[1], param_imm(1)>>)
  <2>1. Code(j) = <<c>> /\ Meaning(j, b, 1) = Pattern(j.t, Value(j.t, x) + 1) /\ Target(j) = j.p[1]
    BY <1>6, Names DEF Code, Meaning, Comparisons, Conversions, Target, InPlace, x
  <2>2. c.inst = "ADD" /\ c.t = j.t /\ c.p[1] = j.p[1] /\ c.p[2] = param_imm(1) /\ Len(c.p) = 2
    BY CommandIs
  <2> HIDE DEF c
  <2>3. Result(c, Val(m, c.p[1]), Val(m, c.p[2])) = IntResult("ADD", j.t, x, 1)
    BY <2>2, <1>0, <1>2, ResultIs, PlainInstructions
  <2>4. IntResult("ADD", j.t, x, 1) = Pattern(j.t, x + 1)
    BY LogicAssumption DEF IntResult
  <2>5. Pattern(j.t, Value(j.t, x) + 1) = Pattern(j.t, x + 1)
    BY <1>3, SamePattern
  <2> QED BY <2>1, <2>2, <2>3, <2>4, <2>5, <1>1, <1>2, AloneIs, PlainInstructions
<1>7. CASE j.op = "Decrease"
  <2> DEFINE c == Command("SUB", j.t, <<j.p[1], param_imm(1)>>)
  <2>1. Code(j) = <<c>> /\ Meaning(j, b, 1) = Pattern(j.t, Value(j.t, x) - 1) /\ Target(j) = j.p[1]
    BY <1>7, Names DEF Code, Meaning, Comparisons, Conversions, Target, InPlace, x
  <2>2. c.inst = "SUB" /\ c.t = j.t /\ c.p[1] = j.p[1] /\ c.p[2] = param_imm(1) /\ Len(c.p) = 2
    BY CommandIs
  <2> HIDE DEF c
  <2>3. Result(c, Val(m, c.p[1]), Val(m, c.p[2])) = IntResult("SUB", j.t, x, 1)
    BY <2>2, <1>0, <1>2, ResultIs, PlainInstructions
  <2>4. IntResult("SUB", j.t, x, 1) = Pattern(j.t, x - 1)
    BY LogicAssumption DEF IntResult
  <2>5. Pattern(j.t, Value(j.t, x) - 1) = Pattern(j.t, x - 1)
    <3>1. -1 \in Int /\ Value(j.t, x) + (-1) = Value(j.t, x) - 1 /\ x + (-1) = x - 1
      BY <1>3, ValueIs
    <3>2. Pattern(j.t, Value(j.t, x) + (-1)) = Pattern(j.t, x + (-1))
      BY <1>3, <3>1, SamePattern
    <3> QED BY <3>1, <3>2
  <2> QED BY <2>1, <2>2, <2>3, <2>4, <2>5, <1>1, <1>2, AloneIs, PlainInstructions
<1> QED BY <1>1, <1>4, <1>5, <1>6, <1>7

LEMMA BoolAloneDoes ==
  ASSUME NEW j, Sensible(j), j.op \in {"BoolAnd", "BoolOr", "BoolNot"},
         NEW b \in j.memories, NEW m, Stands(j, b, m, 1)
  PROVE  IsListOf(Code(j), j.n) /\ Does(j, b, m, 1) /\ j.n = 1
<1> DEFINE x == Word(j, b, 1, 1)
           y == Word(j, b, 2, 1)
<1>0. /\ j.t = "bool" /\ j.t \in Ordinals /\ j.t \notin Floats /\ j.op # "Create" /\ Target(j) = j.r
      /\ Arity(j) = IF j.op = "BoolNot" THEN 1 ELSE 2
  BY Names, SensibleParts DEF Arity, Conversions, HasTypes, Ordinals, Target, InPlace
<1>1. j.n = 1
  BY <1>0, SensibleParts DEF HasWords, Alone
<1>2. \A k \in 1 .. Arity(j) : Val(m, j.p[k]) = Word(j, b, k, 1) /\ Word(j, b, k, 1) \in 0 .. 1
  <2>1. ASSUME NEW k \in 1 .. Arity(j)
        PROVE  Word(j, b, k, 1) \in 0 .. 1
    <3>1. Holding(j, b) /\ param_shift(j.p[k], 1 - 1) \in ReadFor(j, 1)
      BY <1>0, <1>1, SensibleParts, ReadsWord
    <3>2. Word(j, b, k, 1) \in Patterns("bool")
      BY <3>1, <1>0, <1>1 DEF Holding, Word
    <3>3. Power[Bits["bool"]] = 2
      <4>1. Power[0 + 1] = 2 * Power[0]
        BY PowerIs
      <4> QED BY <4>1, PowerIs, BitsAssumption
    <3> QED BY <3>2, <3>3 DEF Patterns
  <2> QED BY <2>1, <1>0, <1>1, AloneWord
<1>3. Cell(Target(j)) = TargetWord(j, 1) /\ Val(m, param_imm(1)) = 1
  BY <1>0, <1>1, AloneWord
<1>4. CASE j.op = "BoolNot"
  <2> DEFINE c == Command("XOR", j.t, <<j.r, j.p[1], param_imm(1)>>)
  <2>1. Code(j) = <<c>> /\ Meaning(j, b, 1) = Bool(x = 0)
    BY <1>4, Names DEF Code, Meaning, Comparisons, Conversions
  <2>2. c.inst = "XOR" /\ c.t = j.t /\ c.p[1] = j.r /\ c.p[2] = j.p[1] /\ c.p[3] = param_imm(1) /\ Len(c.p) = 3
    BY CommandIs
  <2>3. Val(m, j.p[1]) = x /\ x \in 0 .. 1
    BY <1>0, <1>2, <1>4
  <2> HIDE DEF c, x
  <2>4. Result(c, Val(m, c.p[2]), Val(m, c.p[3])) = IntResult("XOR", j.t, x, 1)
    BY <2>2, <2>3, <1>0, <1>3, ResultIs, PlainInstructions
  <2>5. IntResult("XOR", j.t, x, 1) = Logic["XOR"][x, 1]
    BY LogicAssumption DEF IntResult
  <2>6. Logic["XOR"][x, 1] = Bool(x = 0)
    <3>1. Logic["XOR"][x, 1] = 1 - x
      BY <2>3, LogicAssumption
    <3>2. Bool(x = 0) = 1 - x
      BY <2>3 DEF Bool
    <3> QED BY <3>1, <3>2
  <2>7. Result(c, Val(m, c.p[2]), Val(m, c.p[3])) = Meaning(j, b, 1)
    BY <2>1, <2>4, <2>5, <2>6
  <2> QED BY <2>1, <2>2, <2>7, <1>0, <1>1, <1>3, AloneIs, PlainInstructions
<1>5. CASE j.op # "BoolNot"
  <2> DEFINE inst == IF j.op = "BoolAnd" THEN "AND" ELSE "OR"
             c == Command(inst, j.t, <<j.r, j.p[1], j.p[2]>>)
  <2>1. Code(j) = <<c>> /\ Meaning(j, b, 1) = Bool(IF j.op = "BoolAnd" THEN x = 1 /\ y = 1 ELSE x = 1 \/ y = 1)
    <3>1. CASE j.op = "BoolAnd"
      BY <3>1, Names DEF Code, Meaning, Comparisons, Conversions
    <3>2. CASE j.op = "BoolOr"
      BY <3>2, Names DEF Code, Meaning, Comparisons, Conversions
    <3> QED BY <3>1, <3>2, <1>5
  <2>2. c.inst = inst /\ c.t = j.t /\ c.p[1] = j.r /\ c.p[2] = j.p[1] /\ c.p[3] = j.p[2] /\ Len(c.p) = 3
    BY CommandIs
  <2>3. Val(m, j.p[1]) = x /\ x \in 0 .. 1 /\ Val(m, j.p[2]) = y /\ y \in 0 .. 1
    BY <1>0, <1>2, <1>5
  <2> HIDE DEF c, x, y
  <2>4. inst \in {"AND", "OR"} /\ inst \notin Conversions \cup {"MOV"} /\ IsPlain(inst)
    BY PlainInstructions
  <2>5. Result(c, Val(m, c.p[2]), Val(m, c.p[3])) = IntResult(inst, j.t, x, y)
    BY <2>2, <2>3, <2>4, <1>0, ResultIs
  <2>6. IntResult(inst, j.t, x, y) = Logic[inst][x, y]
    BY <2>4, LogicAssumption DEF IntResult
  <2>7. Logic[inst][x, y] = Bool(IF j.op = "BoolAnd" THEN x = 1 /\ y = 1 ELSE x = 1 \/ y = 1)
    <3>1. CASE j.op = "BoolAnd"
      BY <3>1, <2>3, LogicAssumption DEF Bool
    <3>2. CASE j.op # "BoolAnd"
      BY <3>2, <2>3, LogicAssumption, ZenonT(40) DEF Bool
    <3> QED BY <3>1, <3>2
  <2> DEFINE both == Bool(IF j.op = "BoolAnd" THEN x = 1 /\ y = 1 ELSE x = 1 \/ y = 1)
  <2>8. Logic[inst][x, y] = both /\ Meaning(j, b, 1) = both
    BY <2>1, <2>7
  <2> HIDE DEF both
  <2>9. Result(c, Val(m, c.p[2]), Val(m, c.p[3])) = Meaning(j, b, 1)
    BY <2>5, <2>6, <2>8
  <2> QED BY <2>1, <2>2, <2>4, <2>9, <1>0, <1>1, <1>3, AloneIs
<1> QED BY <1>1, <1>4, <1>5

LEMMA ConversionDoes ==
  ASSUME NEW j, Sensible(j), j.op \in Conversions, NEW b \in j.memories, NEW m, Stands(j, b, m, 1)
  PROVE  IsListOf(Code(j), j.n) /\ Does(j, b, m, 1) /\ j.n = 1
<1> DEFINE x == Word(j, b, 1, 1)
           c == Convert(j.op, j.t, j.w, <<j.r, j.p[1]>>)
<1>0. Arity(j) = 1 /\ j.op # "Create" /\ Target(j) = j.r
  BY Names DEF Arity, Conversions, Target, InPlace
<1>1. j.n = 1
  BY <1>0, SensibleParts DEF HasWords, Alone
<1>2. Val(m, j.p[1]) = x /\ Cell(Target(j)) = TargetWord(j, 1)
  BY <1>0, <1>1, AloneWord
<1>3. Code(j) = <<c>>
  BY Names DEF Code, Comparisons, Conversions
<1>4. c.inst = j.op /\ c.t = j.t /\ c.w = j.w /\ c.p[1] = j.r /\ c.p[2] = j.p[1] /\ Len(c.p) = 2
  BY DEF Convert, Command
<1> HIDE DEF c
<1>5. Result(c, Val(m, c.p[1]), x) = Meaning(j, b, 1)
  <2>1. CASE j.op = "MOVSX"
    <3>1. Meaning(j, b, 1) = Pattern(j.w, Value(j.t, x))
      BY <2>1, Names DEF Meaning, Comparisons, Conversions
    <3> QED BY <3>1, <2>1, <1>4, ResultIs
  <2>2. CASE j.op = "MOVZX"
    <3>1. Meaning(j, b, 1) = Pattern(j.w, Value(j.t, x))
      BY <2>2, Names DEF Meaning, Comparisons, Conversions
    <3>2. Result(c, Val(m, c.p[1]), x) = Pattern(j.w, x)
      BY <2>2, <1>4, ResultIs
    <3>3. j.t \in Ordinals /\ j.w \in Ordinals /\ (j.t \in SignedTypes => Bits[j.w] <= Bits[j.t])
      BY <2>2, SensibleParts DEF HasTypes, OnFloats, Assigns, FloatInst, Comparisons
    <3>4. x \in Int
      <4>1. Holding(j, b) /\ param_shift(j.p[1], 1 - 1) \in ReadFor(j, 1)
        BY <1>0, <1>1, SensibleParts, ReadsWord
      <4>2. x \in Patterns(j.t)
        BY <4>1, <3>3, <1>1 DEF Holding, Word
      <4> QED BY <4>2 DEF Patterns
    <3>5. Pattern(j.w, Value(j.t, x)) = Pattern(j.w, x)
      <4> HIDE DEF x
      <4>1. CASE j.t \in SignedTypes
        BY <4>1, <3>3, <3>4, SameLowBits
      <4>2. CASE j.t \notin SignedTypes
        <5>1. Value(j.t, x) = x
          BY <4>2, <3>3, <3>4, ValueIs
        <5> QED BY <5>1
      <4> QED BY <4>1, <4>2
    <3> QED BY <3>1, <3>2, <3>5
  <2>3. CASE j.op \notin {"MOVSX", "MOVZX"}
    <3>1. Meaning(j, b, 1) = <<j.op, x>>
      BY <2>3, Names DEF Meaning, Comparisons, Conversions
    <3> QED BY <3>1, <2>3, <1>4, ResultIs
  <2> QED BY <2>1, <2>2, <2>3
<1> QED BY <1>0, <1>1, <1>2, <1>3, <1>4, <1>5, AloneIs, PlainInstructions

(* Every function that works word by word does. *)
LEMMA WordDoes ==
  ASSUME NEW j, Sensible(j), j.op \in WordByWord, NEW b \in j.memories, NEW m, NEW i \in 1 .. j.n, Stands(j, b, m, i)
  PROVE  IsListOf(Code(j), j.n) /\ Does(j, b, m, i)
<1>1. CASE j.op \in Arithmetic
  BY <1>1, OperatorDoes
<1>2. CASE j.op \in DOMAIN Assigns \cup {"Assign"}
  BY <1>2, AssignsDoes
<1>3. CASE j.op = "Passthrough"
  BY <1>3, PassthroughDoes
<1>4. CASE j.op = "Create"
  BY <1>4, CreateDoes
<1>5. CASE j.op = "Negative" /\ j.t \in Floats
  BY <1>5, FloatNegativeDoes
<1>6. CASE j.op \in {"SharedInit", "Increase", "Decrease"} \/ (j.op = "Negative" /\ j.t \notin Floats)
  <2>1. j.n = 1 /\ j.t \in Ordinals
    BY <1>6, Names, SensibleParts DEF HasWords, HasTypes, Alone, OnFloats, Comparisons, Conversions
  <2>2. i = 1
    BY <2>1
  <2> QED BY <1>6, <2>1, <2>2, NumberAloneDoes
<1>7. CASE j.op \in {"BoolAnd", "BoolOr", "BoolNot"} \cup Conversions
  <2>1. j.n = 1
    BY <1>7, SensibleParts DEF HasWords, Alone
  <2>2. i = 1
    BY <2>1
  <2> QED BY <1>7, <2>2, BoolAloneDoes, ConversionDoes
<1> QED BY <1>1, <1>2, <1>3, <1>4, <1>5, <1>6, <1>7 DEF WordByWord, Alone

-----------------------------------------------------------------------------
(* The functions that compare. *)
LEMMA ConditionIs ==
  ASSUME NEW f
  PROVE  /\ Condition(f, "SETZ") = f.z /\ Condition(f, "SETNZ") = ~f.z
         /\ Condition(f, "JZ") = f.z /\ Condition(f, "JNZ") = ~f.z
         /\ Condition(f, "SETL") = f.l /\ Condition(f, "SETNL") = ~f.l
         /\ Condition(f, "SETLE") = (f.l \/ f.z) /\ Condition(f, "SETNLE") = ~(f.l \/ f.z)
         /\ Condition(f, "SETB") = f.b /\ Condition(f, "SETNB") = ~f.b
         /\ Condition(f, "SETBE") = (f.b \/ f.z) /\ Condition(f, "SETNBE") = ~(f.b \/ f.z)
BY DEF Condition

(* What SETcc says after a comparison of two numbers or floats, of which less
   is what the flag says that the types of the table use. *)
LEMMA SetsByOrder ==
  ASSUME NEW op \in Comparisons, NEW t, NEW f, NEW order \in {"less", "equal", "greater"},
         f.z = (order = "equal"),
         t \in SignedTypes => f.l = (order = "less"),
         t \notin SignedTypes => f.b = (order = "less")
  PROVE  SetInst(op, t) \in Sets /\ Bool(Condition(f, SetInst(op, t))) = Bool(Holds(op, order))
<1>1. /\ Holds("Equal", order) = (order = "equal") /\ Holds("NotEqual", order) = (order # "equal")
      /\ Holds("Greater", order) = (order = "greater") /\ Holds("GreaterEqual", order) = (order \in {"greater", "equal"})
      /\ Holds("Smaller", order) = (order = "less") /\ Holds("SmallerEqual", order) = (order \in {"less", "equal"})
  BY DEF Holds
<1>2. op \in {"Equal", "NotEqual", "Greater", "GreaterEqual", "Smaller", "SmallerEqual"}
  BY DEF Comparisons
<1>3. CASE t \in SignedTypes
  <2>1. /\ SetInst("Equal", t) = "SETZ" /\ SetInst("NotEqual", t) = "SETNZ" /\ SetInst("Greater", t) = "SETNLE"
        /\ SetInst("GreaterEqual", t) = "SETNL" /\ SetInst("Smaller", t) = "SETL" /\ SetInst("SmallerEqual", t) = "SETLE"
    BY <1>3 DEF SetInst
  <2>2. Condition(f, SetInst(op, t)) <=> Holds(op, order)
    <3>1. CASE op = "Equal"
      BY <3>1, <2>1, <1>1, <1>3, ConditionIs, Zenon
    <3>2. CASE op = "NotEqual"
      BY <3>2, <2>1, <1>1, <1>3, ConditionIs, Zenon
    <3>3. CASE op = "Greater"
      BY <3>3, <2>1, <1>1, <1>3, ConditionIs, Zenon
    <3>4. CASE op = "GreaterEqual"
      BY <3>4, <2>1, <1>1, <1>3, ConditionIs, Zenon
    <3>5. CASE op = "Smaller"
      BY <3>5, <2>1, <1>1, <1>3, ConditionIs, Zenon
    <3>6. CASE op = "SmallerEqual"
      BY <3>6, <2>1, <1>1, <1>3, ConditionIs, Zenon
    <3> QED BY <3>1, <3>2, <3>3, <3>4, <3>5, <3>6, <1>2
  <2> QED BY <2>1, <2>2, <1>2 DEF Sets, Bool
<1>4. CASE t \notin SignedTypes
  <2>1. /\ SetInst("Equal", t) = "SETZ" /\ SetInst("NotEqual", t) = "SETNZ" /\ SetInst("Greater", t) = "SETNBE"
        /\ SetInst("GreaterEqual", t) = "SETNB" /\ SetInst("Smaller", t) = "SETB" /\ SetInst("SmallerEqual", t) = "SETBE"
    BY <1>4 DEF SetInst
  <2>2. Condition(f, SetInst(op, t)) <=> Holds(op, order)
    <3>1. CASE op = "Equal"
      BY <3>1, <2>1, <1>1, <1>4, ConditionIs, Zenon
    <3>2. CASE op = "NotEqual"
      BY <3>2, <2>1, <1>1, <1>4, ConditionIs, Zenon
    <3>3. CASE op = "Greater"
      BY <3>3, <2>1, <1>1, <1>4, ConditionIs, Zenon
    <3>4. CASE op = "GreaterEqual"
      BY <3>4, <2>1, <1>1, <1>4, ConditionIs, Zenon
    <3>5. CASE op = "Smaller"
      BY <3>5, <2>1, <1>1, <1>4, ConditionIs, Zenon
    <3>6. CASE op = "SmallerEqual"
      BY <3>6, <2>1, <1>1, <1>4, ConditionIs, Zenon
    <3> QED BY <3>1, <3>2, <3>3, <3>4, <3>5, <3>6, <1>2
  <2> QED BY <2>1, <2>2, <1>2 DEF Sets, Bool
<1> QED BY <1>3, <1>4

(* Two commands: a comparison in the memory b, and a byte that says how it ended. *)
TestIs(j, b) ==
  LET cs == Code(j) IN
  /\ Len(cs) = 2 /\ cs[1].inst \in Compares /\ cs[2].inst \in Sets
  /\ Cell(cs[2].p[1]) = Cell(j.r)
  /\ Bool(Condition(Compared(j, b, cs[1]), cs[2].inst)) = Meaning(j, b, 1)

LEMMA TwoCommands ==
  ASSUME NEW j, NEW b, NEW c1, NEW c2, Code(j) = <<c1, c2>>, c1.inst \in Compares, c2.inst \in Sets, c2.p[1] = j.r,
         Bool(Condition(Compared(j, b, c1), c2.inst)) = Meaning(j, b, 1)
  PROVE  TestIs(j, b)
<1>1. Len(Code(j)) = 2 /\ Code(j)[1] = c1 /\ Code(j)[2] = c2
  OBVIOUS
<1> QED BY <1>1 DEF TestIs

LEMMA FloatsCompared ==
  ASSUME NEW j, NEW b, NEW c, c.inst = "FCMP"
  PROVE  /\ Compared(j, b, c).z = (j.order \in {"equal", "unordered"})
         /\ Compared(j, b, c).b = (j.order \in {"less", "unordered"})
BY DEF Compared

LEMMA NumbersCompared ==
  ASSUME NEW j, NEW b, NEW c, c.inst # "FCMP", ~c.p[1].wide
  PROVE  /\ Compared(j, b, c).z = (Val(b, c.p[1]) = Val(b, c.p[2]))
         /\ Compared(j, b, c).b = (Val(b, c.p[1]) < Val(b, c.p[2]))
         /\ Compared(j, b, c).l = (Value(c.t, Val(b, c.p[1])) < Value(c.t, Val(b, c.p[2])))
BY DEF Compared

LEMMA ChunksCompared ==
  ASSUME NEW j, NEW b, NEW c, c.inst # "FCMP", c.p[1].wide
  PROVE  Compared(j, b, c).z = \A i \in 0 .. j.n - 1 : Val(b, param_shift(c.p[1], i)) = Val(b, param_shift(c.p[2], i))
BY DEF Compared

LEMMA ComparisonDoes ==
  ASSUME NEW j, Sensible(j), j.op \in Comparisons, NEW b \in j.memories
  PROVE  TestIs(j, b)
<1> DEFINE x == Word(j, b, 1, 1)
           y == Word(j, b, 2, 1)
           order == Order(j, b)
           c1 == Command(IF j.t \in Floats THEN "FCMP" ELSE "CMP", j.t, j.p)
           c2 == Command(SetInst(j.op, j.t), "bool", <<j.r>>)
           f == Compared(j, b, c1)
<1>0. Arity(j) = 2 /\ j.op # "Create" /\ j.op \in Tests
  BY DEF Arity, Conversions, Comparisons, Tests
<1>1. j.n = 1 /\ ~j.p[1].wide
  BY <1>0, SensibleParts DEF HasWords
<1>2. Val(b, j.p[1]) = x /\ Val(b, j.p[2]) = y
  BY <1>0, <1>1, AloneWord DEF Stands
<1>3. Code(j) = <<c1, c2>> /\ Meaning(j, b, 1) = Bool(Holds(j.op, order))
  BY Names DEF Code, Meaning, Comparisons, Conversions
<1>4. c1.t = j.t /\ c1.p = j.p /\ c1.inst = (IF j.t \in Floats THEN "FCMP" ELSE "CMP") /\ c2.inst = SetInst(j.op, j.t) /\ c2.p[1] = j.r
  BY CommandIs
<1> HIDE DEF c1, c2
<1>5. /\ order \in {"less", "equal", "greater"}
      /\ f.z = (order = "equal")
      /\ j.t \in SignedTypes => f.l = (order = "less")
      /\ j.t \notin SignedTypes => f.b = (order = "less")
  <2>1. CASE j.t \in Floats
    <3>1. order = j.order /\ j.order \in {"less", "equal", "greater"}
      BY <2>1 DEF Order, Sensible
    <3>2. j.t \notin SignedTypes
      BY <2>1, Names DEF Ordinals
    <3>3. f.z = (j.order \in {"equal", "unordered"}) /\ f.b = (j.order \in {"less", "unordered"})
      BY <2>1, <1>4, FloatsCompared
    <3> HIDE DEF f, order
    <3> QED BY <3>1, <3>2, <3>3
  <2>2. CASE j.t \notin Floats
    <3>1. j.t \in Ordinals
      BY <2>2, SensibleParts DEF HasTypes
    <3>2. x \in Patterns(j.t) /\ y \in Patterns(j.t)
      <4>1. Holding(j, b) /\ param_shift(j.p[1], 1 - 1) \in ReadFor(j, 1) /\ param_shift(j.p[2], 1 - 1) \in ReadFor(j, 1)
        BY <1>0, <1>1, SensibleParts, ReadsWord
      <4> QED BY <4>1, <1>1, <3>1 DEF Holding, Word
    <3>3. f.z = (x = y) /\ f.l = (Value(j.t, x) < Value(j.t, y)) /\ f.b = (x < y)
      <4>1. c1.inst # "FCMP" /\ ~c1.p[1].wide /\ c1.t = j.t /\ Val(b, c1.p[1]) = x /\ Val(b, c1.p[2]) = y
        BY <2>2, <1>1, <1>2, <1>4
      <4> HIDE DEF x, y
      <4>2. f.z = (Val(b, c1.p[1]) = Val(b, c1.p[2]))
        BY <4>1, NumbersCompared, Zenon
      <4>3. f.b = (Val(b, c1.p[1]) < Val(b, c1.p[2]))
        BY <4>1, NumbersCompared, ZenonT(40)
      <4>4. f.l = (Value(c1.t, Val(b, c1.p[1])) < Value(c1.t, Val(b, c1.p[2])))
        BY <4>1, NumbersCompared, ZenonT(40)
      <4> QED BY <4>1, <4>2, <4>3, <4>4
    <3>4. order = IF Value(j.t, x) < Value(j.t, y) THEN "less" ELSE IF Value(j.t, x) = Value(j.t, y) THEN "equal" ELSE "greater"
      BY <2>2 DEF Order
    <3> HIDE DEF x, y, f, order
    <3>5. x \in Int /\ y \in Int
      BY <3>2 DEF Patterns
    <3> DEFINE v == Value(j.t, x)
               w == Value(j.t, y)
    <3>6. v \in Int /\ w \in Int /\ (v = w <=> x = y) /\ (j.t \notin SignedTypes => v = x /\ w = y)
      BY <3>1, <3>2, <3>5, ValueIs
    <3>7. f.z = (x = y) /\ f.l = (v < w) /\ f.b = (x < y)
      BY <3>3
    <3>8. order = IF v < w THEN "less" ELSE IF v = w THEN "equal" ELSE "greater"
      BY <3>4
    <3> HIDE DEF v, w
    <3>9. order \in {"less", "equal", "greater"} /\ (order = "equal" <=> v = w) /\ (order = "less" <=> v < w)
      BY <3>6, <3>8
    <3> QED BY <3>6, <3>7, <3>9
  <2> QED BY <2>1, <2>2
<1> HIDE DEF f, order
<1>6. SetInst(j.op, j.t) \in Sets /\ Bool(Condition(f, SetInst(j.op, j.t))) = Bool(Holds(j.op, order))
  BY <1>5, SetsByOrder
<1>7. c1.inst \in Compares /\ c2.inst \in Sets
  BY <1>4, <1>6 DEF Compares
<1>8. Bool(Condition(f, c2.inst)) = Meaning(j, b, 1)
  BY <1>3, <1>4, <1>6
<1> QED BY <1>3, <1>4, <1>7, <1>8, TwoCommands DEF f

LEMMA PointerToBoolDoes ==
  ASSUME NEW j, Sensible(j), j.op = "PointerToBool", NEW b \in j.memories
  PROVE  TestIs(j, b)
<1> DEFINE x == Word(j, b, 1, 1)
           c1 == Command("CMP", j.t, <<j.p[1], param_imm(0)>>)
           c2 == Command("SETNZ", "bool", <<j.r>>)
           f == Compared(j, b, c1)
<1>0. Arity(j) = 1 /\ j.op # "Create" /\ j.op \in Tests
  BY DEF Arity, Conversions, Comparisons, Tests
<1>1. j.n = 1 /\ ~j.p[1].wide
  BY <1>0, SensibleParts DEF HasWords
<1>2. Val(b, j.p[1]) = x /\ Val(b, param_imm(0)) = 0
  BY <1>0, <1>1, AloneWord DEF Stands
<1>3. Code(j) = <<c1, c2>> /\ Meaning(j, b, 1) = Bool(x # 0)
  BY Names DEF Code, Meaning, Comparisons, Conversions
<1>4. c1.p = <<j.p[1], param_imm(0)>> /\ c1.inst = "CMP" /\ c2.inst = "SETNZ" /\ c2.p[1] = j.r
  BY CommandIs
<1> HIDE DEF c1, c2
<1>5. f.z = (x = 0)
  <2>1. c1.inst # "FCMP" /\ ~c1.p[1].wide /\ Val(b, c1.p[1]) = x /\ Val(b, c1.p[2]) = 0
    BY <1>1, <1>2, <1>4
  <2> HIDE DEF x
  <2>2. f.z = (Val(b, c1.p[1]) = Val(b, c1.p[2]))
    BY <2>1, NumbersCompared, ZenonT(40)
  <2> QED BY <2>1, <2>2
<1> HIDE DEF f, x
<1>6. Condition(f, "SETNZ") = ~f.z
  BY ConditionIs
<1>7. Bool(Condition(f, c2.inst)) = Meaning(j, b, 1)
  BY <1>3, <1>4, <1>5, <1>6 DEF Bool
<1>8. c1.inst \in Compares /\ c2.inst \in Sets
  BY <1>4 DEF Compares, Sets
<1> QED BY <1>3, <1>4, <1>7, <1>8, TwoCommands DEF f

(* What SETZ or SETNZ makes of a chunk that fits into a pointer. *)
LEMMA SmallChunkDoes ==
  ASSUME NEW j, Sensible(j), j.op \in ChunkTests, j.n <= PointerWords, NEW b \in j.memories
  PROVE  TestIs(j, b)
<1> DEFINE set == IF j.op = "ChunkEqual" THEN "SETZ" ELSE "SETNZ"
           c1 == Command("CMP", j.t, j.p)
           c2 == Command(set, "bool", <<j.r>>)
           f == Compared(j, b, c1)
<1>0. Arity(j) = 2 /\ j.n \in Nat \ {0} /\ j.p[1].wide /\ j.p[1] \in Operands /\ j.p[2] \in Operands
  BY SensibleParts DEF Arity, Conversions, Comparisons, ChunkTests, HasWords
<1>1. Code(j) = <<c1, c2>>
  BY Names DEF Code, Comparisons, Conversions, ChunkTests, ChunkCompare
<1>2. Meaning(j, b, 1) = Bool(IF j.op = "ChunkEqual" THEN SameChunk(j, b) ELSE ~SameChunk(j, b))
  <2>1. CASE j.op = "ChunkEqual"
    BY <2>1, Names DEF Meaning, Comparisons, Conversions
  <2>2. CASE j.op = "ChunkNotEqual"
    BY <2>2, Names DEF Meaning, Comparisons, Conversions
  <2> QED BY <2>1, <2>2 DEF ChunkTests
<1>3. c1.p = j.p /\ c1.inst = "CMP" /\ c2.inst = set /\ c2.p[1] = j.r
  BY CommandIs
<1> HIDE DEF c1, c2
<1>4. f.z = \A i \in 0 .. j.n - 1 : Val(b, param_shift(j.p[1], i)) = Val(b, param_shift(j.p[2], i))
  <2>1. c1.inst # "FCMP" /\ c1.p[1].wide /\ c1.p = j.p
    BY <1>0, <1>3
  <2>2. f.z = \A i \in 0 .. j.n - 1 : Val(b, param_shift(c1.p[1], i)) = Val(b, param_shift(c1.p[2], i))
    BY <2>1, ChunksCompared, Zenon
  <2> QED BY <2>1, <2>2, Zenon
<1>5. (\A i \in 0 .. j.n - 1 : Val(b, param_shift(j.p[1], i)) = Val(b, param_shift(j.p[2], i))) <=> SameChunk(j, b)
  <2>1. \A i \in Int : /\ Val(b, param_shift(j.p[1], i)) = b[Cell(param_shift(j.p[1], i))]
                       /\ Val(b, param_shift(j.p[2], i)) = b[Cell(param_shift(j.p[2], i))]
    <3> DEFINE p == j.p[1]
               q == j.p[2]
    <3>1. p \in Operands /\ q \in Operands
      BY <1>0
    <3> HIDE DEF p, q
    <3>2. \A i \in Int : Val(b, param_shift(p, i)) = b[Cell(param_shift(p, i))]
      BY <3>1, Shifted
    <3>3. \A i \in Int : Val(b, param_shift(q, i)) = b[Cell(param_shift(q, i))]
      BY <3>1, Shifted
    <3> QED BY <3>2, <3>3 DEF p, q
  <2>2. \A i \in 0 .. j.n - 1 : i \in Int /\ i + 1 \in 1 .. j.n /\ (i + 1) - 1 = i
    BY <1>0
  <2>3. \A i \in 1 .. j.n : i - 1 \in Int /\ i - 1 \in 0 .. j.n - 1
    BY <1>0
  <2> DEFINE E(i) == b[Cell(param_shift(j.p[1], i))] = b[Cell(param_shift(j.p[2], i))]
  <2>4. (\A i \in 0 .. j.n - 1 : Val(b, param_shift(j.p[1], i)) = Val(b, param_shift(j.p[2], i))) <=> \A i \in 0 .. j.n - 1 : E(i)
    BY <2>1, <2>2
  <2>5. SameChunk(j, b) <=> \A i \in 1 .. j.n : E(i - 1)
    BY DEF SameChunk, Word
  <2> HIDE DEF E
  <2>6. (\A i \in 0 .. j.n - 1 : E(i)) <=> \A i \in 1 .. j.n : E(i - 1)
    BY <2>2, <2>3
  <2> QED BY <2>4, <2>5, <2>6
<1> HIDE DEF f
<1>6. Condition(f, "SETZ") = f.z /\ Condition(f, "SETNZ") = ~f.z
  BY ConditionIs
<1> DEFINE same == SameChunk(j, b)
<1>7. f.z <=> same
  BY <1>4, <1>5
<1> HIDE DEF same
<1>8. Bool(Condition(f, c2.inst)) = Bool(IF j.op = "ChunkEqual" THEN same ELSE ~same)
  BY <1>3, <1>6, <1>7 DEF Bool
<1>9. c1.inst \in Compares /\ c2.inst \in Sets
  BY <1>3 DEF Compares, Sets
<1> QED BY <1>1, <1>2, <1>3, <1>8, <1>9, TwoCommands DEF f, same

-----------------------------------------------------------------------------
(* One command after the other. *)
AllSensible == \A j \in Jobs : Sensible(j)

LEMMA StepIs ==
  ASSUME Next
  PROVE  /\ pc <= Len(code) /\ job' = job /\ code' = code /\ before' = before
         /\ IsPlain(Now.inst) => pc' = pc + 1 /\ mem' = [mem EXCEPT ![Cell(Now.p[1])] = Computed(mem, Now)]
         /\ Now.inst \in Compares => pc' = pc + 1 /\ mem' = mem /\ flags' = Compared(job, mem, Now)
         /\ Now.inst \in Sets =>
               /\ pc' = pc + 1 /\ flags' = flags
               /\ mem' = [mem EXCEPT ![Cell(Now.p[1])] = Bool(Condition(flags, Now.inst))]
         /\ Now.inst \in Jumps => pc' = (IF Condition(flags, Now.inst) THEN Now.to ELSE pc + 1) /\ mem' = mem /\ flags' = flags
<1>1. Compares \cap Sets = {} /\ Compares \cap Jumps = {} /\ Sets \cap Jumps = {}
  BY DEF Compares, Sets, Jumps
<1>2. CASE Compute
  BY <1>1, <1>2 DEF Compute, Write, Running, IsPlain
<1>3. CASE Compare
  BY <1>1, <1>3 DEF Compare, Running, IsPlain
<1>4. CASE SetByte
  BY <1>1, <1>4 DEF SetByte, Write, Running, IsPlain
<1>5. CASE JumpIf
  BY <1>1, <1>5 DEF JumpIf, Running, IsPlain
<1> QED BY <1>2, <1>3, <1>4, <1>5 DEF Next

(* What every class of functions shares. *)
LEMMA Shell ==
  ASSUME AllSensible, SoFar
  PROVE  /\ Sensible(job) /\ code = Code(job) /\ before \in job.memories
         /\ before = [c \in DOMAIN before |-> before[c]] /\ mem = [c \in DOMAIN before |-> mem[c]]
         /\ DOMAIN mem = DOMAIN before /\ Holding(job, before)
<1>1. Sensible(job) /\ code = Code(job) /\ before \in job.memories /\ mem = [c \in DOMAIN before |-> mem[c]]
  BY DEF SoFar, AllSensible
<1>2. DOMAIN mem = DOMAIN before
  BY <1>1
<1>3. before = [c \in DOMAIN before |-> before[c]] /\ Holding(job, before)
  BY <1>1, SensibleParts
<1> QED BY <1>1, <1>2, <1>3

(* Every word of the target is one of its own. *)
LEMMA TargetWordIs ==
  ASSUME NEW j, Sensible(j), NEW i \in 1 .. j.n
  PROVE  TargetWord(j, i) = <<Target(j).v, IF Target(j).wide THEN Target(j).k + (i - 1) ELSE Target(j).k>>
<1> DEFINE p == Target(j)
<1>1. p \in Operands /\ i - 1 \in Int
  BY SensibleParts
<1> HIDE DEF p
<1>2. Cell(param_shift(p, i - 1)) = <<p.v, IF p.wide THEN p.k + (i - 1) ELSE p.k>>
  BY <1>1, Shifted
<1> QED BY <1>2 DEF p, TargetWord

LEMMA TargetsDiffer ==
  ASSUME NEW j, Sensible(j), Target(j).wide \/ j.n = 1, NEW i \in 1 .. j.n, NEW h \in 1 .. j.n, TargetWord(j, i) = TargetWord(j, h)
  PROVE  i = h
<1> DEFINE p == Target(j)
<1>1. p \in Operands /\ j.n \in Nat
  BY SensibleParts
<1>2. p.k \in Int
  BY <1>1 DEF Operands
<1>3. TargetWord(j, i) = <<p.v, IF p.wide THEN p.k + (i - 1) ELSE p.k>> /\ TargetWord(j, h) = <<p.v, IF p.wide THEN p.k + (h - 1) ELSE p.k>>
  BY TargetWordIs
<1> HIDE DEF p
<1>4. p.wide \/ j.n = 1
  BY DEF p
<1>5. CASE p.wide
  <2>0. TargetWord(j, i) = <<p.v, p.k + (i - 1)>> /\ TargetWord(j, h) = <<p.v, p.k + (h - 1)>>
    BY <1>3, <1>5, Zenon
  <2>1. p.k + (i - 1) = p.k + (h - 1)
    <3> DEFINE a == p.k + (i - 1)
               c == p.k + (h - 1)
               v == p.v
    <3>1. <<v, a>> = <<v, c>>
      BY <2>0
    <3> HIDE DEF a, c, v
    <3>2. a = c
      BY <3>1
    <3> QED BY <3>2 DEF a, c
  <2> DEFINE k == p.k
             n == j.n
  <2>2. k \in Int /\ n \in Nat /\ i \in 1 .. n /\ h \in 1 .. n /\ k + (i - 1) = k + (h - 1)
    BY <1>1, <1>2, <2>1
  <2> HIDE DEF k, n
  <2> QED BY <2>2
<1>6. CASE j.n = 1
  BY <1>6
<1> QED BY <1>4, <1>5, <1>6

LEMMA WordStep ==
  ASSUME AllSensible, SoFar, Next, job.op \in WordByWord
  PROVE  WordsSoFar'
<1>1. /\ Sensible(job) /\ code = Code(job) /\ before \in job.memories /\ Holding(job, before)
      /\ mem = [c \in DOMAIN before |-> mem[c]] /\ DOMAIN mem = DOMAIN before
  BY Shell
<1>2. job.n \in Nat \ {0} /\ (Target(job).wide \/ job.n = 1)
  BY <1>1, SensibleParts DEF HasWords
<1>3. /\ pc \in 1 .. job.n + 1
      /\ \A i \in 1 .. pc - 1 : mem[TargetWord(job, i)] = Meaning(job, before, i)
      /\ \A c \in DOMAIN mem : c \notin {TargetWord(job, i) : i \in 1 .. pc - 1} => mem[c] = before[c]
  BY DEF SoFar, WordsSoFar, OnlyIn
<1>4. pc \in 1 .. job.n
  <2>1. Stands(job, before, before, 1) /\ 1 \in 1 .. job.n
    BY <1>2 DEF Stands
  <2>2. IsListOf(Code(job), job.n)
    BY <2>1, <1>1, WordDoes
  <2> QED BY <2>2, <1>1, <1>2, <1>3, StepIs DEF IsListOf
<1>5. Stands(job, before, mem, pc)
  <2>1. ASSUME NEW p \in ReadFor(job, pc)
        PROVE  mem[Cell(p)] = before[Cell(p)]
    <3>1. Cell(p) \in DOMAIN before
      BY <1>1, <1>4 DEF Holding
    <3>2. \A h \in 1 .. pc - 1 : Cell(p) # TargetWord(job, h)
      BY <1>1, <1>4, SensibleParts DEF NothingOverwritten
    <3> QED BY <3>1, <3>2, <1>1, <1>3
  <2> QED BY <2>1 DEF Stands
<1>6. Does(job, before, mem, pc)
  BY <1>1, <1>4, <1>5, WordDoes
<1>7. mem' = [mem EXCEPT ![TargetWord(job, pc)] = Meaning(job, before, pc)] /\ pc' = pc + 1 /\ job' = job /\ before' = before
  BY <1>1, <1>6, StepIs DEF Does, Now
<1>8. TargetWord(job, pc) \in DOMAIN mem
  BY <1>1, <1>4 DEF Holding
<1>9. \A i \in 1 .. pc : mem'[TargetWord(job, i)] = Meaning(job, before, i)
  <2>1. ASSUME NEW i \in 1 .. pc
        PROVE  mem'[TargetWord(job, i)] = Meaning(job, before, i)
    <3>1. CASE i = pc
      BY <3>1, <1>1, <1>7, <1>8
    <3>2. CASE i # pc
      <4>1. i \in 1 .. pc - 1 /\ i \in 1 .. job.n
        BY <3>2, <1>2, <1>4
      <4>2. TargetWord(job, i) # TargetWord(job, pc)
        BY <3>2, <4>1, <1>1, <1>2, <1>4, TargetsDiffer
      <4>3. TargetWord(job, i) \in DOMAIN mem
        BY <4>1, <1>1 DEF Holding
      <4> QED BY <4>1, <4>2, <4>3, <1>1, <1>3, <1>7
    <3> QED BY <3>1, <3>2
  <2> QED BY <2>1
<1>10. \A c \in DOMAIN mem' : c \notin {TargetWord(job, i) : i \in 1 .. pc} => mem'[c] = before[c]
  <2>1. DOMAIN mem' = DOMAIN mem
    BY <1>7
  <2>2. ASSUME NEW c \in DOMAIN mem', c \notin {TargetWord(job, i) : i \in 1 .. pc}
        PROVE  mem'[c] = before[c]
    <3>1. c # TargetWord(job, pc) /\ c \notin {TargetWord(job, i) : i \in 1 .. pc - 1}
      BY <2>2, <1>4
    <3> QED BY <2>1, <3>1, <1>1, <1>3, <1>7
  <2> QED BY <2>2
<1>11. pc' \in 1 .. job.n + 1 /\ pc' - 1 = pc
  BY <1>2, <1>4, <1>7
<1> QED BY <1>7, <1>9, <1>10, <1>11 DEF WordsSoFar, OnlyIn

(* The functions whose result goes to j.r. *)
LEMMA ResultWord ==
  ASSUME NEW j, Sensible(j), j.op \in Tests \cup ChunkTests \cup WithTemps
  PROVE  /\ Target(j) = j.r /\ TargetWord(j, 1) = Cell(j.r) /\ j.op # "Create" /\ j.op \notin WordByWord
         /\ \A b \in j.memories : Cell(j.r) \in DOMAIN b
<1>1. Target(j) = j.r /\ j.op # "Create" /\ j.op \notin WordByWord
  BY Names DEF Target, InPlace, Tests, ChunkTests, WithTemps, Comparisons, WordByWord, Alone, Conversions
<1>2. j.r \in Operands /\ 1 - 1 = 0 /\ 0 \in Int /\ 1 \in 1 .. j.n
  BY SensibleParts
<1>3. TargetWord(j, 1) = Cell(j.r)
  BY <1>1, <1>2, Shifted DEF TargetWord
<1>4. \A b \in j.memories : Cell(j.r) \in DOMAIN b
  BY <1>2, <1>3, SensibleParts, SMTT(40) DEF Holding
<1> QED BY <1>1, <1>3, <1>4

LEMMA TestStep ==
  ASSUME AllSensible, SoFar, Next, job.op \in Tests \/ (job.op \in ChunkTests /\ job.n <= PointerWords)
  PROVE  TestSoFar'
<1>1. /\ Sensible(job) /\ code = Code(job) /\ before \in job.memories
      /\ before = [c \in DOMAIN before |-> before[c]] /\ mem = [c \in DOMAIN before |-> mem[c]] /\ DOMAIN mem = DOMAIN before
  BY Shell
<1>2. TestIs(job, before)
  BY <1>1, ComparisonDoes, PointerToBoolDoes, SmallChunkDoes DEF Tests
<1>3. /\ pc \in 1 .. 3
      /\ \A c \in DOMAIN mem : c \notin (IF pc = 3 THEN {Cell(job.r)} ELSE {}) => mem[c] = before[c]
      /\ pc = 2 => Bool(Condition(flags, code[2].inst)) = Meaning(job, before, 1)
  BY DEF SoFar, TestSoFar, OnlyIn
<1>4. pc \in 1 .. 2 /\ job' = job /\ before' = before /\ code' = code
  BY <1>1, <1>2, <1>3, StepIs DEF TestIs
<1>5. mem = before
  BY <1>1, <1>3, <1>4
<1>6. CASE pc = 1
  <2>1. Now = Code(job)[1] /\ Now.inst \in Compares
    BY <1>1, <1>2, <1>6 DEF Now, TestIs
  <2>2. pc' = 2 /\ mem' = before' /\ flags' = Compared(job, before, Code(job)[1])
    BY <2>1, <1>4, <1>5, <1>6, StepIs
  <2>3. Bool(Condition(flags', Code(job)[2].inst)) = Meaning(job, before, 1)
    BY <2>2, <1>2 DEF TestIs
  <2> QED BY <2>2, <2>3, <1>1, <1>4 DEF TestSoFar, OnlyIn
<1>7. CASE pc = 2
  <2>1. Now = Code(job)[2] /\ Now.inst \in Sets /\ Cell(Now.p[1]) = Cell(job.r)
    BY <1>1, <1>2, <1>7 DEF Now, TestIs
  <2>2. pc' = 3 /\ mem' = [before EXCEPT ![Cell(job.r)] = Bool(Condition(flags, Now.inst))]
    BY <2>1, <1>5, <1>7, StepIs
  <2>3. Bool(Condition(flags, Now.inst)) = Meaning(job, before, 1)
    BY <2>1, <1>1, <1>3, <1>7
  <2>4. Cell(job.r) \in DOMAIN before
    BY <1>1, ResultWord
  <2>5. mem'[Cell(job.r)] = Meaning(job, before, 1) /\ \A c \in DOMAIN mem' : c # Cell(job.r) => mem'[c] = before[c]
    BY <2>2, <2>3, <2>4
  <2> QED BY <2>2, <2>5, <1>4 DEF TestSoFar, OnlyIn
<1> QED BY <1>4, <1>6, <1>7

(* The operands of the other functions are not written to. *)
LEMMA OperandsKept ==
  ASSUME AllSensible, SoFar, job.op \in ChunkTests \cup WithTemps,
         NEW cs, OnlyIn(cs), \A c \in cs : c[1] \in {"t1", "t2", job.r.v},
         NEW i \in 1 .. job.n, NEW k \in 1 .. 2
  PROVE  Val(mem, param_shift(job.p[k], i - 1)) = Word(job, before, k, i) /\ Stands(job, before, mem, i)
<1>1. Sensible(job) /\ DOMAIN mem = DOMAIN before /\ Holding(job, before)
  BY Shell
<1>2. job.op # "Create" /\ job.op \notin WordByWord /\ Arity(job) = 2 /\ job.op \notin Tests
  BY <1>1, ResultWord DEF Arity, Conversions, ChunkTests, WithTemps, Tests, Comparisons
<1>3. Stands(job, before, mem, i)
  <2>1. ASSUME NEW p \in ReadFor(job, i)
        PROVE  mem[Cell(p)] = before[Cell(p)]
    <3>1. PICK h \in DOMAIN job.p : p = param_shift(job.p[h], i - 1)
      BY <1>2 DEF ReadFor
    <3>2. job.p[h] \in Operands /\ job.p[h].v # job.r.v /\ i - 1 \in Int
      BY <1>1, <1>2, SensibleParts DEF NothingOverwritten
    <3> DEFINE q == job.p[h]
    <3>3. q \in Operands /\ q.v # job.r.v /\ q.v \notin {"t1", "t2"}
      BY <3>2 DEF Operands
    <3> HIDE DEF q
    <3>4. Cell(param_shift(q, i - 1)) = <<q.v, IF q.wide THEN q.k + (i - 1) ELSE q.k>>
      BY <3>2, <3>3, Shifted
    <3>5. Cell(p)[1] = q.v
      BY <3>1, <3>4 DEF q
    <3>6. Cell(p) \notin cs
      BY <3>3, <3>5
    <3>7. Cell(p) \in DOMAIN mem
      BY <1>1 DEF Holding
    <3> QED BY <3>6, <3>7 DEF OnlyIn
  <2> QED BY <2>1 DEF Stands
<1> QED BY <1>1, <1>2, <1>3, OperandStands

(* Command k writes x to a cell, if it is executed in a memory m. *)
Writes(j, m, k, cell, x) ==
  LET c == Code(j)[k] IN IsPlain(c.inst) /\ Cell(c.p[1]) = cell /\ Computed(m, c) = x

LEMMA StepWrites ==
  ASSUME Next, code = Code(job), NEW cell, NEW x, Writes(job, mem, pc, cell, x)
  PROVE  pc' = pc + 1 /\ mem' = [mem EXCEPT ![cell] = x] /\ job' = job /\ before' = before
BY StepIs DEF Writes, Now

Temp(v) == Element(v, 1)
LEMMA TempIs ==
  ASSUME NEW v \in {"t1", "t2"}, NEW m
  PROVE  Cell(Temp(v)) = <<v, 1>> /\ Val(m, Temp(v)) = m[<<v, 1>>]
BY DEF Temp, Element, Operand, Cell, Val

LEMMA FloatCommand ==
  ASSUME NEW t \in Floats, NEW inst \in {"FADD", "FSUB", "FMUL"}, NEW d, NEW x, NEW y, NEW m
  PROVE  LET c == Command(inst, t, <<d, x, y>>)
         IN IsPlain(c.inst) /\ c.p[1] = d /\ Computed(m, c) = Term(inst, Val(m, x), Val(m, y))
<1> DEFINE c == Command(inst, t, <<d, x, y>>)
<1>1. c.inst = inst /\ c.t = t /\ c.p[1] = d /\ c.p[2] = x /\ c.p[3] = y /\ Len(c.p) = 3
  BY CommandIs
<1> HIDE DEF c
<1>2. Computed(m, c) = Result(c, Val(m, x), Val(m, y))
  BY <1>1, Computes
<1>3. inst \notin Conversions \cup {"MOV"} /\ inst # "XOR" /\ IsPlain(inst)
  BY PlainInstructions
<1>4. Result(c, Val(m, x), Val(m, y)) = Term(inst, Val(m, x), Val(m, y))
  BY <1>1, <1>3, ResultIs
<1> QED BY <1>1, <1>2, <1>3, <1>4 DEF c

(* The sum of two patterns needs the number only up to multiples of 2^Bits. *)
LEMMA SumOfPattern ==
  ASSUME NEW t \in Ordinals, NEW x \in Int, NEW y \in Int
  PROVE  Pattern(t, x + Pattern(t, y)) = Pattern(t, x + y)
<1> DEFINE N == Power[Bits[t]]
           q == y \div N
           r == y % N
<1>1. N \in Nat \ {0}
  BY ValueIs
<1> HIDE DEF N
<1>2. q \in Int /\ r \in Int /\ y = N * q + r
  BY <1>1
<1> HIDE DEF q, r
<1>3. \A a, b, k \in Int : b = a + N * k => b % N = a % N
  BY <1>1, SameRest
<1>4. x + y \in Int /\ x + r \in Int /\ x + y = (x + r) + N * q
  BY <1>1, <1>2
<1>5. (x + y) % N = (x + r) % N
  BY <1>2, <1>3, <1>4, Zenon
<1> QED BY <1>5 DEF Pattern, N, r

LEMMA SumCommands ==
  ASSUME NEW j, Sensible(j), j.op = "AddInt32", NEW m
  PROVE  /\ Len(Code(j)) = 2
         /\ Writes(j, m, 1, <<"t1", 1>>, Pattern("i64", Value("i32", Val(m, j.p[2]))))
         /\ Writes(j, m, 2, Cell(j.r), Pattern("i64", Val(m, j.p[1]) + m[<<"t1", 1>>]))
<1> DEFINE c1 == Convert("MOVSX", "i32", "i64", <<Temp("t1"), j.p[2]>>)
           c2 == Command("ADD", j.t, <<j.r, j.p[1], Temp("t1")>>)
<1>1. Code(j) = <<c1, c2>>
  BY Names DEF Code, Comparisons, Conversions, Temp
<1>2. c1.inst = "MOVSX" /\ c1.t = "i32" /\ c1.w = "i64" /\ c1.p[1] = Temp("t1") /\ c1.p[2] = j.p[2] /\ Len(c1.p) = 2
  BY DEF Convert, Command
<1>3. c2.inst = "ADD" /\ c2.t = j.t /\ c2.p[1] = j.r /\ c2.p[2] = j.p[1] /\ c2.p[3] = Temp("t1") /\ Len(c2.p) = 3
  BY CommandIs
<1> HIDE DEF c1, c2
<1>4. Len(Code(j)) = 2 /\ Code(j)[1] = c1 /\ Code(j)[2] = c2
  BY <1>1
<1>5. Computed(m, c1) = Pattern("i64", Value("i32", Val(m, j.p[2])))
  <2>1. Computed(m, c1) = Result(c1, Val(m, c1.p[1]), Val(m, c1.p[2]))
    BY <1>2, Computes
  <2>2. Result(c1, Val(m, c1.p[1]), Val(m, c1.p[2])) = Pattern("i64", Value("i32", Val(m, j.p[2])))
    BY <1>2, ResultIs
  <2> QED BY <2>1, <2>2
<1>6. Computed(m, c2) = Pattern("i64", Val(m, j.p[1]) + m[<<"t1", 1>>])
  <2>0. j.t = "i64" /\ j.t \notin Floats
    BY SensibleParts DEF HasTypes, Floats
  <2>1. Computed(m, c2) = Result(c2, Val(m, c2.p[2]), Val(m, c2.p[3]))
    BY <1>3, Computes
  <2>2. Result(c2, Val(m, c2.p[2]), Val(m, c2.p[3])) = IntResult("ADD", "i64", Val(m, c2.p[2]), Val(m, c2.p[3]))
    BY <1>3, <2>0, ResultIs, PlainInstructions
  <2>3. IntResult("ADD", "i64", Val(m, c2.p[2]), Val(m, c2.p[3])) = Pattern("i64", Val(m, c2.p[2]) + Val(m, c2.p[3]))
    BY LogicAssumption DEF IntResult
  <2>4. Val(m, c2.p[2]) = Val(m, j.p[1]) /\ Val(m, c2.p[3]) = m[<<"t1", 1>>]
    BY <1>3, TempIs
  <2> QED BY <2>1, <2>2, <2>3, <2>4
<1>7. IsPlain("MOVSX") /\ IsPlain("ADD")
  BY PlainInstructions DEF Conversions
<1> QED BY <1>2, <1>3, <1>4, <1>5, <1>6, <1>7, TempIs DEF Writes

(* The cells the functions with temporaries write are all different. *)
LEMMA WrittenCells ==
  ASSUME NEW j, Sensible(j), j.op \in WithTemps, NEW b \in j.memories
  PROVE  /\ <<"t1", 1>> \in DOMAIN b /\ (j.op = "ComplexMultiply" => <<"t2", 1>> \in DOMAIN b)
         /\ Cell(j.r) \in DOMAIN b /\ TargetWord(j, 1) = Cell(j.r)
         /\ \A i \in 1 .. j.n : TargetWord(j, i) \in DOMAIN b /\ TargetWord(j, i) \notin Temps /\ TargetWord(j, i)[1] = j.r.v
<1>1. Target(j) = j.r /\ TargetWord(j, 1) = Cell(j.r) /\ Cell(j.r) \in DOMAIN b
  BY ResultWord
<1>2. Holding(j, b) /\ j.r \in Operands
  BY SensibleParts
<1>3. ASSUME NEW i \in 1 .. j.n
      PROVE  TargetWord(j, i) \in DOMAIN b /\ TargetWord(j, i) \notin Temps /\ TargetWord(j, i)[1] = j.r.v
  <2>1. TargetWord(j, i)[1] = j.r.v
    BY <1>1, TargetWordIs
  <2>2. j.r.v \notin {"t1", "t2"}
    BY <1>2 DEF Operands
  <2> QED BY <2>1, <2>2, <1>2 DEF Holding, Temps
<1> QED BY <1>1, <1>2, <1>3 DEF Holding

LEMMA SumStep ==
  ASSUME AllSensible, SoFar, Next, job.op = "AddInt32"
  PROVE  SumSoFar'
<1> DEFINE r == Cell(job.r)
           t1 == <<"t1", 1>>
           x == Word(job, before, 1, 1)
           y == Word(job, before, 2, 1)
<1>1. /\ Sensible(job) /\ code = Code(job) /\ before \in job.memories /\ Holding(job, before)
      /\ mem = [c \in DOMAIN before |-> mem[c]] /\ DOMAIN mem = DOMAIN before
  BY Shell
<1>2. SumSoFar /\ job.n = 1 /\ job.t = "i64" /\ Arity(job) = 2 /\ job.op \in WithTemps /\ job.op # "Create" /\ job.op \notin WordByWord
  BY <1>1, SensibleParts, ResultWord DEF SoFar, HasWords, HasTypes, Arity, Conversions, WithTemps
<1>3. pc \in 1 .. 2
  <2>1. Len(Code(job)) = 2
    BY <1>1, SumCommands
  <2>2. pc <= Len(code) /\ pc \in 1 .. 3
    BY <1>2, StepIs DEF SumSoFar
  <2> QED BY <2>1, <2>2, <1>1
<1>4. r \in DOMAIN mem /\ t1 \in DOMAIN mem /\ r # t1 /\ r \notin Temps /\ t1 \in Temps
  BY <1>1, <1>2, WrittenCells DEF Temps
<1>5. Val(mem, job.p[1]) = x /\ Val(mem, job.p[2]) = y
  <2>1. OnlyIn(Temps)
    BY <1>2, <1>3 DEF SumSoFar, OnlyIn
  <2>2. \A c \in Temps : c[1] \in {"t1", "t2", job.r.v}
    BY DEF Temps
  <2>3. Stands(job, before, mem, 1)
    BY <2>1, <2>2, <1>2, OperandsKept
  <2> QED BY <2>3, <1>1, <1>2, AloneWord
<1>6. x \in Int /\ y \in Int
  <2>1. "i64" \in Ordinals
    BY DEF Ordinals, SignedTypes
  <2>2. param_shift(job.p[1], 1 - 1) \in ReadFor(job, 1) /\ param_shift(job.p[2], 1 - 1) \in ReadFor(job, 1)
    BY <1>1, <1>2, ReadsWord
  <2>3. x \in Patterns("i64") /\ y \in Patterns("i64")
    BY <2>1, <2>2, <1>1, <1>2 DEF Holding, Word
  <2> QED BY <2>3 DEF Patterns
<1>7. Meaning(job, before, 1) = Pattern("i64", Value("i64", x) + Value("i32", y))
  BY <1>2, Names DEF Meaning, Comparisons, Conversions
<1>8. CASE pc = 1
  <2>1. /\ pc' = 2 /\ mem' = [mem EXCEPT ![t1] = Pattern("i64", Value("i32", y))]
        /\ job' = job /\ before' = before
    BY <1>1, <1>5, <1>8, SumCommands, StepWrites
  <2>2. mem'[t1] = Pattern("i64", Value("i32", y)) /\ \A c \in DOMAIN mem' : c \notin Temps => mem'[c] = before[c]
    BY <2>1, <1>2, <1>4, <1>8 DEF SumSoFar, OnlyIn
  <2> QED BY <2>1, <2>2 DEF SumSoFar, OnlyIn
<1>9. CASE pc = 2
  <2>1. mem[t1] = Pattern("i64", Value("i32", y))
    BY <1>2, <1>9 DEF SumSoFar
  <2> DEFINE s == Pattern("i64", x + mem[t1])
  <2>2. Writes(job, mem, 2, r, s)
    BY <1>1, <1>5, SumCommands
  <2>3. pc' = 3 /\ mem' = [mem EXCEPT ![r] = s] /\ job' = job /\ before' = before
    BY <2>2, <1>1, <1>9, StepWrites
  <2>4. s = Meaning(job, before, 1)
    <3> HIDE DEF x, y
    <3>1. "i64" \in Ordinals /\ "i32" \in Ordinals
      BY DEF Ordinals, SignedTypes
    <3>2. Value("i32", y) \in Int
      BY <3>1, <1>6, ValueIs
    <3>3. s = Pattern("i64", x + Value("i32", y))
      BY <2>1, <3>1, <3>2, <1>6, SumOfPattern
    <3>4. Pattern("i64", Value("i64", x) + Value("i32", y)) = Pattern("i64", x + Value("i32", y))
      BY <3>1, <3>2, <1>6, SamePattern
    <3> QED BY <3>3, <3>4, <1>7
  <2> HIDE DEF s
  <2>5. mem'[r] = Meaning(job, before, 1) /\ \A c \in DOMAIN mem' : c \notin Temps \cup {r} => mem'[c] = before[c]
    BY <2>3, <2>4, <1>2, <1>4, <1>9 DEF SumSoFar, OnlyIn
  <2>6. mem'[t1] = Pattern("i64", Value("i32", y))
    BY <2>1, <2>3, <1>4
  <2> QED BY <2>3, <2>5, <2>6 DEF SumSoFar, OnlyIn
<1> QED BY <1>3, <1>8, <1>9

LEMMA ComplexCommands ==
  ASSUME NEW j, Sensible(j), j.op = "ComplexMultiply", NEW m
  PROVE  LET v(k, i) == Val(m, param_shift(j.p[k], i - 1))
             t1 == <<"t1", 1>>
             t2 == <<"t2", 1>>
         IN  /\ Len(Code(j)) = 6
             /\ Writes(j, m, 1, t1, Term("FMUL", v(1, 1), v(2, 1)))
             /\ Writes(j, m, 2, t2, Term("FMUL", v(1, 2), v(2, 2)))
             /\ Writes(j, m, 3, TargetWord(j, 1), Term("FSUB", m[t1], m[t2]))
             /\ Writes(j, m, 4, t1, Term("FMUL", v(1, 1), v(2, 2)))
             /\ Writes(j, m, 5, t2, Term("FMUL", v(1, 2), v(2, 1)))
             /\ Writes(j, m, 6, TargetWord(j, 2), Term("FADD", m[t1], m[t2]))
<1> DEFINE p(k, i) == param_shift(j.p[k], i - 1)
           c1 == Command("FMUL", j.t, <<Temp("t1"), p(1, 1), p(2, 1)>>)
           c2 == Command("FMUL", j.t, <<Temp("t2"), p(1, 2), p(2, 2)>>)
           c3 == Command("FSUB", j.t, <<param_shift(j.r, 1 - 1), Temp("t1"), Temp("t2")>>)
           c4 == Command("FMUL", j.t, <<Temp("t1"), p(1, 1), p(2, 2)>>)
           c5 == Command("FMUL", j.t, <<Temp("t2"), p(1, 2), p(2, 1)>>)
           c6 == Command("FADD", j.t, <<param_shift(j.r, 2 - 1), Temp("t1"), Temp("t2")>>)
<1>1. Code(j) = <<c1, c2, c3, c4, c5, c6>>
  <2>1. Code(j) = ComplexMultiply(j)
    BY Names DEF Code, Comparisons, Conversions
  <2>2. 1 - 1 = 0 /\ 2 - 1 = 1
    OBVIOUS
  <2> QED BY <2>1, <2>2 DEF ComplexMultiply, Temp
<1>2. j.t \in Floats /\ Target(j) = j.r
  BY SensibleParts, ResultWord DEF HasTypes, WithTemps
<1>3. IsPlain(c1.inst) /\ c1.p[1] = Temp("t1") /\ Computed(m, c1) = Term("FMUL", Val(m, p(1, 1)), Val(m, p(2, 1)))
  BY <1>2, FloatCommand
<1>4. IsPlain(c2.inst) /\ c2.p[1] = Temp("t2") /\ Computed(m, c2) = Term("FMUL", Val(m, p(1, 2)), Val(m, p(2, 2)))
  BY <1>2, FloatCommand
<1>5. /\ IsPlain(c3.inst) /\ c3.p[1] = param_shift(j.r, 1 - 1)
      /\ Computed(m, c3) = Term("FSUB", Val(m, Temp("t1")), Val(m, Temp("t2")))
  BY <1>2, FloatCommand
<1>6. IsPlain(c4.inst) /\ c4.p[1] = Temp("t1") /\ Computed(m, c4) = Term("FMUL", Val(m, p(1, 1)), Val(m, p(2, 2)))
  BY <1>2, FloatCommand
<1>7. IsPlain(c5.inst) /\ c5.p[1] = Temp("t2") /\ Computed(m, c5) = Term("FMUL", Val(m, p(1, 2)), Val(m, p(2, 1)))
  BY <1>2, FloatCommand
<1>8. /\ IsPlain(c6.inst) /\ c6.p[1] = param_shift(j.r, 2 - 1)
      /\ Computed(m, c6) = Term("FADD", Val(m, Temp("t1")), Val(m, Temp("t2")))
  BY <1>2, FloatCommand
<1> HIDE DEF c1, c2, c3, c4, c5, c6
<1>9. /\ Len(Code(j)) = 6 /\ Code(j)[1] = c1 /\ Code(j)[2] = c2 /\ Code(j)[3] = c3
      /\ Code(j)[4] = c4 /\ Code(j)[5] = c5 /\ Code(j)[6] = c6
  BY <1>1
<1>10. /\ Cell(Temp("t1")) = <<"t1", 1>> /\ Val(m, Temp("t1")) = m[<<"t1", 1>>]
       /\ Cell(Temp("t2")) = <<"t2", 1>> /\ Val(m, Temp("t2")) = m[<<"t2", 1>>]
  BY TempIs
<1>11. Cell(param_shift(j.r, 1 - 1)) = TargetWord(j, 1) /\ Cell(param_shift(j.r, 2 - 1)) = TargetWord(j, 2)
  BY <1>2 DEF TargetWord
<1>12. Writes(j, m, 1, <<"t1", 1>>, Term("FMUL", Val(m, p(1, 1)), Val(m, p(2, 1))))
  BY <1>3, <1>9, <1>10 DEF Writes
<1>13. Writes(j, m, 2, <<"t2", 1>>, Term("FMUL", Val(m, p(1, 2)), Val(m, p(2, 2))))
  BY <1>4, <1>9, <1>10 DEF Writes
<1>14. Writes(j, m, 3, TargetWord(j, 1), Term("FSUB", m[<<"t1", 1>>], m[<<"t2", 1>>]))
  BY <1>5, <1>9, <1>10, <1>11 DEF Writes
<1>15. Writes(j, m, 4, <<"t1", 1>>, Term("FMUL", Val(m, p(1, 1)), Val(m, p(2, 2))))
  BY <1>6, <1>9, <1>10 DEF Writes
<1>16. Writes(j, m, 5, <<"t2", 1>>, Term("FMUL", Val(m, p(1, 2)), Val(m, p(2, 1))))
  BY <1>7, <1>9, <1>10 DEF Writes
<1>17. Writes(j, m, 6, TargetWord(j, 2), Term("FADD", m[<<"t1", 1>>], m[<<"t2", 1>>]))
  BY <1>8, <1>9, <1>10, <1>11 DEF Writes
<1> QED BY <1>9, <1>12, <1>13, <1>14, <1>15, <1>16, <1>17

LEMMA DotCommands ==
  ASSUME NEW j, Sensible(j), j.op = "DotProduct", NEW m
  PROVE  LET v(k, i) == Val(m, param_shift(j.p[k], i - 1))
             t1 == <<"t1", 1>>
             r == Cell(j.r)
         IN  /\ Len(Code(j)) = 5
             /\ Writes(j, m, 1, r, Term("FMUL", v(1, 1), v(2, 1)))
             /\ Writes(j, m, 2, t1, Term("FMUL", v(1, 2), v(2, 2)))
             /\ Writes(j, m, 3, r, Term("FADD", m[r], m[t1]))
             /\ Writes(j, m, 4, t1, Term("FMUL", v(1, 3), v(2, 3)))
             /\ Writes(j, m, 5, r, Term("FADD", m[r], m[t1]))
<1> DEFINE p(k, i) == param_shift(j.p[k], i - 1)
           r == Cell(j.r)
           c1 == Command("FMUL", j.t, <<j.r, p(1, 1), p(2, 1)>>)
           c2 == Command("FMUL", j.t, <<Temp("t1"), p(1, 2), p(2, 2)>>)
           c3 == Command("FADD", j.t, <<j.r, Temp("t1")>>)
           c4 == Command("FMUL", j.t, <<Temp("t1"), p(1, 3), p(2, 3)>>)
<1>1. Code(j) = <<c1, c2, c3, c4, c3>>
  <2>1. Code(j) = DotProduct(j)
    BY Names DEF Code, Comparisons, Conversions
  <2>2. 1 - 1 = 0 /\ 2 - 1 = 1 /\ 3 - 1 = 2
    OBVIOUS
  <2> QED BY <2>1, <2>2 DEF DotProduct, Temp
<1>2. j.t \in Floats /\ j.r \in Operands
  BY SensibleParts DEF HasTypes
<1>3. IsPlain(c1.inst) /\ c1.p[1] = j.r /\ Computed(m, c1) = Term("FMUL", Val(m, p(1, 1)), Val(m, p(2, 1)))
  BY <1>2, FloatCommand
<1>4. IsPlain(c2.inst) /\ c2.p[1] = Temp("t1") /\ Computed(m, c2) = Term("FMUL", Val(m, p(1, 2)), Val(m, p(2, 2)))
  BY <1>2, FloatCommand
<1>5. IsPlain(c3.inst) /\ c3.p[1] = j.r /\ Computed(m, c3) = Term("FADD", Val(m, j.r), Val(m, Temp("t1")))
  <2>1. c3.inst = "FADD" /\ c3.t = j.t /\ c3.p[1] = j.r /\ c3.p[2] = Temp("t1") /\ Len(c3.p) = 2
    BY CommandIs
  <2> HIDE DEF c3
  <2>2. Computed(m, c3) = Result(c3, Val(m, j.r), Val(m, Temp("t1")))
    BY <2>1, Computes
  <2>3. Result(c3, Val(m, j.r), Val(m, Temp("t1"))) = Term("FADD", Val(m, j.r), Val(m, Temp("t1")))
    BY <2>1, <1>2, ResultIs, PlainInstructions
  <2> QED BY <2>1, <2>2, <2>3, PlainInstructions
<1>6. IsPlain(c4.inst) /\ c4.p[1] = Temp("t1") /\ Computed(m, c4) = Term("FMUL", Val(m, p(1, 3)), Val(m, p(2, 3)))
  BY <1>2, FloatCommand
<1> HIDE DEF c1, c2, c3, c4
<1>7. Len(Code(j)) = 5 /\ Code(j)[1] = c1 /\ Code(j)[2] = c2 /\ Code(j)[3] = c3 /\ Code(j)[4] = c4 /\ Code(j)[5] = c3
  BY <1>1
<1>8. /\ Cell(Temp("t1")) = <<"t1", 1>> /\ Val(m, Temp("t1")) = m[<<"t1", 1>>]
      /\ Val(m, j.r) = m[Cell(j.r)]
  BY <1>2, TempIs DEF Val, Operands
<1>9. Writes(j, m, 1, r, Term("FMUL", Val(m, p(1, 1)), Val(m, p(2, 1))))
  BY <1>3, <1>7 DEF Writes
<1>10. Writes(j, m, 2, <<"t1", 1>>, Term("FMUL", Val(m, p(1, 2)), Val(m, p(2, 2))))
  BY <1>4, <1>7, <1>8 DEF Writes
<1>11. Writes(j, m, 3, r, Term("FADD", m[r], m[<<"t1", 1>>])) /\ Writes(j, m, 5, r, Term("FADD", m[r], m[<<"t1", 1>>]))
  BY <1>5, <1>7, <1>8 DEF Writes
<1>12. Writes(j, m, 4, <<"t1", 1>>, Term("FMUL", Val(m, p(1, 3)), Val(m, p(2, 3))))
  BY <1>6, <1>7, <1>8 DEF Writes
<1> QED BY <1>7, <1>9, <1>10, <1>11, <1>12

LEMMA ComplexStep ==
  ASSUME AllSensible, SoFar, Next, job.op = "ComplexMultiply"
  PROVE  ComplexSoFar'
<1> DEFINE t1 == <<"t1", 1>>
           t2 == <<"t2", 1>>
           r1 == TargetWord(job, 1)
           r2 == TargetWord(job, 2)
           T(a, b) == Times(job, before, a, b)
           v(k, i) == Val(mem, param_shift(job.p[k], i - 1))
<1>1. /\ Sensible(job) /\ code = Code(job) /\ before \in job.memories
      /\ mem = [c \in DOMAIN before |-> mem[c]] /\ DOMAIN mem = DOMAIN before
  BY Shell
<1>2. ComplexSoFar /\ job.n = 2 /\ job.op \in WithTemps /\ job.r.wide /\ Target(job) = job.r
  BY <1>1, SensibleParts, ResultWord DEF SoFar, HasWords, WithTemps
<1>3. pc \in 1 .. 6
  <2>1. Len(Code(job)) = 6
    BY <1>1, ComplexCommands
  <2>2. pc <= Len(code) /\ pc \in 1 .. 7
    BY <1>2, StepIs DEF ComplexSoFar
  <2>3. Len(code) = 6
    BY <2>1, <1>1
  <2> QED BY <2>2, <2>3
<1>4. /\ t1 \in DOMAIN mem /\ t2 \in DOMAIN mem /\ r1 \in DOMAIN mem /\ r2 \in DOMAIN mem
      /\ t1 # t2 /\ r1 \notin {t1, t2} /\ r2 \notin {t1, t2} /\ r1 # r2 /\ Temps = {t1, t2}
      /\ r1[1] = job.r.v /\ r2[1] = job.r.v
  <2>1. 1 \in 1 .. job.n /\ 2 \in 1 .. job.n
    BY <1>2
  <2>2. r1 # r2
    BY <2>1, <1>1, <1>2, TargetsDiffer
  <2>3. Temps = {t1, t2}
    BY DEF Temps
  <2>4. /\ t1 \in DOMAIN before /\ t2 \in DOMAIN before
        /\ r1 \in DOMAIN before /\ r1 \notin Temps /\ r1[1] = job.r.v
        /\ r2 \in DOMAIN before /\ r2 \notin Temps /\ r2[1] = job.r.v
    BY <2>1, <1>1, <1>2, WrittenCells
  <2> QED BY <2>2, <2>3, <2>4, <1>1
<1>5. \A c \in DOMAIN mem : c \notin {t1, t2, r1, r2} => mem[c] = before[c]
  <2>1. {TargetWord(job, i) : i \in 1 .. 2} = {r1, r2}
    BY DEF ComplexSoFar
  <2> QED BY <2>1, <1>2, <1>4 DEF ComplexSoFar, OnlyIn
<1>6. \A k, i \in 1 .. 2 : v(k, i) = Word(job, before, k, i)
  <2> DEFINE cs == {t1, t2, r1, r2}
  <2>1. OnlyIn(cs)
    BY <1>5 DEF OnlyIn
  <2>2. \A c \in cs : c[1] \in {"t1", "t2", job.r.v}
    BY <1>4
  <2> HIDE DEF cs
  <2>3. ASSUME NEW k \in 1 .. 2, NEW i \in 1 .. 2
        PROVE  v(k, i) = Word(job, before, k, i)
    BY <2>1, <2>2, <1>1, <1>2, OperandsKept
  <2> QED BY <2>3
<1>7. Meaning(job, before, 1) = Term("FSUB", T(1, 1), T(2, 2)) /\ Meaning(job, before, 2) = Term("FADD", T(1, 2), T(2, 1))
  BY Names DEF Meaning, Comparisons, Conversions, Plus
<1>8. \A a, b \in 1 .. 2 : Term("FMUL", v(1, a), v(2, b)) = T(a, b)
  BY <1>6 DEF Times
<1>9. ASSUME NEW cell \in {t1, t2, r1, r2}, NEW x, Writes(job, mem, pc, cell, x)
      PROVE  /\ pc' = pc + 1 /\ job' = job /\ before' = before
             /\ mem'[cell] = x /\ \A c \in DOMAIN mem : c # cell => mem'[c] = mem[c]
             /\ \A c \in DOMAIN mem' : c \notin Temps \cup {TargetWord(job, i) : i \in 1 .. 2} => mem'[c] = before[c]
  <2>1. pc' = pc + 1 /\ mem' = [mem EXCEPT ![cell] = x] /\ job' = job /\ before' = before
    BY <1>1, <1>9, StepWrites
  <2>2. Temps \cup {TargetWord(job, i) : i \in 1 .. 2} = {t1, t2, r1, r2}
    BY <1>4
  <2> HIDE DEF t1, t2, r1, r2
  <2>3. cell \in DOMAIN mem
    BY <1>4
  <2> QED BY <2>1, <2>2, <2>3, <1>5
<1>10. /\ pc \in 2 .. 3 => mem[t1] = T(1, 1)
       /\ pc = 3 => mem[t2] = T(2, 2)
       /\ pc >= 4 => mem[r1] = Meaning(job, before, 1)
       /\ pc >= 5 => mem[t1] = T(1, 2)
       /\ pc >= 6 => mem[t2] = T(2, 1)
  BY <1>2 DEF ComplexSoFar
<1> DEFINE After == /\ pc' \in 2 .. 3 => mem'[t1] = T(1, 1)
                    /\ pc' = 3 => mem'[t2] = T(2, 2)
                    /\ pc' >= 4 => mem'[r1] = Meaning(job, before, 1)
                    /\ pc' >= 5 => mem'[t1] = T(1, 2)
                    /\ pc' >= 6 => mem'[t2] = T(2, 1)
                    /\ pc' = 7 => mem'[r2] = Meaning(job, before, 2)
<1>11. After /\ pc' \in 1 .. 7 /\ job' = job /\ before' = before
         /\ \A c \in DOMAIN mem' : c \notin Temps \cup {TargetWord(job, i) : i \in 1 .. 2} => mem'[c] = before[c]
  <2>1. CASE pc = 1
    <3>1. Writes(job, mem, 1, t1, T(1, 1))
      BY <2>1, <1>1, <1>8, ComplexCommands
    <3> HIDE DEF t1, t2, r1, r2, T
    <3> QED BY <3>1, <2>1, <1>4, <1>9, <1>10
  <2>2. CASE pc = 2
    <3>1. Writes(job, mem, 2, t2, T(2, 2))
      BY <2>2, <1>1, <1>8, ComplexCommands
    <3> HIDE DEF t1, t2, r1, r2, T
    <3> QED BY <3>1, <2>2, <1>4, <1>9, <1>10
  <2>3. CASE pc = 3
    <3>1. Writes(job, mem, 3, r1, Meaning(job, before, 1))
      BY <2>3, <1>1, <1>7, <1>10, ComplexCommands
    <3> HIDE DEF t1, t2, r1, r2, T
    <3> QED BY <3>1, <2>3, <1>4, <1>9, <1>10
  <2>4. CASE pc = 4
    <3>1. Writes(job, mem, 4, t1, T(1, 2))
      BY <2>4, <1>1, <1>8, ComplexCommands
    <3> HIDE DEF t1, t2, r1, r2, T
    <3> QED BY <3>1, <2>4, <1>4, <1>9, <1>10
  <2>5. CASE pc = 5
    <3>1. Writes(job, mem, 5, t2, T(2, 1))
      BY <2>5, <1>1, <1>8, ComplexCommands
    <3> HIDE DEF t1, t2, r1, r2, T
    <3> QED BY <3>1, <2>5, <1>4, <1>9, <1>10
  <2>6. CASE pc = 6
    <3>1. Writes(job, mem, 6, r2, Meaning(job, before, 2))
      BY <2>6, <1>1, <1>7, <1>10, ComplexCommands
    <3> HIDE DEF t1, t2, r1, r2, T
    <3> QED BY <3>1, <2>6, <1>4, <1>9, <1>10
  <2> QED BY <2>1, <2>2, <2>3, <2>4, <2>5, <2>6, <1>3
<1> QED BY <1>11 DEF ComplexSoFar, OnlyIn

LEMMA DotStep ==
  ASSUME AllSensible, SoFar, Next, job.op = "DotProduct"
  PROVE  DotSoFar'
<1> DEFINE t1 == <<"t1", 1>>
           r == Cell(job.r)
           T(a, b) == Times(job, before, a, b)
           v(k, i) == Val(mem, param_shift(job.p[k], i - 1))
<1>1. /\ Sensible(job) /\ code = Code(job) /\ before \in job.memories
      /\ mem = [c \in DOMAIN before |-> mem[c]] /\ DOMAIN mem = DOMAIN before
  BY Shell
<1>2. DotSoFar /\ job.n = 3 /\ job.op \in WithTemps
  BY <1>1, SensibleParts DEF SoFar, HasWords, WithTemps
<1>3. pc \in 1 .. 5
  <2>1. Len(Code(job)) = 5
    BY <1>1, DotCommands
  <2>2. pc <= Len(code) /\ pc \in 1 .. 6
    BY <1>2, StepIs DEF DotSoFar
  <2>3. Len(code) = 5
    BY <2>1, <1>1
  <2> QED BY <2>2, <2>3
<1>4. t1 \in DOMAIN mem /\ r \in DOMAIN mem /\ r # t1 /\ t1 \in Temps /\ r[1] = job.r.v
  <2>1. 1 \in 1 .. job.n
    BY <1>2
  <2>2. t1 \in DOMAIN before /\ r \in DOMAIN before /\ r \notin Temps /\ r[1] = job.r.v
    BY <2>1, <1>1, <1>2, WrittenCells
  <2> QED BY <2>2, <1>1 DEF Temps
<1>5. \A c \in DOMAIN mem : c \notin Temps \cup {r} => mem[c] = before[c]
  BY <1>2 DEF DotSoFar, OnlyIn
<1>6. \A k \in 1 .. 2, i \in 1 .. 3 : v(k, i) = Word(job, before, k, i)
  <2> DEFINE cs == Temps \cup {r}
  <2>1. OnlyIn(cs)
    BY <1>5 DEF OnlyIn
  <2>2. \A c \in cs : c[1] \in {"t1", "t2", job.r.v}
    BY <1>4 DEF Temps
  <2> HIDE DEF cs
  <2>3. ASSUME NEW k \in 1 .. 2, NEW i \in 1 .. 3
        PROVE  v(k, i) = Word(job, before, k, i)
    BY <2>1, <2>2, <1>1, <1>2, OperandsKept
  <2> QED BY <2>3
<1>7. Meaning(job, before, 1) = Term("FADD", Term("FADD", T(1, 1), T(2, 2)), T(3, 3))
  BY Names DEF Meaning, Comparisons, Conversions, Plus
<1>8. \A a \in 1 .. 3 : Term("FMUL", v(1, a), v(2, a)) = T(a, a)
  BY <1>6 DEF Times
<1> DEFINE sum == Plus(T(1, 1), T(2, 2))
<1>9. ASSUME NEW cell \in {t1, r}, NEW x, Writes(job, mem, pc, cell, x)
      PROVE  /\ pc' = pc + 1 /\ job' = job /\ before' = before
             /\ mem'[cell] = x /\ \A c \in DOMAIN mem : c # cell => mem'[c] = mem[c]
             /\ \A c \in DOMAIN mem' : c \notin Temps \cup {r} => mem'[c] = before[c]
  <2>1. pc' = pc + 1 /\ mem' = [mem EXCEPT ![cell] = x] /\ job' = job /\ before' = before
    BY <1>1, <1>9, StepWrites
  <2> HIDE DEF t1, r
  <2>2. cell \in DOMAIN mem /\ cell \in Temps \cup {r}
    BY <1>4
  <2> QED BY <2>1, <2>2, <1>5
<1>10. /\ pc \in 2 .. 3 => mem[r] = T(1, 1)
       /\ pc = 3 => mem[t1] = T(2, 2)
       /\ pc \in 4 .. 5 => mem[r] = sum
       /\ pc = 5 => mem[t1] = T(3, 3)
  BY <1>2 DEF DotSoFar
<1> DEFINE After == /\ pc' \in 2 .. 3 => mem'[r] = T(1, 1)
                    /\ pc' = 3 => mem'[t1] = T(2, 2)
                    /\ pc' \in 4 .. 5 => mem'[r] = sum
                    /\ pc' = 5 => mem'[t1] = T(3, 3)
                    /\ pc' = 6 => mem'[r] = Meaning(job, before, 1)
<1>11. After /\ pc' \in 1 .. 6 /\ job' = job /\ before' = before
         /\ \A c \in DOMAIN mem' : c \notin Temps \cup {r} => mem'[c] = before[c]
  <2>1. CASE pc = 1
    <3>1. Writes(job, mem, 1, r, T(1, 1))
      BY <2>1, <1>1, <1>8, DotCommands
    <3> HIDE DEF t1, r, T, sum
    <3> QED BY <3>1, <2>1, <1>4, <1>9, <1>10
  <2>2. CASE pc = 2
    <3>1. Writes(job, mem, 2, t1, T(2, 2))
      BY <2>2, <1>1, <1>8, DotCommands
    <3> HIDE DEF t1, r, T, sum
    <3> QED BY <3>1, <2>2, <1>4, <1>9, <1>10
  <2>3. CASE pc = 3
    <3>1. Writes(job, mem, 3, r, sum)
      BY <2>3, <1>1, <1>10, DotCommands DEF Plus
    <3> HIDE DEF t1, r, T, sum
    <3> QED BY <3>1, <2>3, <1>4, <1>9, <1>10
  <2>4. CASE pc = 4
    <3>1. Writes(job, mem, 4, t1, T(3, 3))
      BY <2>4, <1>1, <1>8, DotCommands
    <3> HIDE DEF t1, r, T, sum
    <3> QED BY <3>1, <2>4, <1>4, <1>9, <1>10
  <2>5. CASE pc = 5
    <3>1. Writes(job, mem, 5, r, Meaning(job, before, 1))
      BY <2>5, <1>1, <1>7, <1>10, DotCommands DEF Plus
    <3> HIDE DEF t1, r, T, sum
    <3> QED BY <3>1, <2>5, <1>4, <1>9, <1>10
  <2> QED BY <2>1, <2>2, <2>3, <2>4, <2>5, <1>3
<1> QED BY <1>11 DEF DotSoFar, OnlyIn

(* The three commands for pair k of a large chunk. *)
LEMMA ChunkCommands ==
  ASSUME NEW j, Sensible(j), j.op \in ChunkTests, j.n > PointerWords, NEW k \in 1 .. j.n
  PROVE  LET c(i) == Code(j)[3 * k - 3 + i] IN
         /\ j.op = "ChunkEqual" /\ Len(Code(j)) = 3 * j.n - 1
         /\ c(1) = Command("CMP", j.t, <<Element(j.p[1].v, k), Element(j.p[2].v, k)>>)
         /\ c(2) = Command("SETZ", "bool", <<j.r>>)
         /\ k < j.n => c(3) = Jump("JNZ", 3 * j.n)
<1> DEFINE cs == Code(j)
           n == j.n
           At(i) == CASE i % 3 = 1 -> Command("CMP", j.t, <<Element(j.p[1].v, 1 + i \div 3), Element(j.p[2].v, 1 + i \div 3)>>)
                      [] i % 3 = 2 -> Command("SETZ", "bool", <<j.r>>)
                      [] OTHER     -> Jump("JNZ", 3 * j.n)
<1>1. j.op = "ChunkEqual" /\ n \in Nat \ {0} /\ n > 2
  BY SensibleParts DEF Sensible, ChunkTests, PointerWords
<1>2. cs = [i \in 1 .. 3 * n - 1 |-> At(i)]
  <2>1. cs = ChunkCompare(j, "SETZ", "JNZ")
    BY <1>1, Names DEF Code, Comparisons, Conversions
  <2> QED BY <2>1, <1>1 DEF ChunkCompare, PointerWords
<1>3. Len(cs) = 3 * n - 1
  <2>1. cs = [i \in 1 .. 3 * n - 1 |-> cs[i]]
    BY <1>2
  <2> HIDE DEF cs, n
  <2>2. 3 * n - 1 \in Nat
    BY <1>1
  <2> QED BY <2>1, <2>2, LenOf
<1>4. k \in 1 .. n
  OBVIOUS
<1> HIDE DEF cs, n
<1>5. /\ 3 * k - 3 + 1 \in 1 .. 3 * n - 1 /\ (3 * k - 3 + 1) % 3 = 1 /\ 1 + ((3 * k - 3 + 1) \div 3) = k
      /\ 3 * k - 3 + 2 \in 1 .. 3 * n - 1 /\ (3 * k - 3 + 2) % 3 = 2
      /\ k < n => 3 * k - 3 + 3 \in 1 .. 3 * n - 1 /\ (3 * k - 3 + 3) % 3 = 0
  BY <1>1, <1>4
<1>6. cs[3 * k - 3 + 1] = Command("CMP", j.t, <<Element(j.p[1].v, k), Element(j.p[2].v, k)>>)
  <2> DEFINE i == 3 * k - 3 + 1
  <2>1. i \in 1 .. 3 * n - 1 /\ i % 3 = 1 /\ 1 + (i \div 3) = k
    BY <1>5
  <2> HIDE DEF i
  <2>2. cs[i] = At(i)
    BY <1>2, <2>1
  <2>3. At(i) = Command("CMP", j.t, <<Element(j.p[1].v, 1 + i \div 3), Element(j.p[2].v, 1 + i \div 3)>>)
    BY <2>1
  <2> QED BY <2>1, <2>2, <2>3 DEF i
<1>7. cs[3 * k - 3 + 2] = Command("SETZ", "bool", <<j.r>>)
  BY <1>2, <1>5
<1>8. k < n => cs[3 * k - 3 + 3] = Jump("JNZ", 3 * j.n)
  <2> DEFINE i == 3 * k - 3 + 3
  <2>1. k < n => i \in 1 .. 3 * n - 1 /\ i % 3 # 1 /\ i % 3 # 2
    BY <1>5
  <2> HIDE DEF i
  <2>2. k < n => cs[i] = At(i)
    BY <1>2, <2>1
  <2>3. k < n => At(i) = Jump("JNZ", 3 * j.n)
    BY <2>1
  <2> QED BY <2>2, <2>3 DEF i
<1> QED BY <1>1, <1>3, <1>6, <1>7, <1>8 DEF cs, n

LEMMA ChunkWord ==
  ASSUME NEW j, Sensible(j), j.op \in ChunkTests, NEW k \in 1 .. j.n, NEW h \in 1 .. 2, NEW m
  PROVE  Val(m, Element(j.p[h].v, k)) = Val(m, param_shift(j.p[h], k - 1))
<1> DEFINE p == j.p[h]
<1>1. Arity(j) = 2 /\ k - 1 \in Int /\ k \in Int
  BY SensibleParts DEF Arity, ChunkTests, Conversions
<1>2. p \in Operands /\ p.wide /\ p.k = 1
  BY <1>1, SensibleParts DEF HasWords
<1> HIDE DEF p
<1>3. Val(m, param_shift(p, k - 1)) = m[<<p.v, 1 + (k - 1)>>]
  <2> DEFINE i == k - 1
  <2>0. i \in Int /\ p \in Operands
    BY <1>1, <1>2
  <2> HIDE DEF i
  <2>1. Val(m, param_shift(p, i)) = m[Cell(param_shift(p, i))]
    BY <2>0, Shifted
  <2>2. Cell(param_shift(p, i)) = <<p.v, IF p.wide THEN p.k + i ELSE p.k>>
    BY <2>0, Shifted
  <2>3. Cell(param_shift(p, i)) = <<p.v, p.k + i>>
    BY <2>2, <1>2, Zenon
  <2> QED BY <2>1, <2>3, <1>2 DEF i
<1>4. Val(m, Element(p.v, k)) = m[<<p.v, k>>]
  <2>1. p.v # "imm"
    BY <1>2 DEF Operands
  <2> QED BY <2>1 DEF Val, Element, Operand, Cell
<1>5. 1 + (k - 1) = k
  BY <1>1
<1> QED BY <1>3, <1>4, <1>5 DEF p

LEMMA ChunkStep ==
  ASSUME AllSensible, SoFar, Next, job.op \in ChunkTests, job.n > PointerWords
  PROVE  ChunkSoFar'
<1> DEFINE r == Cell(job.r)
           n == job.n
           x(i) == Word(job, before, 1, i)
           y(i) == Word(job, before, 2, i)
           same == SameChunk(job, before)
<1>1. /\ Sensible(job) /\ code = Code(job) /\ before \in job.memories
      /\ mem = [c \in DOMAIN before |-> mem[c]] /\ DOMAIN mem = DOMAIN before
  BY Shell
<1>2. ChunkSoFar /\ n \in Nat \ {0}
  BY <1>1, SensibleParts DEF SoFar
<1>3. OnlyIn({r})
  BY <1>2 DEF ChunkSoFar
<1>4. job' = job /\ before' = before /\ code' = code /\ pc <= 3 * n - 1
  <2>1. 1 \in 1 .. job.n
    BY <1>2
  <2>2. Len(Code(job)) = 3 * n - 1
    BY <2>1, <1>1, ChunkCommands
  <2> QED BY <2>2, <1>1, StepIs
<1>5. PICK k \in 1 .. n : pc < 3 * n /\ PairSoFar(k)
  <2>1. pc # 3 * n
    BY <1>2, <1>4
  <2> QED BY <2>1, <1>2 DEF ChunkSoFar
<1>6. /\ pc \in 3 * k - 2 .. 3 * k
      /\ \A i \in 1 .. k - 1 : x(i) = y(i)
      /\ pc > 3 * k - 2 => flags.z = (x(k) = y(k))
      /\ pc = 3 * k => mem[r] = Bool(flags.z)
  BY <1>5 DEF PairSoFar
<1>7. r \in DOMAIN mem
  BY <1>1, ResultWord
<1>8. same <=> \A i \in 1 .. n : x(i) = y(i)
  BY DEF SameChunk
<1>9. Sets \cap Compares = {} /\ Jumps \cap Compares = {} /\ "CMP" \in Compares /\ "SETZ" \in Sets /\ "JNZ" \in Jumps
  BY DEF Sets, Compares, Jumps
<1>10. CASE pc = 3 * k - 2
  <2> DEFINE c == Command("CMP", job.t, <<Element(job.p[1].v, k), Element(job.p[2].v, k)>>)
  <2>1. Now = c
    <3>1. 3 * k - 3 + 1 = pc
      BY <1>10
    <3> QED BY <3>1, <1>1, ChunkCommands DEF Now
  <2>2. c.inst = "CMP" /\ ~c.p[1].wide /\ c.p[1] = Element(job.p[1].v, k) /\ c.p[2] = Element(job.p[2].v, k)
    <3>1. c.inst = "CMP" /\ c.p[1] = Element(job.p[1].v, k) /\ c.p[2] = Element(job.p[2].v, k)
      BY CommandIs
    <3>2. Element(job.p[1].v, k).wide = FALSE
      BY DEF Element, Operand
    <3> HIDE DEF c
    <3> QED BY <3>1, <3>2
  <2> HIDE DEF c
  <2>3. Compared(job, mem, c).z = (Val(mem, c.p[1]) = Val(mem, c.p[2]))
    BY <2>2, NumbersCompared
  <2>4. Val(mem, c.p[1]) = x(k) /\ Val(mem, c.p[2]) = y(k)
    <3>1. \A d \in {r} : d[1] \in {"t1", "t2", job.r.v}
      BY DEF Cell
    <3>2. \A h \in 1 .. 2 : Val(mem, param_shift(job.p[h], k - 1)) = Word(job, before, h, k)
      BY <3>1, <1>3, OperandsKept
    <3>3. \A h \in 1 .. 2 : Val(mem, Element(job.p[h].v, k)) = Val(mem, param_shift(job.p[h], k - 1))
      BY <1>1, ChunkWord
    <3> QED BY <3>2, <3>3, <2>2
  <2>5. flags' = Compared(job, mem, c) /\ pc' = pc + 1 /\ mem' = mem
    BY <2>1, <2>2, <1>9, StepIs
  <2>6. flags'.z = (x(k) = y(k))
    BY <2>3, <2>4, <2>5
  <2>7. pc' \in 3 * k - 2 .. 3 * k /\ pc' < 3 * n /\ pc' # 3 * k
    BY <2>5, <1>2, <1>10
  <2>8. PairSoFar(k)'
    BY <2>6, <2>7, <1>4, <1>6 DEF PairSoFar
  <2> QED BY <2>5, <2>7, <2>8, <1>3, <1>4 DEF ChunkSoFar, OnlyIn
<1>11. CASE pc = 3 * k - 1
  <2> DEFINE c == Command("SETZ", "bool", <<job.r>>)
  <2>1. Now = c
    <3>1. 3 * k - 3 + 2 = pc
      BY <1>11
    <3> QED BY <3>1, <1>1, ChunkCommands DEF Now
  <2>2. c.inst = "SETZ" /\ c.p[1] = job.r
    BY CommandIs
  <2> HIDE DEF c
  <2>3. pc' = pc + 1 /\ flags' = flags /\ mem' = [mem EXCEPT ![r] = Bool(flags.z)]
    <3>1. pc' = pc + 1 /\ flags' = flags /\ mem' = [mem EXCEPT ![r] = Bool(Condition(flags, "SETZ"))]
      BY <2>1, <2>2, <1>9, StepIs
    <3> QED BY <3>1, ConditionIs
  <2>4. flags.z = (x(k) = y(k))
    BY <1>6, <1>11
  <2>5. mem'[r] = Bool(flags.z) /\ \A d \in DOMAIN mem' : d # r => mem'[d] = before[d]
    <3> DEFINE z == Bool(flags.z)
    <3> HIDE DEF r, z
    <3> QED BY <2>3, <1>3, <1>7 DEF OnlyIn, z
  <2>6. CASE k = n
    <3>1. flags.z <=> same
      <4> HIDE DEF x, y
      <4>1. flags.z <=> x(k) = y(k)
        BY <2>4
      <4>2. \A i \in 1 .. n : i = k \/ i \in 1 .. k - 1
        BY <2>6, <1>2
      <4>3. \A i \in 1 .. k - 1 : x(i) = y(i)
        BY <1>6
      <4>4. (\A i \in 1 .. n : x(i) = y(i)) <=> x(k) = y(k)
        BY <4>2, <4>3
      <4> QED BY <4>1, <4>4, <1>8
    <3>2. mem'[r] = Bool(same)
      BY <2>5, <3>1 DEF Bool
    <3>3. pc' = 3 * n
      BY <2>3, <2>6, <1>2, <1>11
    <3> QED BY <3>2, <3>3, <2>5, <1>4 DEF ChunkSoFar, OnlyIn
  <2>7. CASE k # n
    <3>1. pc' = 3 * k /\ pc' < 3 * n /\ pc' \in 3 * k - 2 .. 3 * k
      BY <2>3, <2>7, <1>2, <1>11
    <3>2. PairSoFar(k)'
      BY <3>1, <2>3, <2>4, <2>5, <1>4, <1>6 DEF PairSoFar
    <3> QED BY <3>1, <3>2, <2>5, <1>4 DEF ChunkSoFar, OnlyIn
  <2> QED BY <2>6, <2>7
<1>12. CASE pc = 3 * k
  <2>1. k < n
    BY <1>2, <1>5, <1>12
  <2>2. Now = Jump("JNZ", 3 * n)
    <3>1. 3 * k - 3 + 3 = pc
      BY <1>12
    <3> QED BY <3>1, <2>1, <1>1, ChunkCommands DEF Now
  <2>3. Now.inst = "JNZ" /\ Now.to = 3 * n
    BY <2>2 DEF Jump, Command
  <2>4. pc' = (IF ~flags.z THEN 3 * n ELSE pc + 1) /\ mem' = mem /\ flags' = flags
    <3>1. pc' = (IF Condition(flags, "JNZ") THEN 3 * n ELSE pc + 1) /\ mem' = mem /\ flags' = flags
      BY <2>3, <1>9, StepIs
    <3> QED BY <3>1, ConditionIs
  <2>5. flags.z = (x(k) = y(k)) /\ mem[r] = Bool(flags.z)
    BY <1>6, <1>12
  <2>6. CASE ~flags.z
    <3>1. ~same
      BY <2>5, <2>6, <1>8
    <3>2. mem'[r] = Bool(same)
      BY <2>4, <2>5, <2>6, <3>1 DEF Bool
    <3>3. pc' = 3 * n
      BY <2>4, <2>6
    <3> QED BY <3>2, <3>3, <2>4, <1>3, <1>4 DEF ChunkSoFar, OnlyIn
  <2>7. CASE flags.z
    <3>1. k + 1 \in 1 .. n /\ pc' = 3 * (k + 1) - 2 /\ pc' < 3 * n /\ (k + 1) - 1 = k
      BY <2>1, <2>4, <2>7, <1>2, <1>12
    <3>2. \A i \in 1 .. k : x(i) = y(i)
      <4> HIDE DEF x, y
      <4>1. x(k) = y(k)
        BY <2>5, <2>7
      <4>2. \A i \in 1 .. k : i = k \/ i \in 1 .. k - 1
        BY <1>2
      <4>3. \A i \in 1 .. k - 1 : x(i) = y(i)
        BY <1>6
      <4> QED BY <4>1, <4>2, <4>3
    <3>3. pc' \in 3 * (k + 1) - 2 .. 3 * (k + 1) /\ ~(pc' > 3 * (k + 1) - 2) /\ pc' # 3 * (k + 1)
      BY <3>1
    <3>4. PairSoFar(k + 1)'
      BY <3>1, <3>2, <3>3, <1>4 DEF PairSoFar
    <3>5. \E h \in 1 .. n : pc' < 3 * n /\ PairSoFar(h)'
      BY <3>1, <3>4
    <3> QED BY <3>5, <2>4, <1>3, <1>4 DEF ChunkSoFar, OnlyIn
  <2> QED BY <2>6, <2>7
<1>13. pc = 3 * k - 2 \/ pc = 3 * k - 1 \/ pc = 3 * k
  BY <1>2, <1>6
<1> QED BY <1>10, <1>11, <1>12, <1>13

-----------------------------------------------------------------------------
LEMMA AtTheStart ==
  ASSUME AllSensible, Init
  PROVE  SoFar
<1>1. job \in Jobs /\ code = Code(job) /\ before \in job.memories /\ mem = before /\ pc = 1 /\ Sensible(job)
  BY DEF Init, AllSensible
<1>2. job.n \in Nat \ {0} /\ mem = [c \in DOMAIN before |-> mem[c]]
  BY <1>1, SensibleParts
<1>3. \A cs : OnlyIn(cs)
  BY <1>1 DEF OnlyIn
<1>4. WordsSoFar
  BY <1>1, <1>2, <1>3 DEF WordsSoFar
<1>5. TestSoFar
  BY <1>1, <1>3 DEF TestSoFar
<1>6. job.n > PointerWords => ChunkSoFar
  <2>1. ASSUME job.n > PointerWords
        PROVE  1 \in 1 .. job.n /\ pc < 3 * job.n /\ PairSoFar(1)
    BY <2>1, <1>1, <1>2 DEF PairSoFar, PointerWords
  <2> QED BY <2>1, <1>3 DEF ChunkSoFar
<1>7. SumSoFar
  BY <1>1, <1>3 DEF SumSoFar
<1>8. ComplexSoFar
  BY <1>1, <1>3 DEF ComplexSoFar
<1>9. DotSoFar
  BY <1>1, <1>3 DEF DotSoFar
<1> QED BY <1>1, <1>2, <1>4, <1>5, <1>6, <1>7, <1>8, <1>9 DEF SoFar

LEMMA EveryStep ==
  ASSUME AllSensible, SoFar, [Next]_vars
  PROVE  SoFar'
<1>1. CASE UNCHANGED vars
  <2>1. job' = job /\ code' = code /\ pc' = pc /\ mem' = mem /\ before' = before /\ flags' = flags
    BY <1>1 DEF vars
  <2>2. WordsSoFar => WordsSoFar'
    BY <2>1 DEF WordsSoFar, OnlyIn
  <2>3. TestSoFar => TestSoFar'
    BY <2>1 DEF TestSoFar, OnlyIn
  <2>4. ChunkSoFar => ChunkSoFar'
    <3>1. ASSUME NEW k, PairSoFar(k)
          PROVE  PairSoFar(k)'
      BY <2>1, <3>1 DEF PairSoFar
    <3> QED BY <2>1, <3>1 DEF ChunkSoFar, OnlyIn
  <2>5. SumSoFar => SumSoFar'
    BY <2>1 DEF SumSoFar, OnlyIn
  <2>6. ComplexSoFar => ComplexSoFar'
    BY <2>1 DEF ComplexSoFar, OnlyIn
  <2>7. DotSoFar => DotSoFar'
    BY <2>1 DEF DotSoFar, OnlyIn
  <2> QED BY <2>1, <2>2, <2>3, <2>4, <2>5, <2>6, <2>7 DEF SoFar
<1>2. CASE Next
  <2>1. job' = job /\ code' = code /\ before' = before
    BY <1>2, StepIs
  <2>2. job \in Jobs /\ code = Code(job) /\ before \in job.memories /\ mem = [c \in DOMAIN before |-> mem[c]]
    BY DEF SoFar
  <2>3. mem' = [c \in DOMAIN before |-> mem'[c]]
    <3>1. mem' = mem \/ \E cell, x : mem' = [mem EXCEPT ![cell] = x]
      BY <1>2 DEF Next, Compute, Compare, SetByte, JumpIf, Write
    <3> QED BY <3>1, <2>2
  <2>4. job.op \in WordByWord => WordsSoFar'
    BY <1>2, WordStep
  <2>5. job.op \in Tests \/ (job.op \in ChunkTests /\ job.n <= PointerWords) => TestSoFar'
    BY <1>2, TestStep
  <2>6. job.op \in ChunkTests /\ job.n > PointerWords => ChunkSoFar'
    BY <1>2, ChunkStep
  <2>7. job.op = "AddInt32" => SumSoFar'
    BY <1>2, SumStep
  <2>8. job.op = "ComplexMultiply" => ComplexSoFar'
    BY <1>2, ComplexStep
  <2>9. job.op = "DotProduct" => DotSoFar'
    BY <1>2, DotStep
  <2> QED BY <2>1, <2>2, <2>3, <2>4, <2>5, <2>6, <2>7, <2>8, <2>9 DEF SoFar
<1> QED BY <1>1, <1>2

(* The target is the first words of a variable, or a part of one. *)
LEMMA TargetCells ==
  ASSUME NEW j, Sensible(j)
  PROVE  /\ Width(j) \in 1 .. j.n /\ Target(j).k \in Int
         /\ \A i \in 1 .. Width(j) : TargetWord(j, i) = <<Target(j).v, Target(j).k + (i - 1)>>
<1> DEFINE p == Target(j)
           w == Width(j)
<1>1. j.n \in Nat \ {0} /\ p \in Operands
  BY SensibleParts
<1>2. p.k \in Int
  BY <1>1 DEF Operands
<1>3. w \in 1 .. j.n /\ (~p.wide => w = 1)
  BY <1>1 DEF Width
<1>4. ASSUME NEW i \in 1 .. w
      PROVE  TargetWord(j, i) = <<p.v, p.k + (i - 1)>>
  <2>1. i \in 1 .. j.n
    BY <1>1, <1>3
  <2>2. TargetWord(j, i) = <<p.v, IF p.wide THEN p.k + (i - 1) ELSE p.k>>
    BY <2>1, TargetWordIs
  <2> HIDE DEF p, w
  <2>3. CASE p.wide
    BY <2>2, <2>3, Zenon
  <2>4. CASE ~p.wide
    <3>1. TargetWord(j, i) = <<p.v, p.k>>
      BY <2>2, <2>4, Zenon
    <3>2. p.k = p.k + (i - 1)
      BY <2>4, <1>2, <1>3
    <3> QED BY <3>1, <3>2
  <2> QED BY <2>3, <2>4
<1> QED BY <1>2, <1>3, <1>4

(* The words of the target are what the function returns, all others what they were. *)
LEMMA AllWords ==
  ASSUME AllSensible, SoFar,
         \A i \in 1 .. Width(job) : mem[TargetWord(job, i)] = Meaning(job, before, i),
         OnlyIn(Temps \cup {TargetWord(job, i) : i \in 1 .. Width(job)})
  PROVE  SameAsFunction
<1> DEFINE to == Target(job)
           w == Width(job)
<1>1. Sensible(job) /\ DOMAIN mem \subseteq STRING \X Int
  BY Shell DEF Holding
<1>2. w \in Nat /\ to.k \in Int /\ \A i \in 1 .. w : TargetWord(job, i) = <<to.v, to.k + (i - 1)>>
  BY <1>1, TargetCells, SensibleParts
<1>3. ASSUME NEW c \in DOMAIN mem, c[1] \notin {"t1", "t2"}
      PROVE  mem[c] = IF c[1] = to.v /\ c[2] \in to.k .. to.k + w - 1 THEN Meaning(job, before, c[2] - to.k + 1) ELSE before[c]
  <2>1. c = <<c[1], c[2]>> /\ c[2] \in Int
    BY <1>1
  <2>2. c \notin Temps
    BY <1>3 DEF Temps
  <2> HIDE DEF to, w
  <2>3. CASE c[1] = to.v /\ c[2] \in to.k .. to.k + w - 1
    <3> DEFINE i == c[2] - to.k + 1
    <3>1. i \in 1 .. w /\ c[2] = to.k + (i - 1)
      BY <2>1, <2>3, <1>2
    <3>2. TargetWord(job, i) = c
      <4> HIDE DEF i
      <4> QED BY <2>1, <2>3, <3>1, <1>2
    <3>3. mem[TargetWord(job, i)] = Meaning(job, before, i)
      BY <3>1 DEF w
    <3> QED BY <2>3, <3>2, <3>3
  <2>4. CASE ~(c[1] = to.v /\ c[2] \in to.k .. to.k + w - 1)
    <3>1. ASSUME NEW i \in 1 .. w, c = TargetWord(job, i)
          PROVE  FALSE
      <4>1. c = <<to.v, to.k + (i - 1)>>
        BY <3>1, <1>2
      <4>2. c[1] = to.v /\ c[2] = to.k + (i - 1)
        BY <4>1
      <4> QED BY <4>2, <2>4, <1>2
    <3>2. c \notin Temps \cup {TargetWord(job, i) : i \in 1 .. Width(job)}
      BY <2>2, <3>1 DEF w
    <3> QED BY <3>2, <2>4 DEF OnlyIn
  <2> QED BY <2>3, <2>4
<1> QED BY <1>3 DEF SameAsFunction

LEMMA AtTheEnd ==
  ASSUME AllSensible, SoFar
  PROVE  SameAsFunction
<1> SUFFICES ASSUME ~Running
             PROVE  SameAsFunction
  BY DEF SameAsFunction
<1> DEFINE w == Width(job)
           Words == {TargetWord(job, i) : i \in 1 .. w}
<1>1. /\ Sensible(job) /\ code = Code(job) /\ before \in job.memories /\ job.n \in Nat \ {0} /\ HasWords(job)
  BY Shell, SensibleParts
<1>2. w = (IF Target(job).wide THEN job.n ELSE 1) /\ w \in 1 .. job.n
  BY <1>1, TargetCells DEF Width
<1>3. ~(pc <= Len(code))
  BY DEF Running
<1>4. CASE job.op \in WordByWord
  <2>1. 1 \in 1 .. job.n /\ Stands(job, before, before, 1)
    BY <1>1 DEF Stands
  <2>2. Len(code) = job.n
    BY <2>1, <1>1, <1>4, WordDoes DEF IsListOf
  <2>3. WordsSoFar /\ w = job.n
    BY <1>1, <1>2, <1>4 DEF SoFar, HasWords
  <2>4. pc - 1 = w
    BY <2>2, <2>3, <1>1, <1>3 DEF WordsSoFar
  <2>5. \A i \in 1 .. w : mem[TargetWord(job, i)] = Meaning(job, before, i)
    BY <2>3, <2>4 DEF WordsSoFar
  <2>6. OnlyIn(Words)
    BY <2>3, <2>4 DEF WordsSoFar
  <2>7. OnlyIn(Temps \cup Words)
    BY <2>6 DEF OnlyIn
  <2> QED BY <2>5, <2>7, AllWords
<1>5. ASSUME w = 1, Target(job) = job.r, TargetWord(job, 1) = Cell(job.r),
             mem[Cell(job.r)] = Meaning(job, before, 1), OnlyIn(Temps \cup {Cell(job.r)})
      PROVE  SameAsFunction
  <2>1. Words = {Cell(job.r)}
    BY <1>5
  <2>2. \A i \in 1 .. w : mem[TargetWord(job, i)] = Meaning(job, before, i)
    BY <1>5
  <2>3. OnlyIn(Temps \cup Words)
    BY <2>1, <1>5
  <2> QED BY <2>2, <2>3, AllWords
<1>6. CASE job.op \in Tests \cup ChunkTests \cup {"AddInt32", "DotProduct"}
  <2>1. Target(job) = job.r /\ TargetWord(job, 1) = Cell(job.r)
    BY <1>1, <1>6, ResultWord DEF WithTemps
  <2>2. w = 1
    BY <2>1, <1>1, <1>2, <1>6 DEF HasWords
  <2>3. CASE job.op \in Tests \/ (job.op \in ChunkTests /\ job.n <= PointerWords)
    <3>1. TestSoFar
      BY <2>3 DEF SoFar
    <3>2. TestIs(job, before)
      BY <2>3, <1>1, ComparisonDoes, PointerToBoolDoes, SmallChunkDoes DEF Tests
    <3>3. pc = 3
      <4>1. Len(code) = 2
        BY <3>2, <1>1 DEF TestIs
      <4> QED BY <4>1, <3>1, <1>3 DEF TestSoFar
    <3>4. mem[Cell(job.r)] = Meaning(job, before, 1) /\ OnlyIn({Cell(job.r)})
      BY <3>1, <3>3 DEF TestSoFar
    <3>5. OnlyIn(Temps \cup {Cell(job.r)})
      BY <3>4 DEF OnlyIn
    <3> QED BY <2>1, <2>2, <3>4, <3>5, <1>5
  <2>4. CASE job.op \in ChunkTests /\ job.n > PointerWords
    <3>1. ChunkSoFar
      BY <2>4 DEF SoFar
    <3>2. job.op = "ChunkEqual" /\ Len(code) = 3 * job.n - 1
      <4>1. 1 \in 1 .. job.n
        BY <1>1
      <4> QED BY <4>1, <2>4, <1>1, ChunkCommands
    <3>3. pc = 3 * job.n /\ mem[Cell(job.r)] = Bool(SameChunk(job, before))
      <4>1. ASSUME NEW k \in 1 .. job.n, pc < 3 * job.n, PairSoFar(k)
            PROVE  FALSE
        BY <4>1, <3>2, <1>1, <1>3 DEF PairSoFar
      <4> QED BY <4>1, <3>1 DEF ChunkSoFar
    <3>4. Meaning(job, before, 1) = Bool(SameChunk(job, before))
      BY <3>2, Names DEF Meaning, Comparisons, Conversions
    <3>5. OnlyIn(Temps \cup {Cell(job.r)})
      BY <3>1 DEF ChunkSoFar, OnlyIn
    <3> QED BY <2>1, <2>2, <3>3, <3>4, <3>5, <1>5
  <2>5. CASE job.op = "AddInt32"
    <3>1. SumSoFar /\ Len(Code(job)) = 2
      BY <2>5, <1>1, SumCommands DEF SoFar
    <3>2. pc = 3
      <4>1. Len(code) = 2
        BY <3>1, <1>1
      <4> QED BY <4>1, <3>1, <1>3 DEF SumSoFar
    <3>3. mem[Cell(job.r)] = Meaning(job, before, 1) /\ OnlyIn(Temps \cup {Cell(job.r)})
      BY <3>1, <3>2 DEF SumSoFar
    <3> QED BY <2>1, <2>2, <3>3, <1>5
  <2>6. CASE job.op = "DotProduct"
    <3>1. DotSoFar /\ Len(Code(job)) = 5
      BY <2>6, <1>1, DotCommands DEF SoFar
    <3>2. pc = 6
      BY <3>1, <1>1, <1>3 DEF DotSoFar
    <3>3. mem[Cell(job.r)] = Meaning(job, before, 1) /\ OnlyIn(Temps \cup {Cell(job.r)})
      BY <3>1, <3>2 DEF DotSoFar
    <3> QED BY <2>1, <2>2, <3>3, <1>5
  <2>7. job.n <= PointerWords \/ job.n > PointerWords
    BY <1>1 DEF PointerWords
  <2> QED BY <2>3, <2>4, <2>5, <2>6, <2>7, <1>6
<1>7. CASE job.op = "ComplexMultiply"
  <2>1. ComplexSoFar /\ Len(Code(job)) = 6
    BY <1>1, <1>7, ComplexCommands DEF SoFar
  <2>2. pc = 7
    <3>1. Len(code) = 6
      BY <2>1, <1>1
    <3> QED BY <3>1, <2>1, <1>3 DEF ComplexSoFar
  <2>3. w = 2
    <3>1. Target(job) = job.r
      BY <1>1, <1>7, ResultWord DEF WithTemps
    <3> QED BY <3>1, <1>1, <1>2, <1>7 DEF HasWords
  <2>4. \A i \in 1 .. w : mem[TargetWord(job, i)] = Meaning(job, before, i)
    <3>1. \A i \in 1 .. w : i = 1 \/ i = 2
      BY <2>3
    <3> QED BY <3>1, <2>1, <2>2 DEF ComplexSoFar
  <2>5. OnlyIn(Temps \cup Words)
    BY <2>1, <2>3 DEF ComplexSoFar
  <2> QED BY <2>4, <2>5, AllWords
<1>8. job.op \in WordByWord \cup Tests \cup ChunkTests \cup {"AddInt32", "DotProduct", "ComplexMultiply"}
  BY <1>1 DEF Sensible, WithTemps
<1> QED BY <1>4, <1>6, <1>7, <1>8

(* What the commands have computed so far is, word by word, what the function
   registered for the operator returns: the reason for SameAsFunction, for every
   number of bits, of words and of calls that are Sensible. *)
THEOREM CommandsInvariant ==
  ASSUME \A j \in Jobs : Sensible(j)
  PROVE  Spec => []SoFar
<1>0. AllSensible
  BY DEF AllSensible
<1>1. Init => SoFar
  BY <1>0, AtTheStart
<1>2. SoFar /\ [Next]_vars => SoFar'
  BY <1>0, EveryStep
<1> QED BY <1>1, <1>2, PTL DEF Spec

(* The commands the compiler writes out for an operator or a constructor leave
   in the target what the C++ function returns that constant folding would call,
   and change no other variable. *)
THEOREM InlineSameAsFunction ==
  ASSUME \A j \in Jobs : Sensible(j)
  PROVE  Spec => []SameAsFunction
<1>0. AllSensible
  BY DEF AllSensible
<1>1. SoFar => SameAsFunction
  BY <1>0, AtTheEnd
<1> QED BY <1>1, CommandsInvariant, PTL
=============================================================================
