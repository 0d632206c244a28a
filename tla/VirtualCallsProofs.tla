------------------------ MODULE VirtualCallsProofs -------------------------
(***************************************************************************)
(* Why a virtual call finds the last override: proofs about the functions   *)
(* of ClassTable and the tables of LinkedClasses, for all texts and bounds. *)
(***************************************************************************)
EXTENDS ClassLayoutProofs

(***************************************************************************)
(* Sequences and their entries.                                            *)
(***************************************************************************)
LEMMA SelectedStep ==
  ASSUME NEW S, NEW s \in Seq(S), NEW T
  PROVE  \E f \in [0..Len(s) -> Seq(S)] :
            /\ f[0] = <<>> /\ Selected(s, T) = f[Len(s)]
            /\ \A i \in 1..Len(s) : f[i] = IF s[i] \in T THEN Append(f[i - 1], s[i]) ELSE f[i - 1]
<1> DEFINE N == Len(s)
           Then(q, i) == IF s[i] \in T THEN Append(q, s[i]) ELSE q
           Meets(f, n) == f[0] = <<>> /\ \A i \in 1..n : f[i] = Then(f[i - 1], i)
           of == CHOOSE f : f = [i \in 0..N |-> IF i = 0 THEN <<>> ELSE Then(f[i - 1], i)]
           Upto == {n \in Nat : n <= N => \E f \in [0..n -> Seq(S)] : Meets(f, n)}
<1>0. N \in Nat /\ \A i \in 1..N : \A q \in Seq(S) : Then(q, i) \in Seq(S)
  <2>1. N \in Nat /\ \A i \in 1..N : s[i] \in S
    BY LenProperties, ElementOfSeq
  <2> QED BY <2>1, AppendProperties
<1>1. N \in Upto
  <2> HIDE DEF N, Then
  <2>1. 0 \in Upto
    <3>1. [i \in 0..0 |-> <<>>] \in [0..0 -> Seq(S)] /\ Meets([i \in 0..0 |-> <<>>], 0)
      BY EmptySeq
    <3> QED BY <3>1
  <2>2. ASSUME NEW n \in Nat, n \in Upto
        PROVE  n + 1 \in Upto
    <3> HIDE DEF Meets
    <3> SUFFICES ASSUME n + 1 <= N
                 PROVE  \E f \in [0..n + 1 -> Seq(S)] : Meets(f, n + 1)
      OBVIOUS
    <3>0. n <= N
      BY <1>0
    <3> PICK f \in [0..n -> Seq(S)] : Meets(f, n)
      BY <3>0, <2>2
    <3> USE DEF Meets
    <3> DEFINE g == [i \in 0..n + 1 |-> IF i <= n THEN f[i] ELSE Then(f[n], n + 1)]
    <3>1. g \in [0..n + 1 -> Seq(S)]
      <4>1. f[n] \in Seq(S) /\ n + 1 \in 1..N
        BY <1>0
      <4>2. Then(f[n], n + 1) \in Seq(S)
        BY <4>1, <1>0
      <4> QED BY <4>2
    <3>2. Meets(g, n + 1)
      <4>1. g[0] = <<>>
        OBVIOUS
      <4>2. ASSUME NEW i \in 1..n + 1
            PROVE  g[i] = Then(g[i - 1], i)
        <5>1. CASE i <= n
          BY <5>1
        <5>2. CASE i = n + 1
          <6>1. g[i - 1] = f[n] /\ g[i] = Then(f[n], n + 1)
            BY <5>2
          <6> QED BY <6>1, <5>2
        <5> QED BY <5>1, <5>2
      <4> QED BY <4>1, <4>2
    <3> QED BY <3>1, <3>2
  <2> HIDE DEF Upto
  <2> QED BY <2>1, <2>2, <1>0, Induction
<1>2. PICK f \in [0..N -> Seq(S)] : Meets(f, N)
  BY <1>0, <1>1
<1>3. f = [i \in 0..N |-> IF i = 0 THEN <<>> ELSE Then(f[i - 1], i)]
  <2> HIDE DEF N, Then
  <2>1. \A i \in 0..N : f[i] = IF i = 0 THEN <<>> ELSE Then(f[i - 1], i)
    BY <1>0, <1>2
  <2> QED BY <2>1
<1>4. of = [i \in 0..N |-> IF i = 0 THEN <<>> ELSE Then(of[i - 1], i)]
  <2> HIDE DEF Then
  <2> QED BY <1>3
<1>5. Selected(s, T) = of[N]
  BY DEF Selected
<1>6. Meets(of, N)
  <2> HIDE DEF N, Then, of
  <2>1. 0 \in 0..N /\ \A i \in 1..N : i \in 0..N /\ i # 0
    BY <1>0
  <2>2. of[0] = <<>>
    BY <2>1, <1>4, Zenon
  <2>3. ASSUME NEW i \in 1..N
        PROVE  of[i] = Then(of[i - 1], i)
    <3>1. i \in 0..N /\ i # 0
      BY <2>1
    <3> QED BY <3>1, <1>4, Zenon
  <2> QED BY <2>2, <2>3
<1> DEFINE Typed == {n \in Nat : n <= N => of[n] \in Seq(S)}
<1>7. Nat \subseteq Typed
  <2> HIDE DEF N, Then, of
  <2>1. 0 \in Typed
    BY <1>6, EmptySeq
  <2>2. ASSUME NEW n \in Nat, n \in Typed
        PROVE  n + 1 \in Typed
    <3> SUFFICES ASSUME n + 1 <= N
                 PROVE  of[n + 1] \in Seq(S)
      OBVIOUS
    <3>1. of[n + 1] = Then(of[n], n + 1) /\ of[n] \in Seq(S) /\ n + 1 \in 1..N
      BY <1>0, <1>6, <2>2
    <3> QED BY <3>1, <1>0
  <2> HIDE DEF Typed
  <2> QED BY <2>1, <2>2, Induction
<1>8. of \in [0..N -> Seq(S)]
  <2> HIDE DEF N, of
  <2>1. \A i \in 0..N : of[i] \in Seq(S)
    BY <1>0, <1>7
  <2>2. of = [i \in 0..N |-> of[i]]
    BY <1>4
  <2> QED BY <2>1, <2>2
<1> HIDE DEF of
<1> QED BY <1>6, <1>5, <1>8

(* What is selected are the entries in T, each as often as before. *)
LEMMA SelectedIs ==
  ASSUME NEW S, NEW s \in Seq(S), NEW T, NEW r, r = Selected(s, T)
  PROVE  /\ r \in Seq(S) /\ ToSet(r) = ToSet(s) \cap T
         /\ IsInjective(s) => IsInjective(r)
<1>1. PICK of \in [0..Len(s) -> Seq(S)] :
        /\ of[0] = <<>> /\ r = of[Len(s)]
        /\ \A i \in 1..Len(s) : of[i] = IF s[i] \in T THEN Append(of[i - 1], s[i]) ELSE of[i - 1]
  BY SelectedStep
<1> DEFINE N == Len(s)
           Right(n, q) == /\ {q[i] : i \in DOMAIN q} = {s[i] : i \in 1..n} \cap T
                          /\ IsInjective(s) => \A i, j \in DOMAIN q : q[i] = q[j] => i = j
           Done == {n \in Nat : n <= N => Right(n, of[n])}
<1>2. N \in Nat /\ DOMAIN s = 1..N /\ \A i \in 1..N : s[i] \in S
  BY LenProperties, ElementOfSeq
<1>3. ASSUME IsInjective(s), NEW i \in 1..N, NEW j \in 1..N, s[i] = s[j]
      PROVE  i = j
  BY <1>3, <1>2 DEF IsInjective
<1>4. 0 \in Done
  <2>1. of[0] = <<>> /\ 1..0 = {}
    BY <1>1
  <2> QED BY <2>1
<1>5. ASSUME NEW n \in Nat, n \in Done
      PROVE  n + 1 \in Done
  <2> HIDE DEF N, Right
  <2> SUFFICES ASSUME n + 1 <= N
               PROVE  Right(n + 1, of[n + 1])
    OBVIOUS
  <2>1. n \in 0..N /\ n + 1 \in 1..N /\ Right(n, of[n]) /\ of[n] \in Seq(S)
    BY <1>2, <1>1, <1>5 DEF N
  <2>2. of[n + 1] = IF s[n + 1] \in T THEN Append(of[n], s[n + 1]) ELSE of[n]
    <3>1. (n + 1) - 1 = n
      OBVIOUS
    <3> QED BY <1>1, <2>1, <3>1 DEF N
  <2>3. {s[i] : i \in 1..n + 1} = {s[i] : i \in 1..n} \cup {s[n + 1]}
    <3>1. 1..n + 1 = (1..n) \cup {n + 1}
      OBVIOUS
    <3> QED BY <3>1
  <2>4. CASE s[n + 1] \notin T
    <3>1. of[n + 1] = of[n]
      BY <2>4, <2>2
    <3> QED BY <3>1, <2>1, <2>3, <2>4 DEF Right
  <2>5. CASE s[n + 1] \in T
    <3> DEFINE q == of[n]
               x == s[n + 1]
    <3>1. q \in Seq(S) /\ x \in S /\ of[n + 1] = Append(q, x) /\ Right(n, q)
      BY <2>1, <2>2, <2>5, <1>2
    <3>5. {s[i] : i \in 1..n + 1} = {s[i] : i \in 1..n} \cup {x} /\ x \in T
      BY <2>3, <2>5
    <3>6. IsInjective(s) => x \notin {s[i] : i \in 1..n}
      <4> SUFFICES ASSUME IsInjective(s), NEW i \in 1..n, x = s[i]
                   PROVE  FALSE
        OBVIOUS
      <4>1. i \in 1..N /\ i # n + 1
        BY <2>1, <1>2
      <4> QED BY <4>1, <1>3, <2>1
    <3> HIDE DEF q, x
    <3>2. PICK m \in Nat : /\ DOMAIN q = 1..m /\ DOMAIN Append(q, x) = 1..m + 1
                           /\ \A i \in 1..m : Append(q, x)[i] = q[i]
                           /\ Append(q, x)[m + 1] = x
      BY <3>1, AppendProperties, LenProperties
    <3> DEFINE r1 == Append(q, x)
    <3> HIDE DEF r1
    <3>3. /\ DOMAIN r1 = 1..m + 1 /\ r1[m + 1] = x /\ of[n + 1] = r1
          /\ \A i \in 1..m : r1[i] = q[i]
      BY <3>1, <3>2 DEF r1
    <3>4. {r1[i] : i \in DOMAIN r1} = {q[i] : i \in DOMAIN q} \cup {x}
      <4>1. 1..m + 1 = (1..m) \cup {m + 1}
        OBVIOUS
      <4> QED BY <4>1, <3>2, <3>3
    <3>7. IsInjective(s) => \A i, j \in DOMAIN r1 : r1[i] = r1[j] => i = j
      <4> SUFFICES ASSUME IsInjective(s), NEW i \in 1..m + 1, NEW j \in 1..m + 1, r1[i] = r1[j]
                   PROVE  i = j
        BY <3>3
      <4>1. ASSUME NEW k \in 1..m
            PROVE  q[k] # x
        BY <3>1, <3>2, <3>6, ZenonT(40) DEF Right
      <4>2. \A k, l \in 1..m : q[k] = q[l] => k = l
        BY <3>1, <3>2 DEF Right
      <4> QED BY <4>1, <4>2, <3>2, <3>3
    <3>8. {q[i] : i \in DOMAIN q} = {s[i] : i \in 1..n} \cap T
      BY <3>1 DEF Right
    <3>9. {r1[i] : i \in DOMAIN r1} = {s[i] : i \in 1..n + 1} \cap T
      BY <3>8, <3>4, <3>5
    <3> QED BY <3>3, <3>9, <3>7 DEF Right
  <2> QED BY <2>4, <2>5
<1>6. Right(N, r) /\ r \in Seq(S)
  <2> HIDE DEF Right, N
  <2>1. Nat \subseteq Done
    <3> HIDE DEF Done
    <3> QED BY <1>4, <1>5, Induction
  <2>2. N \in Done /\ N \in 0..N
    BY <2>1, <1>2
  <2> QED BY <2>2, <1>1, <1>2 DEF N
<1> QED BY <1>6, <1>2 DEF ToSet, IsInjective

-----------------------------------------------------------------------------
(***************************************************************************)
(* Adding a function to the functions of a class.                          *)
(***************************************************************************)
Others(fs, f) == {h \in fs : ~SameSignature(h, f)}
Placed(f, v) == [f EXCEPT !.vindex = v]

LEMMA FunctionFields ==
  ASSUME NEW f, DOMAIN f = DOMAIN NoFunction, NEW v
  PROVE  LET g == Placed(f, v)
         IN /\ DOMAIN g = DOMAIN NoFunction /\ g.name = f.name /\ g.params = f.params /\ g.of = f.of
            /\ g.body = f.body /\ g.flags = f.flags /\ g.super = f.super /\ g.vindex = v
<1>1. DOMAIN f = {"name", "params", "of", "body", "vindex", "super", "flags"}
  BY DEF NoFunction, Function
<1> QED BY <1>1 DEF Placed

LEMMA TableEntries ==
  ASSUME NEW fs, NEW n, NEW c, IsTable(fs, n, c)
  PROVE  /\ fs \in Seq(ToSet(fs)) /\ Len(fs) \in Nat /\ DOMAIN fs = 1..Len(fs) /\ n \in Nat
         /\ \A f \in ToSet(fs) : IsFunction(f, c) /\ (f.vindex = -1 \/ f.vindex \in 2..(n - 1))
         /\ \A f, g \in ToSet(fs) : SameSignature(f, g) \/ (f.vindex = g.vindex /\ f.vindex >= 0) => f = g
         /\ \A i \in DOMAIN fs : fs[i] \in ToSet(fs)
         /\ \A f \in ToSet(fs) : \E i \in DOMAIN fs : f = fs[i]
<1>1. fs \in Seq(ToSet(fs)) /\ n \in Nat
  BY DEF IsTable
<1>2. Len(fs) \in Nat /\ DOMAIN fs = 1..Len(fs)
  BY <1>1, LenProperties
<1>3. /\ \A i \in DOMAIN fs : fs[i] \in ToSet(fs)
      /\ \A f \in ToSet(fs) : \E i \in DOMAIN fs : f = fs[i]
  BY DEF ToSet
<1>4. ASSUME NEW f \in ToSet(fs), NEW g \in ToSet(fs), SameSignature(f, g) \/ (f.vindex = g.vindex /\ f.vindex >= 0)
      PROVE  f = g
  <2>1. PICK i, j \in DOMAIN fs : f = fs[i] /\ g = fs[j]
    BY <1>3
  <2>2. i = j
    BY <2>1, <1>4 DEF IsTable
  <2> QED BY <2>1, <2>2
<1> QED BY <1>1, <1>2, <1>3, <1>4 DEF IsTable

LEMMA Appended ==
  ASSUME NEW fs, NEW n, NEW c, IsTable(fs, n, c), NEW g, IsFunction(g, c),
         NEW m \in Nat, n <= m, g.vindex = -1 \/ (g.vindex \in 2..(m - 1) /\ n <= g.vindex),
         \A f \in ToSet(fs) : ~SameSignature(f, g)
  PROVE  IsTable(Append(fs, g), m, c) /\ ToSet(Append(fs, g)) = ToSet(fs) \cup {g}
<1> DEFINE r == Append(fs, g)
           l == Len(fs)
<1>1. /\ fs \in Seq(ToSet(fs)) /\ l \in Nat /\ DOMAIN fs = 1..l /\ n \in Nat
      /\ \A f \in ToSet(fs) : IsFunction(f, c) /\ (f.vindex = -1 \/ f.vindex \in 2..(n - 1))
      /\ \A i \in DOMAIN fs : fs[i] \in ToSet(fs)
  BY TableEntries
<1>2. /\ r \in Seq(ToSet(fs) \cup {g}) /\ DOMAIN r = 1..l + 1 /\ r[l + 1] = g
      /\ \A i \in 1..l : r[i] = fs[i]
  <2>1. fs \in Seq(ToSet(fs) \cup {g})
    BY <1>1, SeqMonotonic
  <2> QED BY <2>1, <1>1, AppendProperties, LenProperties
<1> HIDE DEF r, l
<1>3. ToSet(r) = ToSet(fs) \cup {g}
  <2>1. ToSet(r) = {r[i] : i \in 1..l + 1} /\ ToSet(fs) = {fs[i] : i \in 1..l}
    BY <1>1, <1>2 DEF ToSet
  <2>2. ASSUME NEW f \in {r[i] : i \in 1..l + 1}
        PROVE  f \in {fs[i] : i \in 1..l} \cup {g}
    <3>1. PICK i \in 1..l + 1 : f = r[i]
      OBVIOUS
    <3>2. i = l + 1 \/ i \in 1..l
      BY <1>1
    <3> QED BY <3>1, <3>2, <1>2
  <2>3. ASSUME NEW f \in {fs[i] : i \in 1..l} \cup {g}
        PROVE  f \in {r[i] : i \in 1..l + 1}
    <3>1. l + 1 \in 1..l + 1 /\ \A i \in 1..l : i \in 1..l + 1
      BY <1>1
    <3> QED BY <3>1, <1>2
  <2> QED BY <2>1, <2>2, <2>3
<1>4. ASSUME NEW f \in ToSet(r)
      PROVE  IsFunction(f, c) /\ (f.vindex = -1 \/ f.vindex \in 2..(m - 1))
  <2>1. CASE f = g
    BY <2>1
  <2>2. CASE f \in ToSet(fs)
    <3>1. f.vindex = -1 \/ f.vindex \in 2..(n - 1)
      BY <2>2, <1>1
    <3> QED BY <3>1, <2>2, <1>1
  <2> QED BY <2>1, <2>2, <1>3
<1>5. ASSUME NEW f \in ToSet(fs)
      PROVE  ~SameSignature(f, g) /\ ~SameSignature(g, f) /\ ~(f.vindex = g.vindex /\ f.vindex >= 0)
  <2>1. f.vindex = -1 \/ f.vindex \in 2..(n - 1)
    BY <1>1
  <2> QED BY <2>1, <1>1 DEF SameSignature
<1>6. ASSUME NEW i \in DOMAIN r, NEW j \in DOMAIN r,
             SameSignature(r[i], r[j]) \/ (r[i].vindex = r[j].vindex /\ r[i].vindex >= 0)
      PROVE  i = j
  <2>1. CASE i \in 1..l /\ j \in 1..l
    <3>1. r[i] = fs[i] /\ r[j] = fs[j] /\ i \in DOMAIN fs /\ j \in DOMAIN fs
      BY <2>1, <1>1, <1>2
    <3> QED BY <3>1, <1>6 DEF IsTable
  <2>2. CASE i = l + 1 /\ j \in 1..l
    <3>1. r[i] = g /\ r[j] \in ToSet(fs)
      BY <2>2, <1>1, <1>2
    <3>2. g.vindex = r[j].vindex /\ g.vindex >= 0 => r[j].vindex = g.vindex /\ r[j].vindex >= 0
      OBVIOUS
    <3> QED BY <3>1, <3>2, <1>5, <1>6
  <2>3. CASE i \in 1..l /\ j = l + 1
    <3>1. r[j] = g /\ r[i] \in ToSet(fs)
      BY <2>3, <1>1, <1>2
    <3> QED BY <3>1, <1>5, <1>6
  <2> QED BY <2>1, <2>2, <2>3, <1>1, <1>2
<1>7. r \in Seq(ToSet(r))
  BY <1>2, <1>3
<1> QED BY <1>3, <1>4, <1>6, <1>7 DEF IsTable, r

LEMMA Exchanged ==
  ASSUME NEW fs, NEW n, NEW c, IsTable(fs, n, c), NEW g, IsFunction(g, c),
         NEW k \in DOMAIN fs, SameSignature(g, fs[k]), g.vindex = fs[k].vindex
  PROVE  /\ IsTable([fs EXCEPT ![k] = g], n, c)
         /\ ToSet([fs EXCEPT ![k] = g]) = Others(ToSet(fs), g) \cup {g}
<1> DEFINE r == [fs EXCEPT ![k] = g]
<1>1. /\ fs \in Seq(ToSet(fs)) /\ Len(fs) \in Nat /\ DOMAIN fs = 1..Len(fs) /\ n \in Nat
      /\ \A f \in ToSet(fs) : IsFunction(f, c) /\ (f.vindex = -1 \/ f.vindex \in 2..(n - 1))
      /\ \A i \in DOMAIN fs : fs[i] \in ToSet(fs)
      /\ \A f \in ToSet(fs) : \E i \in DOMAIN fs : f = fs[i]
  BY TableEntries
<1>2. DOMAIN r = DOMAIN fs /\ r[k] = g /\ \A i \in DOMAIN fs : i # k => r[i] = fs[i]
  OBVIOUS
<1>3. r \in Seq(ToSet(fs) \cup {g})
  <2>1. fs \in Seq(ToSet(fs) \cup {g})
    BY <1>1, SeqMonotonic
  <2> QED BY <2>1, <1>1, ExceptSeq
<1> HIDE DEF r
<1>4. \A i \in DOMAIN fs : SameSignature(fs[i], g) <=> i = k
  <2>1. ASSUME NEW i \in DOMAIN fs, SameSignature(fs[i], g)
        PROVE  i = k
    <3>1. SameSignature(fs[i], fs[k])
      BY <2>1 DEF SameSignature
    <3> QED BY <3>1 DEF IsTable
  <2>2. SameSignature(fs[k], g)
    BY DEF SameSignature
  <2> QED BY <2>1, <2>2
<1>5. ToSet(r) = Others(ToSet(fs), g) \cup {g}
  <2>1. ASSUME NEW f \in Others(ToSet(fs), g)
        PROVE  f \in ToSet(r)
    <3>1. PICK i \in DOMAIN fs : f = fs[i]
      BY <1>1, <2>1 DEF Others
    <3>2. i # k
      BY <3>1, <2>1, <1>4 DEF Others
    <3> QED BY <3>1, <3>2, <1>2 DEF ToSet
  <2>2. ASSUME NEW f \in ToSet(r), f # g
        PROVE  f \in Others(ToSet(fs), g)
    <3>1. PICK i \in DOMAIN fs : f = r[i]
      BY <1>2 DEF ToSet
    <3>2. i # k /\ f = fs[i]
      BY <3>1, <2>2, <1>2
    <3> QED BY <3>2, <1>1, <1>4 DEF Others
  <2>3. g \in ToSet(r)
    BY <1>2 DEF ToSet
  <2> QED BY <2>1, <2>2, <2>3
<1>6. ASSUME NEW f \in ToSet(r)
      PROVE  IsFunction(f, c) /\ (f.vindex = -1 \/ f.vindex \in 2..(n - 1))
  BY <1>1, <1>5 DEF Others
<1>7. ASSUME NEW i \in DOMAIN r, NEW j \in DOMAIN r,
             SameSignature(r[i], r[j]) \/ (r[i].vindex = r[j].vindex /\ r[i].vindex >= 0)
      PROVE  i = j
  <2>1. SameSignature(fs[i], fs[j]) \/ (fs[i].vindex = fs[j].vindex /\ fs[i].vindex >= 0)
    <3>1. ASSUME NEW x \in DOMAIN fs
          PROVE  r[x].name = fs[x].name /\ r[x].params = fs[x].params /\ r[x].vindex = fs[x].vindex
      BY <1>2 DEF SameSignature
    <3> QED BY <3>1, <1>7, <1>2 DEF SameSignature
  <2> QED BY <2>1, <1>2 DEF IsTable
<1>8. r \in Seq(ToSet(r))
  <2> DEFINE S == ToSet(fs) \cup {g}
  <2> HIDE DEF S
  <2>1. r \in Seq(S)
    BY <1>3 DEF S
  <2> QED BY <2>1, SeqOfItself
<1> QED BY <1>1, <1>5, <1>6, <1>7, <1>8 DEF IsTable, r

(* What may be added to a class c, and what it has then. *)
CanAdd(f, c, virtual, override) ==
  /\ DOMAIN f = DOMAIN NoFunction /\ f.body # Nobody
  /\ IF f.name \in {"init", "assign"} THEN ~virtual /\ ~IsVirtual(f) ELSE f.params = <<>>
  /\ f.name = "delete" => f.of = c
  /\ IsPlain(f.name) => (virtual <=> IsVirtual(f)) /\ (override <=> IsOverride(f))
HasAdded(fs, n, old, f, c, v) ==
  /\ IsTable(fs, n, c)
  /\ ToSet(fs) = Others(ToSet(old), f) \cup {Placed(f, v)}

IsAdded(r, cl, f, c, virtual, override, v) ==
  /\ HasAdded(r.functions, r.vtable, cl.functions, f, c, v)
  /\ IF override THEN \E h \in ToSet(cl.functions) : SameSignature(h, f) /\ h.vindex = v
     ELSE /\ v >= 0 <=> virtual
          /\ \A h \in ToSet(cl.functions) : ~SameSignature(h, f)

LEMMA AddFunctionIs ==
  ASSUME NEW cl, NEW c, DOMAIN cl = DOMAIN NewClass, IsTable(cl.functions, cl.vtable, c),
         NEW f, NEW virtual \in BOOLEAN, NEW override \in BOOLEAN, CanAdd(f, c, virtual, override),
         override <=> Overridden(cl, f) # {}, NEW r, r = AddFunction(cl, f, virtual, override)
  PROVE  /\ DOMAIN r = DOMAIN NewClass
         /\ (virtual /\ ~override) \/ r.vtable = cl.vtable
         /\ \E v \in Int : IsAdded(r, cl, f, c, virtual, override, v)
<1> DEFINE fs == cl.functions
           n == cl.vtable
           k == CHOOSE i \in Overridden(cl, f) : TRUE
           v == IF override THEN fs[k].vindex ELSE IF virtual THEN Larger(n, 2) ELSE -1
           g == Placed(f, v)
           new == IF override THEN [fs EXCEPT ![k] = g] ELSE Append(fs, g)
           m == Larger(n, v + 1)
<1>1. DOMAIN cl = Fields
  BY NewClassFields
<1>2. DOMAIN r = DOMAIN NewClass /\ r.functions = new /\ r.vtable = m
  BY <1>1 DEF AddFunction, Placed, Fields
<1>3. /\ n \in Nat /\ \A i \in DOMAIN fs : fs[i] \in ToSet(fs)
      /\ \A h \in ToSet(fs) : IsFunction(h, c) /\ (h.vindex = -1 \/ h.vindex \in 2..(n - 1))
      /\ \A h \in ToSet(fs) : \E i \in DOMAIN fs : h = fs[i]
  BY TableEntries
<1>4. Overridden(cl, f) = {i \in DOMAIN fs : SameSignature(f, fs[i])}
  BY DEF Overridden
<1> HIDE DEF fs, n, k
<1>5. ASSUME NEW w \in Int, f.name \in {"init", "assign"} => w = -1,
             IsPlain(f.name) /\ ~IsOverride(f) => (IsVirtual(f) <=> w >= 0)
      PROVE  IsFunction(Placed(f, w), c) /\ Placed(f, w).vindex = w
  <2> DEFINE h == Placed(f, w)
  <2>1. /\ DOMAIN h = DOMAIN NoFunction /\ h.name = f.name /\ h.params = f.params /\ h.of = f.of
        /\ h.body = f.body /\ h.flags = f.flags /\ h.vindex = w
    BY FunctionFields DEF CanAdd
  <2> HIDE DEF h
  <2>2. (IsVirtual(h) <=> IsVirtual(f)) /\ (IsOverride(h) <=> IsOverride(f))
    BY <2>1 DEF IsVirtual, IsOverride
  <2> QED BY <2>1, <2>2, <1>5 DEF IsFunction, CanAdd, h
<1>6. CASE override
  <2>1. k \in DOMAIN fs /\ SameSignature(f, fs[k]) /\ v = fs[k].vindex /\ fs[k] \in ToSet(fs)
    BY <1>6, <1>4, <1>3 DEF k
  <2>2. v \in Int /\ (v = -1 \/ v \in 2..(n - 1)) /\ (f.name \in {"init", "assign"} => v = -1)
    BY <2>1, <1>3 DEF IsFunction, SameSignature
  <2>3. m = n /\ new = [fs EXCEPT ![k] = g]
    BY <2>2, <1>3, <1>6 DEF Larger
  <2> HIDE DEF v, m, new
  <2>4. IsFunction(g, c) /\ g.vindex = v
    BY <2>2, <1>5, <1>6 DEF CanAdd
  <2>5. g.name = f.name /\ g.params = f.params
    BY FunctionFields DEF CanAdd
  <2>6. SameSignature(g, fs[k]) /\ SameSignature(fs[k], f)
    BY <2>5, <2>1 DEF SameSignature
  <2>7. IsTable([fs EXCEPT ![k] = g], n, c) /\ ToSet([fs EXCEPT ![k] = g]) = Others(ToSet(fs), g) \cup {g}
    <3> HIDE DEF g
    <3> QED BY <2>1, <2>4, <2>6, Exchanged DEF fs, n
  <2>8. Others(ToSet(fs), g) = Others(ToSet(fs), f)
    BY <2>5 DEF Others, SameSignature
  <2>9. HasAdded(r.functions, r.vtable, fs, f, c, v)
    BY <2>7, <2>8, <2>3, <1>2 DEF HasAdded
  <2>10. \E h \in ToSet(fs) : SameSignature(h, f) /\ h.vindex = v
    BY <2>1, <2>6
  <2>11. IsAdded(r, cl, f, c, virtual, override, v)
    BY <2>9, <2>10, <1>6 DEF IsAdded, fs
  <2> QED BY <1>2, <2>3, <2>2, <2>11 DEF n
<1>7. CASE ~override
  <2>1. /\ v = IF virtual THEN Larger(n, 2) ELSE -1
        /\ m = Larger(n, v + 1) /\ new = Append(fs, g)
    BY <1>7
  <2>2. \A h \in ToSet(fs) : ~SameSignature(h, f)
    <3>1. \A i \in DOMAIN fs : ~SameSignature(f, fs[i])
      BY <1>7, <1>4
    <3> QED BY <3>1, <1>3 DEF SameSignature
  <2> HIDE DEF v, m, new
  <2>3. /\ v \in Int /\ (v >= 0 <=> virtual) /\ m \in Nat /\ n <= m
        /\ v = -1 \/ (v \in 2..(m - 1) /\ n <= v)
        /\ ~virtual => v = -1 /\ m = n
    BY <2>1, <1>3 DEF Larger
  <2>4. IsFunction(g, c) /\ g.vindex = v
    BY <2>3, <1>5, <1>7 DEF CanAdd
  <2>5. g.name = f.name /\ g.params = f.params
    BY FunctionFields DEF CanAdd
  <2>6. \A h \in ToSet(fs) : ~SameSignature(h, g)
    BY <2>2, <2>5 DEF SameSignature
  <2>7. IsTable(Append(fs, g), m, c) /\ ToSet(Append(fs, g)) = ToSet(fs) \cup {g}
    <3> HIDE DEF g
    <3> QED BY <2>3, <2>4, <2>6, Appended DEF fs, n
  <2>8. Others(ToSet(fs), f) = ToSet(fs)
    BY <2>2 DEF Others
  <2>9. HasAdded(r.functions, r.vtable, fs, f, c, v)
    BY <2>7, <2>8, <2>1, <1>2 DEF HasAdded
  <2>10. IsAdded(r, cl, f, c, virtual, override, v)
    BY <2>2, <2>3, <2>9, <1>7 DEF IsAdded, fs
  <2> QED BY <1>2, <2>1, <2>3, <2>10, <1>7 DEF n
<1> QED BY <1>6, <1>7

-----------------------------------------------------------------------------
(***************************************************************************)
(* One more line of a class.                                               *)
(***************************************************************************)
LEMMA LeastIs ==
  ASSUME NEW S, NEW x \in S, S \subseteq Int, \A y \in S : x <= y
  PROVE  Min(S) = x
<1>1. \A z \in S : (\A y \in S : z <= y) => z = x
  <2> SUFFICES ASSUME NEW z \in S, \A y \in S : z <= y
               PROVE  z = x
    OBVIOUS
  <2>1. z <= x /\ x <= z
    OBVIOUS
  <2> QED BY <2>1
<1> QED BY <1>1 DEF Min

LEMMA LinesForMore ==
  ASSUME NEW lines, NEW more, NEW line, HasOneMore(lines, more, line), NEW name
  PROVE  LET new == line.k = "func" /\ line.f.name = name
         IN /\ LinesFor(lines, name) # {} => LinesFor(more, name) # {} /\ FirstOf(more, name) = FirstOf(lines, name)
            /\ LinesFor(lines, name) = {} /\ new => LinesFor(more, name) # {} /\ FirstOf(more, name) = line.f
            /\ LinesFor(lines, name) = {} /\ ~new => LinesFor(more, name) = {}
<1> DEFINE new == line.k = "func" /\ line.f.name = name
           A == LinesFor(lines, name)
           B == LinesFor(more, name)
<1>1. PICK n \in Nat : /\ DOMAIN lines = 1..n /\ DOMAIN more = 1..(n + 1)
                       /\ \A k \in 1..n : more[k] = lines[k]
                       /\ more[n + 1] = line
  BY DEF HasOneMore
<1>2. A \subseteq 1..n /\ B = IF new THEN A \cup {n + 1} ELSE A
  <2>1. A = {k \in 1..n : lines[k].k = "func" /\ lines[k].f.name = name}
    BY <1>1 DEF LinesFor
  <2>2. B = {k \in 1..n + 1 : more[k].k = "func" /\ more[k].f.name = name}
    BY <1>1 DEF LinesFor
  <2>3. \A k \in 1..n + 1 : k \in 1..n \/ k = n + 1
    BY <1>1
  <2>4. n + 1 \in 1..n + 1 /\ n + 1 \notin 1..n /\ \A k \in 1..n : k \in 1..n + 1
    BY <1>1
  <2>5. ASSUME NEW k \in 1..n
        PROVE  k \in B <=> k \in A
    BY <2>1, <2>2, <2>4, <1>1
  <2>6. n + 1 \in B <=> new
    BY <2>2, <2>4, <1>1
  <2>7. A \subseteq 1..n /\ B \subseteq 1..n + 1
    BY <2>1, <2>2
  <2> HIDE DEF A, B, new
  <2>8. CASE new
    BY <2>8, <2>3, <2>4, <2>5, <2>6, <2>7
  <2>9. CASE ~new
    <3>1. B \subseteq 1..n
      BY <2>9, <2>3, <2>6, <2>7
    <3>2. B = A
      BY <3>1, <2>5, <2>7
    <3> QED BY <3>2, <2>7, <2>9
  <2> QED BY <2>8, <2>9
<1> HIDE DEF A, B, new
<1>3. CASE A # {}
  <2>1. PICK x \in A : \A y \in A : x <= y
    <3>1. A \subseteq Nat
      BY <1>2
    <3> QED BY <3>1, <1>3, LeastNumber
  <2>2. x \in 1..n /\ x \in B /\ \A y \in B : x <= y
    BY <2>1, <1>2
  <2>3. Min(A) = x /\ Min(B) = x
    <3>1. A \subseteq Int /\ B \subseteq Int
      BY <1>2
    <3> QED BY <3>1, <2>1, <2>2, LeastIs
  <2>4. FirstOf(more, name) = FirstOf(lines, name)
    BY <2>2, <2>3, <1>1 DEF FirstOf, A, B
  <2> QED BY <2>2, <2>4, <1>3 DEF A, B
<1>4. CASE A = {} /\ new
  <2>1. B = {n + 1}
    BY <1>4, <1>2
  <2>2. Min(B) = n + 1
    BY <2>1, LeastIs
  <2>3. FirstOf(more, name) = line.f
    BY <2>2, <1>1 DEF FirstOf, B
  <2> QED BY <2>1, <2>3, <1>4 DEF A, B, new
<1>5. CASE A = {} /\ ~new
  BY <1>5, <1>2 DEF A, B, new
<1> QED BY <1>3, <1>4, <1>5 DEF A, B, new

(* The parts of Follows. *)
Belongs(c, fs, above, lines) ==
  \A f \in fs : IsPlain(f.name) => IF LinesFor(lines, f.name) # {} THEN f.of = c ELSE f \in above
AsFirst(fs, above, lines) ==
  \A f \in fs : IsPlain(f.name) /\ (\A g \in above : g.name # f.name) =>
     (f.vindex >= 0 <=> IsVirtual(FirstOf(lines, f.name)))
HasAll(fs, lines) == \A k \in DOMAIN lines : lines[k].k = "func" /\ IsPlain(lines[k].f.name) =>
                                                 \E f \in fs : f.name = lines[k].f.name
Carries(fs, above) ==
  \A g \in above : g.name \notin {"init", "assign"} => \E f \in fs : f.name = g.name /\ f.vindex = g.vindex
Empties(fs, above, working) ==
  \A f \in fs : f.body = Nobody => working /\ (f.name = "init" => \E g \in above : SameSignature(f, g))
LEMMA FollowsParts ==
  ASSUME NEW c, NEW fs, NEW above, NEW lines, NEW working
  PROVE  Follows(c, fs, above, lines, working) <=>
           /\ Belongs(c, fs, above, lines) /\ AsFirst(fs, above, lines) /\ HasAll(fs, lines)
           /\ Carries(fs, above) /\ Empties(fs, above, working)
BY DEF Follows, Belongs, AsFirst, HasAll, Carries, Empties

(* Where a line puts its function: at the place of the one it overrides, or at a
   new one. *)
PlaceIs(fs, f, v) ==
  IF IsOverride(f) THEN \E h \in fs : SameSignature(h, f) /\ h.vindex = v
  ELSE /\ v >= 0 <=> IsVirtual(f)
       /\ \A h \in fs : ~SameSignature(h, f)

LEMMA FollowsLine ==
  ASSUME NEW c, NEW old, NEW n, IsTable(old, n, c), NEW f, NEW new, NEW m, NEW v, HasAdded(new, m, old, f, c, v),
         CanAdd(f, c, IsVirtual(f), IsOverride(f)), f.of = c,
         PlaceIs(ToSet(old), f, v), NEW lines, NEW more, NEW line, HasOneMore(lines, more, line), line.k = "func", line.f = f,
         NEW above, Follows(c, ToSet(old), above, lines, TRUE)
  PROVE  Follows(c, ToSet(new), above, more, TRUE)
<1> DEFINE F == ToSet(old)
           G == ToSet(new)
           g == Placed(f, v)
<1>1. G = Others(F, f) \cup {g}
  BY DEF HasAdded
<1>2. /\ DOMAIN f = DOMAIN NoFunction /\ f.body # Nobody
      /\ f.name \notin {"init", "assign"} => f.params = <<>>
  BY DEF CanAdd
<1>3. g.name = f.name /\ g.of = c /\ g.body # Nobody /\ g.vindex = v
  BY <1>2, FunctionFields
<1>4. /\ \A h \in F : IsFunction(h, c)
      /\ \A h, k \in F : SameSignature(h, k) => h = k
  BY TableEntries
<1>5. /\ Belongs(c, F, above, lines) /\ AsFirst(F, above, lines) /\ HasAll(F, lines)
      /\ Carries(F, above) /\ Empties(F, above, TRUE)
  BY FollowsParts
<1>6. ASSUME NEW name
      PROVE  /\ LinesFor(lines, name) # {} => LinesFor(more, name) # {} /\ FirstOf(more, name) = FirstOf(lines, name)
             /\ LinesFor(lines, name) = {} /\ f.name = name => LinesFor(more, name) # {} /\ FirstOf(more, name) = f
             /\ LinesFor(lines, name) = {} /\ f.name # name => LinesFor(more, name) = {}
  BY LinesForMore
<1>7. ASSUME NEW h \in F, h.name = f.name, f.name \notin {"init", "assign"}
      PROVE  SameSignature(h, f)
  BY <1>7, <1>4, <1>2 DEF IsFunction, SameSignature
<1>8. \A h \in F : SameSignature(h, f) => h.vindex = v /\ IsOverride(f)
  <2> SUFFICES ASSUME NEW h \in F, SameSignature(h, f)
               PROVE  h.vindex = v /\ IsOverride(f)
    OBVIOUS
  <2>1. CASE ~IsOverride(f)
    BY <2>1 DEF PlaceIs
  <2>2. CASE IsOverride(f)
    <3>1. PICK k \in F : SameSignature(k, f) /\ k.vindex = v
      BY <2>2 DEF PlaceIs
    <3>2. SameSignature(h, k)
      BY <3>1 DEF SameSignature
    <3> QED BY <3>1, <3>2, <1>4, <2>2
  <2> QED BY <2>1, <2>2
<1> HIDE DEF F, G, g
<1>9. Belongs(c, G, above, more)
  <2> SUFFICES ASSUME NEW h \in G, IsPlain(h.name)
               PROVE  IF LinesFor(more, h.name) # {} THEN h.of = c ELSE h \in above
    BY DEF Belongs
  <2>1. CASE h = g
    <3>1. h.of = c /\ LinesFor(more, h.name) # {}
      BY <2>1, <1>3, <1>6
    <3> QED BY <3>1
  <2>2. CASE h \in Others(F, f)
    <3>1. h \in F /\ h.name # f.name
      BY <2>2, <1>7 DEF Others, IsPlain
    <3>2. IF LinesFor(lines, h.name) # {} THEN h.of = c ELSE h \in above
      BY <3>1, <1>5 DEF Belongs
    <3> QED BY <3>1, <3>2, <1>6
  <2> QED BY <2>1, <2>2, <1>1
<1>10. AsFirst(G, above, more)
  <2> SUFFICES ASSUME NEW h \in G, IsPlain(h.name), \A a \in above : a.name # h.name
               PROVE  h.vindex >= 0 <=> IsVirtual(FirstOf(more, h.name))
    BY DEF AsFirst
  <2>1. CASE h = g /\ LinesFor(lines, f.name) = {}
    <3>1. FirstOf(more, h.name) = f /\ IsPlain(f.name)
      BY <2>1, <1>3, <1>6
    <3>2. \A k \in F : k.name # f.name
      BY <1>5, <1>3, <2>1 DEF Belongs
    <3>3. ~IsOverride(f) /\ (v >= 0 <=> IsVirtual(f))
      BY <3>2 DEF SameSignature, F, PlaceIs
    <3> QED BY <3>1, <3>3, <2>1, <1>3
  <2>2. CASE h = g /\ LinesFor(lines, f.name) # {}
    <3>1. FirstOf(more, h.name) = FirstOf(lines, f.name) /\ h.name = f.name /\ h.vindex = v
      BY <2>2, <1>3, <1>6
    <3>2. PICK k \in F : k.name = f.name
      <4>1. PICK x \in DOMAIN lines : lines[x].k = "func" /\ lines[x].f.name = f.name
        BY <2>2 DEF LinesFor
      <4> QED BY <4>1, <3>1, <1>5 DEF HasAll
    <3>3. k.vindex = v
      BY <3>1, <3>2, <1>7, <1>8 DEF IsPlain
    <3>4. k.vindex >= 0 <=> IsVirtual(FirstOf(lines, k.name))
      BY <3>1, <3>2, <1>5 DEF AsFirst
    <3> QED BY <3>1, <3>2, <3>3, <3>4
  <2>3. CASE h \in Others(F, f)
    <3>1. h \in F /\ h.name # f.name
      BY <2>3, <1>7 DEF Others, IsPlain
    <3>2. h.vindex >= 0 <=> IsVirtual(FirstOf(lines, h.name))
      BY <3>1, <1>5 DEF AsFirst
    <3>3. LinesFor(lines, h.name) # {}
      BY <3>1, <1>5 DEF Belongs
    <3> QED BY <3>1, <3>2, <3>3, <1>6
  <2> QED BY <2>1, <2>2, <2>3, <1>1
<1>11. HasAll(G, more)
  <2> SUFFICES ASSUME NEW k \in DOMAIN more, more[k].k = "func", IsPlain(more[k].f.name)
               PROVE  \E h \in G : h.name = more[k].f.name
    BY DEF HasAll
  <2>1. PICK l \in Nat : /\ DOMAIN lines = 1..l /\ DOMAIN more = 1..(l + 1)
                         /\ \A x \in 1..l : more[x] = lines[x]
                         /\ more[l + 1] = line
    BY DEF HasOneMore
  <2>2. CASE k = l + 1
    <3>1. more[k].f = f /\ g \in G
      BY <2>2, <2>1, <1>1
    <3> QED BY <3>1, <1>3
  <2>3. CASE k \in 1..l
    <3>1. PICK h \in F : h.name = more[k].f.name
      BY <2>1, <2>3, <1>5 DEF HasAll
    <3>2. CASE SameSignature(h, f)
      <4>1. g \in G /\ g.name = h.name
        BY <3>2, <1>1, <1>3 DEF SameSignature
      <4> QED BY <4>1, <3>1
    <3>3. CASE ~SameSignature(h, f)
      <4>1. h \in G
        BY <3>3, <1>1 DEF Others
      <4> QED BY <4>1, <3>1
    <3> QED BY <3>2, <3>3
  <2> QED BY <2>1, <2>2, <2>3
<1>12. Carries(G, above)
  <2> SUFFICES ASSUME NEW a \in above, a.name \notin {"init", "assign"}
               PROVE  \E h \in G : h.name = a.name /\ h.vindex = a.vindex
    BY DEF Carries
  <2>1. PICK h \in F : h.name = a.name /\ h.vindex = a.vindex
    BY <1>5 DEF Carries
  <2>2. CASE SameSignature(h, f)
    <3>1. g \in G /\ g.name = h.name /\ g.vindex = h.vindex
      BY <2>2, <1>1, <1>3, <1>8 DEF SameSignature
    <3> QED BY <3>1, <2>1
  <2>3. CASE ~SameSignature(h, f)
    <3>1. h \in G
      BY <2>3, <1>1 DEF Others
    <3> QED BY <3>1, <2>1
  <2> QED BY <2>2, <2>3
<1>13. Empties(G, above, TRUE)
  BY <1>1, <1>3, <1>5 DEF Empties, Others
<1> QED BY <1>9, <1>10, <1>11, <1>12, <1>13, FollowsParts DEF G

(* Any other line leaves the functions as they are. *)
LEMMA FollowsOtherLine ==
  ASSUME NEW c, NEW fs, NEW above, NEW lines, NEW more, NEW line, HasOneMore(lines, more, line), line.k # "func",
         NEW working, Follows(c, fs, above, lines, working)
  PROVE  Follows(c, fs, above, more, TRUE)
<1>1. /\ Belongs(c, fs, above, lines) /\ AsFirst(fs, above, lines) /\ HasAll(fs, lines)
      /\ Carries(fs, above) /\ Empties(fs, above, working)
  BY FollowsParts
<1>2. ASSUME NEW name
      PROVE  /\ LinesFor(lines, name) # {} => LinesFor(more, name) # {} /\ FirstOf(more, name) = FirstOf(lines, name)
             /\ LinesFor(lines, name) = {} => LinesFor(more, name) = {}
  BY LinesForMore
<1>3. Belongs(c, fs, above, more)
  BY <1>1, <1>2 DEF Belongs
<1>4. AsFirst(fs, above, more)
  <2> SUFFICES ASSUME NEW f \in fs, IsPlain(f.name), \A g \in above : g.name # f.name
               PROVE  f.vindex >= 0 <=> IsVirtual(FirstOf(more, f.name))
    BY DEF AsFirst
  <2>1. LinesFor(lines, f.name) # {}
    BY <1>1 DEF Belongs
  <2>2. f.vindex >= 0 <=> IsVirtual(FirstOf(lines, f.name))
    BY <1>1 DEF AsFirst
  <2> QED BY <2>1, <2>2, <1>2
<1>5. HasAll(fs, more)
  <2>1. PICK n \in Nat : /\ DOMAIN lines = 1..n /\ DOMAIN more = 1..(n + 1)
                         /\ \A k \in 1..n : more[k] = lines[k]
                         /\ more[n + 1] = line
    BY DEF HasOneMore
  <2>2. \A k \in 1..n + 1 : k \in 1..n \/ k = n + 1
    BY <2>1
  <2> QED BY <1>1, <2>1, <2>2 DEF HasAll
<1>6. Empties(fs, above, TRUE)
  BY <1>1 DEF Empties
<1> QED BY <1>1, <1>3, <1>4, <1>5, <1>6, FollowsParts

-----------------------------------------------------------------------------
(***************************************************************************)
(* The end of a class: the headers of what the compiler writes.            *)
(***************************************************************************)
(* What changes from old to new is only about constructors, destructor and
   assignment: other functions stay, the destructor keeps its place, nothing
   loses its body, and no constructor is left without one for a new signature. *)
OnlyHeaders(old, new) ==
  /\ \A f : IsPlain(f.name) => (f \in old <=> f \in new)
  /\ \A f \in old : f.name = "delete" => \E g \in new : g.name = "delete" /\ g.vindex = f.vindex
  /\ \A f \in new : f.body = Nobody => f \in old
Heads(cl, new, c) ==
  /\ DOMAIN new = DOMAIN NewClass /\ new.vtable = cl.vtable /\ new.parent = cl.parent /\ new.meta = cl.meta
  /\ IsTable(new.functions, new.vtable, c)
  /\ OnlyHeaders(ToSet(cl.functions), ToSet(new.functions))

LEMMA HeadsItself ==
  ASSUME NEW cl, DOMAIN cl = DOMAIN NewClass, NEW c, IsTable(cl.functions, cl.vtable, c)
  PROVE  Heads(cl, cl, c)
BY DEF Heads, OnlyHeaders

LEMMA HeadsTwice ==
  ASSUME NEW a, NEW b, NEW d, NEW c, Heads(a, b, c), Heads(b, d, c)
  PROVE  Heads(a, d, c)
<1> DEFINE A == ToSet(a.functions)
           B == ToSet(b.functions)
           D == ToSet(d.functions)
<1>1. OnlyHeaders(A, B) /\ OnlyHeaders(B, D)
  BY DEF Heads
<1> HIDE DEF A, B, D
<1>2. OnlyHeaders(A, D)
  <2>1. \A f : IsPlain(f.name) => (f \in A <=> f \in D)
    BY <1>1 DEF OnlyHeaders
  <2>2. ASSUME NEW f \in A, f.name = "delete"
        PROVE  \E g \in D : g.name = "delete" /\ g.vindex = f.vindex
    <3>1. PICK g \in B : g.name = "delete" /\ g.vindex = f.vindex
      BY <1>1, <2>2 DEF OnlyHeaders
    <3>2. PICK h \in D : h.name = "delete" /\ h.vindex = g.vindex
      BY <1>1, <3>1 DEF OnlyHeaders
    <3> QED BY <3>1, <3>2
  <2>3. \A f \in D : f.body = Nobody => f \in A
    BY <1>1 DEF OnlyHeaders
  <2> QED BY <2>1, <2>2, <2>3 DEF OnlyHeaders
<1> QED BY <1>2 DEF Heads, A, D

LEMMA AddHeaderIs ==
  ASSUME NEW cl, NEW c, DOMAIN cl = DOMAIN NewClass, IsTable(cl.functions, cl.vtable, c),
         NEW name \in {"init", "delete", "assign"}, NEW params, name = "delete" => params = <<>>,
         NEW body, body # Nobody, NEW r, r = AddHeader(cl, c, name, params, body)
  PROVE  /\ Heads(cl, r, c)
         /\ \A f \in ToSet(r.functions) : f.body = Nobody => ~(f.name = name /\ f.params = params)
<1> DEFINE f == Function(name, params, c, body)
<1>1. PICK over \in BOOLEAN : over = (Overridden(cl, f) # {})
  OBVIOUS
<1> DEFINE s == AddFunction(cl, f, FALSE, over)
<1>2. DOMAIN r = DOMAIN NewClass /\ r.vtable = cl.vtable /\ r.parent = cl.parent /\ r.meta = cl.meta
      /\ r.functions = s.functions
  <2>1. DOMAIN cl = Fields
    BY NewClassFields
  <2> HIDE DEF s, f
  <2>2. r = [cl EXCEPT !.functions = s.functions]
    BY <1>1 DEF AddHeader, s, f
  <2> QED BY <2>1, <2>2 DEF Fields
<1>3. /\ f.name = name /\ f.params = params /\ f.of = c /\ f.body = body /\ f.flags = {}
      /\ DOMAIN f = DOMAIN NoFunction
  BY DEF Function, NoFunction
<1> HIDE DEF f
<1>4. PICK virtual \in BOOLEAN : virtual = FALSE
  OBVIOUS
<1> HIDE DEF s
<1>5. PICK v \in Int : IsAdded(s, cl, f, c, virtual, over, v) /\ s.vtable = cl.vtable
  <2>1. CanAdd(f, c, virtual, over)
    BY <1>3, <1>4 DEF CanAdd, IsPlain, IsVirtual
  <2>2. (over <=> Overridden(cl, f) # {}) /\ s = AddFunction(cl, f, virtual, over)
    BY <1>1, <1>4 DEF s
  <2>3. /\ (virtual /\ ~over) \/ s.vtable = cl.vtable
        /\ \E v \in Int : IsAdded(s, cl, f, c, virtual, over, v)
    BY <2>1, <2>2, AddFunctionIs
  <2> QED BY <2>3, <1>4
<1> DEFINE F == ToSet(cl.functions)
           G == ToSet(r.functions)
           g == Placed(f, v)
<1>6. G = Others(F, f) \cup {g} /\ IsTable(r.functions, r.vtable, c)
  BY <1>2, <1>5 DEF HasAdded, IsAdded
<1>7. g.name = name /\ g.params = params /\ g.body # Nobody /\ g.vindex = v
  BY <1>3, FunctionFields
<1>8. \A h, k \in F : SameSignature(h, k) => h = k
  BY TableEntries
<1> HIDE DEF F, G, g
<1>9. ASSUME NEW h, IsPlain(h.name)
      PROVE  h \in F <=> h \in G
  <2>1. h.name # name
    BY <1>9 DEF IsPlain
  <2> QED BY <2>1, <1>6, <1>7, <1>3 DEF Others, SameSignature
<1>10. ASSUME NEW h \in F, h.name = "delete"
       PROVE  \E k \in G : k.name = "delete" /\ k.vindex = h.vindex
  <2>1. CASE SameSignature(h, f)
    <3>1. PICK k \in F : SameSignature(k, f) /\ k.vindex = v
      BY <2>1, <1>5 DEF F, IsAdded
    <3>2. k = h
      BY <3>1, <2>1, <1>8 DEF SameSignature
    <3>3. g \in G /\ g.name = "delete" /\ g.vindex = h.vindex
      BY <3>1, <3>2, <2>1, <1>10, <1>6, <1>7, <1>3 DEF SameSignature
    <3> QED BY <3>3
  <2>2. CASE ~SameSignature(h, f)
    <3>1. h \in G
      BY <2>2, <1>6 DEF Others
    <3> QED BY <3>1, <1>10
  <2> QED BY <2>1, <2>2
<1>11. ASSUME NEW h \in G, h.body = Nobody
       PROVE  h \in F /\ ~(h.name = name /\ h.params = params)
  BY <1>11, <1>6, <1>7, <1>3 DEF Others, SameSignature
<1>12. OnlyHeaders(F, G)
  BY <1>9, <1>10, <1>11 DEF OnlyHeaders
<1> QED BY <1>2, <1>6, <1>11, <1>12 DEF Heads, F, G

LEMMA TableIsInjective ==
  ASSUME NEW fs, NEW n, NEW c, IsTable(fs, n, c)
  PROVE  IsInjective(fs)
<1>1. ASSUME NEW i \in DOMAIN fs, NEW j \in DOMAIN fs, fs[i] = fs[j]
      PROVE  i = j
  <2>1. SameSignature(fs[i], fs[j])
    BY <1>1 DEF SameSignature
  <2> QED BY <2>1 DEF IsTable
<1> QED BY <1>1 DEF IsInjective

LEMMA SelectionIsTable ==
  ASSUME NEW fs, NEW n, NEW c, IsTable(fs, n, c), NEW T, NEW r, r = Selected(fs, T)
  PROVE  IsTable(r, n, c) /\ ToSet(r) = ToSet(fs) \cap T
<1>1. /\ fs \in Seq(ToSet(fs)) /\ n \in Nat
      /\ \A f \in ToSet(fs) : IsFunction(f, c) /\ (f.vindex = -1 \/ f.vindex \in 2..(n - 1))
      /\ \A f, g \in ToSet(fs) : SameSignature(f, g) \/ (f.vindex = g.vindex /\ f.vindex >= 0) => f = g
  BY TableEntries
<1>2. IsInjective(fs)
  BY TableIsInjective
<1>3. r \in Seq(ToSet(fs)) /\ ToSet(r) = ToSet(fs) \cap T /\ IsInjective(r)
  <2> DEFINE S == ToSet(fs)
  <2> HIDE DEF S
  <2>1. fs \in Seq(S)
    BY <1>1 DEF S
  <2>2. r \in Seq(S) /\ ToSet(r) = ToSet(fs) \cap T /\ (IsInjective(fs) => IsInjective(r))
    BY <2>1, SelectedIs
  <2> QED BY <2>2, <1>2 DEF S
<1>4. r \in Seq(ToSet(r))
  <2> DEFINE S == ToSet(fs)
  <2> HIDE DEF S
  <2>1. r \in Seq(S)
    BY <1>3 DEF S
  <2> QED BY <2>1, SeqOfItself
<1>5. ASSUME NEW i \in DOMAIN r, NEW j \in DOMAIN r,
             SameSignature(r[i], r[j]) \/ (r[i].vindex = r[j].vindex /\ r[i].vindex >= 0)
      PROVE  i = j
  <2>1. r[i] \in ToSet(fs) /\ r[j] \in ToSet(fs)
    <3>1. r[i] \in ToSet(r) /\ r[j] \in ToSet(r)
      BY DEF ToSet
    <3> QED BY <3>1, <1>3
  <2>2. r[i] = r[j]
    BY <2>1, <1>1, <1>5
  <2> QED BY <2>2, <1>3 DEF IsInjective
<1> QED BY <1>1, <1>3, <1>4, <1>5 DEF IsTable

(* A header is added unless the class has the function, with a body. *)
LEMMA HeaderIfNeeded ==
  ASSUME NEW cl, NEW c, DOMAIN cl = DOMAIN NewClass, IsTable(cl.functions, cl.vtable, c),
         NEW name \in {"init", "delete", "assign"}, NEW params, name = "delete" => params = <<>>,
         NEW r, r = IF NeedsNew(Find(cl, name, params)) THEN AddHeader(cl, c, name, params, "auto") ELSE cl
  PROVE  /\ Heads(cl, r, c)
         /\ \A f \in ToSet(r.functions) : f.body = Nobody => ~(f.name = name /\ f.params = params)
<1>1. CASE NeedsNew(Find(cl, name, params))
  <2>1. "auto" # Nobody /\ r = AddHeader(cl, c, name, params, "auto")
    BY <1>1 DEF Nobody
  <2> QED BY <2>1, AddHeaderIs
<1>2. CASE ~NeedsNew(Find(cl, name, params))
  <2>1. r = cl
    BY <1>2
  <2>2. PICK g \in ToSet(cl.functions) : g.name = name /\ g.params = params /\ g.body # Nobody
    BY <1>2 DEF NeedsNew, Find
  <2>3. \A f, h \in ToSet(cl.functions) : SameSignature(f, h) => f = h
    BY TableEntries
  <2>4. \A f \in ToSet(cl.functions) : f.name = name /\ f.params = params => f = g
    BY <2>2, <2>3 DEF SameSignature
  <2> QED BY <2>1, <2>2, <2>4, HeadsItself
<1> QED BY <1>1, <1>2

LEMMA RemoveInheritedIs ==
  ASSUME NEW cl, NEW c, DOMAIN cl = DOMAIN NewClass, IsTable(cl.functions, cl.vtable, c),
         NEW r, r = RemoveInherited(cl)
  PROVE  /\ Heads(cl, r, c)
         /\ \A f \in ToSet(r.functions) : f.body = Nobody => f.name # "init"
<1> DEFINE fs == cl.functions
           T == {f \in ToSet(fs) : f.name # "init" \/ f.body # Nobody}
<1>1. DOMAIN cl = Fields
  BY NewClassFields
<1>2. /\ DOMAIN r = DOMAIN NewClass /\ r.vtable = cl.vtable /\ r.parent = cl.parent /\ r.meta = cl.meta
      /\ r.functions = Selected(fs, T)
  BY <1>1 DEF RemoveInherited, WithoutInherited, Fields
<1>3. IsTable(r.functions, cl.vtable, c) /\ ToSet(r.functions) = ToSet(fs) \cap T
  <2> HIDE DEF T
  <2> QED BY <1>2, SelectionIsTable
<1>4. OnlyHeaders(ToSet(fs), ToSet(r.functions))
  BY <1>3 DEF OnlyHeaders, IsPlain
<1> QED BY <1>2, <1>3, <1>4 DEF Heads

Redefine(k, f, c) ==
  IF NeedsNew(Find(k, "init", f.params)) THEN AddHeader(k, c, "init", f.params, "auto") ELSE k
LEMMA RedefinedStep ==
  ASSUME NEW cl, NEW c, NEW fs, fs = Constructors(classes[cl.parent]), Len(fs) \in Nat
  PROVE  \E f : /\ f[0] = cl /\ Redefined(cl, c) = f[Len(fs)]
                /\ \A i \in 1..Len(fs) : f[i] = Redefine(f[i - 1], fs[i], c)
<1> DEFINE N == Len(fs)
           Then(k, i) == Redefine(k, fs[i], c)
           Meets(f, n) == f[0] = cl /\ \A i \in 1..n : f[i] = Then(f[i - 1], i)
           of == CHOOSE f : f = [i \in 0..N |-> IF i = 0 THEN cl ELSE Then(f[i - 1], i)]
           Upto == {n \in Nat : n <= N => \E f : f = [i \in 0..n |-> f[i]] /\ Meets(f, n)}
<1>1. N \in Upto
  <2> HIDE DEF N, Then
  <2>1. 0 \in Upto
    <3> DEFINE f == [i \in 0..0 |-> cl]
    <3>1. f = [i \in 0..0 |-> f[i]] /\ Meets(f, 0)
      OBVIOUS
    <3> QED BY <3>1
  <2>2. ASSUME NEW n \in Nat, n \in Upto
        PROVE  n + 1 \in Upto
    <3> HIDE DEF Meets
    <3> SUFFICES ASSUME n + 1 <= N
                 PROVE  \E f : f = [i \in 0..n + 1 |-> f[i]] /\ Meets(f, n + 1)
      OBVIOUS
    <3>0. n <= N
      BY DEF N
    <3> PICK f : f = [i \in 0..n |-> f[i]] /\ Meets(f, n)
      BY <3>0, <2>2
    <3> USE DEF Meets
    <3> DEFINE g == [i \in 0..n + 1 |-> IF i <= n THEN f[i] ELSE Then(f[n], n + 1)]
    <3>1. g = [i \in 0..n + 1 |-> g[i]]
      OBVIOUS
    <3>2. Meets(g, n + 1)
      <4>1. g[0] = cl
        OBVIOUS
      <4>2. ASSUME NEW i \in 1..n + 1
            PROVE  g[i] = Then(g[i - 1], i)
        <5>1. CASE i <= n
          BY <5>1
        <5>2. CASE i = n + 1
          <6>1. g[i - 1] = f[n] /\ g[i] = Then(f[n], n + 1)
            BY <5>2
          <6> QED BY <6>1, <5>2
        <5> QED BY <5>1, <5>2
      <4> QED BY <4>1, <4>2
    <3> HIDE DEF g, Meets
    <3> QED BY <3>1, <3>2
  <2>3. N \in Nat
    BY DEF N
  <2> HIDE DEF Upto
  <2> QED BY <2>1, <2>2, <2>3, Induction
<1>2. PICK f : f = [i \in 0..N |-> f[i]] /\ Meets(f, N)
  BY <1>1
<1>3. f = [i \in 0..N |-> IF i = 0 THEN cl ELSE Then(f[i - 1], i)]
  <2> HIDE DEF N, Then
  <2>1. \A i \in 0..N : f[i] = IF i = 0 THEN cl ELSE Then(f[i - 1], i)
    <3>1. N \in Nat
      BY DEF N
    <3>2. Meets(f, N)
      BY <1>2
    <3> QED BY <3>1, <3>2
  <2> QED BY <2>1, <1>2
<1>4. of = [i \in 0..N |-> IF i = 0 THEN cl ELSE Then(of[i - 1], i)]
  <2> HIDE DEF Then, N
  <2> QED BY <1>3
<1>5. Redefined(cl, c) = of[N]
  BY DEF Redefined, Redefine
<1>6. Meets(of, N)
  <2>0. N \in Nat
    OBVIOUS
  <2> HIDE DEF N, Then, of
  <2>1. 0 \in 0..N /\ \A i \in 1..N : i \in 0..N /\ i # 0
    BY <2>0
  <2>2. of[0] = cl
    BY <2>1, <1>4, Zenon
  <2>3. ASSUME NEW i \in 1..N
        PROVE  of[i] = Then(of[i - 1], i)
    <3>1. i \in 0..N /\ i # 0
      BY <2>1
    <3> QED BY <3>1, <1>4, Zenon
  <2> QED BY <2>2, <2>3
<1> HIDE DEF of
<1> QED BY <1>5, <1>6

(* In the table of cl, a constructor without a body is one of the parent's. *)
Stands(cl) ==
  \A f \in ToSet(cl.functions) : f.body = Nobody /\ f.name = "init" =>
     /\ cl.parent # Nobody
     /\ \E g \in ToSet(classes[cl.parent].functions) : SameSignature(f, g)

LEMMA RedefinedIs ==
  ASSUME NEW cl, NEW c, DOMAIN cl = DOMAIN NewClass, IsTable(cl.functions, cl.vtable, c),
         NEW n, NEW p, IsTable(classes[cl.parent].functions, n, p), NEW r, r = RedefineInherited(cl, c)
  PROVE  /\ Heads(cl, r, c)
         /\ \A f \in ToSet(r.functions) : f.body = Nobody /\ f.name = "init" =>
               \A g \in ToSet(classes[cl.parent].functions) : ~SameSignature(f, g)
<1> DEFINE above == classes[cl.parent].functions
           fs == Constructors(classes[cl.parent])
           T == {f \in ToSet(above) : f.name = "init"}
           N == Len(fs)
<1>1. IsTable(fs, n, p) /\ ToSet(fs) = T
  <2> HIDE DEF T
  <2>1. fs = Selected(above, T)
    BY DEF Constructors, T
  <2>2. IsTable(fs, n, p) /\ ToSet(fs) = ToSet(above) \cap T
    BY <2>1, SelectionIsTable
  <2> QED BY <2>2 DEF T
<1>2. /\ N \in Nat /\ DOMAIN fs = 1..N /\ \A i \in DOMAIN fs : fs[i] \in T
      /\ \A f \in T : \E i \in DOMAIN fs : f = fs[i]
  BY <1>1, TableEntries
<1>3. PICK f : /\ f[0] = cl /\ Redefined(cl, c) = f[N]
               /\ \A i \in 1..N : f[i] = Redefine(f[i - 1], fs[i], c)
  <2> HIDE DEF fs
  <2>1. fs = Constructors(classes[cl.parent])
    BY DEF fs
  <2> QED BY <2>1, <1>2, RedefinedStep, SMTT(40)
<1> DEFINE NoneLeft(k, m) ==
             \A h \in ToSet(k.functions) : h.body = Nobody => \A i \in 1..m : ~SameSignature(h, fs[i])
           Done == {m \in Nat : m <= N => Heads(cl, f[m], c) /\ NoneLeft(f[m], m)}
<1>4. 0 \in Done
  <2>1. 1..0 = {}
    OBVIOUS
  <2> QED BY <2>1, <1>3, HeadsItself
<1>5. ASSUME NEW m \in Nat, m \in Done
      PROVE  m + 1 \in Done
  <2> HIDE DEF N, fs, T, NoneLeft
  <2> SUFFICES ASSUME m + 1 <= N
               PROVE  Heads(cl, f[m + 1], c) /\ NoneLeft(f[m + 1], m + 1)
    OBVIOUS
  <2>1. m + 1 \in 1..N /\ Heads(cl, f[m], c) /\ NoneLeft(f[m], m)
    BY <1>2, <1>5
  <2> DEFINE k == f[m]
             q == fs[m + 1]
             new == f[m + 1]
  <2>2. new = Redefine(k, q, c)
    <3>1. (m + 1) - 1 = m
      OBVIOUS
    <3> QED BY <3>1, <2>1, <1>3
  <2>3. q.name = "init"
    BY <2>1, <1>2 DEF T
  <2> HIDE DEF k, q, new
  <2>4. DOMAIN k = DOMAIN NewClass /\ IsTable(k.functions, k.vtable, c)
    BY <2>1 DEF Heads, k
  <2>5. new = IF NeedsNew(Find(k, "init", q.params)) THEN AddHeader(k, c, "init", q.params, "auto") ELSE k
    BY <2>2 DEF Redefine
  <2>6. /\ Heads(k, new, c)
        /\ \A h \in ToSet(new.functions) : h.body = Nobody => ~(h.name = "init" /\ h.params = q.params)
    <3>1. "init" \in {"init", "delete", "assign"} /\ ("init" = "delete" => q.params = <<>>)
      OBVIOUS
    <3> QED BY <2>4, <2>5, <3>1, HeaderIfNeeded
  <2>7. Heads(cl, new, c)
    BY <2>1, <2>6, HeadsTwice DEF k
  <2>8. NoneLeft(new, m + 1)
    <3> SUFFICES ASSUME NEW h \in ToSet(new.functions), h.body = Nobody, NEW i \in 1..m + 1
                 PROVE  ~SameSignature(h, fs[i])
      BY DEF NoneLeft
    <3>1. CASE i = m + 1
      BY <3>1, <2>6, <2>3 DEF SameSignature, q
    <3>2. CASE i \in 1..m
      <4>1. h \in ToSet(k.functions)
        BY <2>6 DEF Heads, OnlyHeaders
      <4> QED BY <4>1, <3>2, <2>1 DEF NoneLeft, k
    <3> QED BY <3>1, <3>2
  <2> QED BY <2>7, <2>8 DEF new
<1>6. Heads(cl, f[N], c) /\ NoneLeft(f[N], N)
  <2> HIDE DEF NoneLeft
  <2>1. Nat \subseteq Done
    <3> HIDE DEF Done
    <3> QED BY <1>4, <1>5, Induction
  <2>2. N \in Done
    BY <2>1, <1>2
  <2> QED BY <2>2, <1>2
<1>7. DOMAIN r = DOMAIN NewClass /\ r.vtable = cl.vtable /\ r.parent = cl.parent /\ r.meta = cl.meta
      /\ r.functions = f[N].functions
  <2>1. DOMAIN cl = Fields
    BY NewClassFields
  <2> DEFINE new == f[N].functions
  <2>2. r = [cl EXCEPT !.functions = new]
    BY <1>3 DEF RedefineInherited
  <2> HIDE DEF new
  <2>3. DOMAIN r = DOMAIN NewClass /\ r.vtable = cl.vtable /\ r.parent = cl.parent /\ r.meta = cl.meta
        /\ r.functions = new
    BY <2>1, <2>2 DEF Fields
  <2> QED BY <2>3 DEF new
<1>8. Heads(cl, r, c)
  BY <1>6, <1>7 DEF Heads
<1>9. ASSUME NEW h \in ToSet(r.functions), h.body = Nobody, h.name = "init", NEW g \in ToSet(above)
      PROVE  ~SameSignature(h, g)
  <2>1. CASE g.name = "init"
    <3>1. PICK i \in 1..N : g = fs[i]
      BY <2>1, <1>2
    <3> QED BY <3>1, <1>6, <1>7, <1>9
  <2>2. CASE g.name # "init"
    BY <2>2, <1>9 DEF SameSignature
  <2> QED BY <2>1, <2>2
<1> QED BY <1>8, <1>9

LEMMA AddConstructorsIs ==
  ASSUME NEW cl, NEW c, DOMAIN cl = DOMAIN NewClass, IsTable(cl.functions, cl.vtable, c), Stands(cl),
         cl.parent # Nobody => \E n, p : IsTable(classes[cl.parent].functions, n, p),
         NEW r, r = AddConstructors(cl, c)
  PROVE  /\ Heads(cl, r, c)
         /\ \A f \in ToSet(r.functions) : f.body = Nobody => f.name # "init"
<1> DEFINE own == IF cl.parent = Nobody THEN cl
                  ELSE IF UserConstructors(cl) # <<>> THEN RemoveInherited(cl) ELSE RedefineInherited(cl, c)
           default == IF NeedsConstructor(own) THEN AddHeader(own, c, "init", <<>>, "auto") ELSE own
           types == [i \in DOMAIN cl.elements |-> cl.elements[i].type]
           Meets(k) == Heads(cl, k, c) /\ \A f \in ToSet(k.functions) : f.body = Nobody => f.name # "init"
<1>1. Meets(own)
  <2>1. CASE cl.parent = Nobody
    <3>1. own = cl
      BY <2>1
    <3> HIDE DEF own
    <3> QED BY <2>1, <3>1, HeadsItself DEF Stands
  <2>2. CASE cl.parent # Nobody /\ UserConstructors(cl) # <<>>
    <3>1. own = RemoveInherited(cl)
      BY <2>2
    <3> HIDE DEF own
    <3> QED BY <3>1, RemoveInheritedIs
  <2>3. CASE cl.parent # Nobody /\ UserConstructors(cl) = <<>>
    <3>1. own = RedefineInherited(cl, c)
      BY <2>3
    <3> HIDE DEF own
    <3>2. PICK n, p : IsTable(classes[cl.parent].functions, n, p)
      BY <2>3
    <3>3. /\ Heads(cl, own, c)
          /\ \A f \in ToSet(own.functions) : f.body = Nobody /\ f.name = "init" =>
                \A g \in ToSet(classes[cl.parent].functions) : ~SameSignature(f, g)
      BY <3>1, <3>2, RedefinedIs
    <3>4. \A f \in ToSet(own.functions) : f.body = Nobody => f \in ToSet(cl.functions)
      BY <3>3 DEF Heads, OnlyHeaders
    <3> QED BY <3>3, <3>4 DEF Stands
  <2> QED BY <2>1, <2>2, <2>3
<1>2. r = IF Constructors(own) # <<>> THEN own
          ELSE IF cl.meta = "struct" /\ CanFill(default) THEN AddHeader(default, c, "init", types, "fill")
          ELSE default
  BY DEF AddConstructors
<1> HIDE DEF own, default, types
<1>3. ASSUME NEW k, Meets(k), NEW params, NEW body, body # Nobody
      PROVE  Meets(AddHeader(k, c, "init", params, body))
  <2> DEFINE new == AddHeader(k, c, "init", params, body)
  <2> HIDE DEF new
  <2>1. DOMAIN k = DOMAIN NewClass /\ IsTable(k.functions, k.vtable, c) /\ new = AddHeader(k, c, "init", params, body)
    BY <1>3 DEF Heads, new
  <2>2. "init" \in {"init", "delete", "assign"} /\ ("init" = "delete" => params = <<>>)
    OBVIOUS
  <2>3. Heads(k, new, c)
    BY <2>1, <2>2, <1>3, AddHeaderIs
  <2>4. Heads(cl, new, c)
    BY <2>3, <1>3, HeadsTwice
  <2>5. \A f \in ToSet(new.functions) : f.body = Nobody => f \in ToSet(k.functions)
    BY <2>3 DEF Heads, OnlyHeaders
  <2>6. \A f \in ToSet(new.functions) : f.body = Nobody => f.name # "init"
    BY <2>5, <1>3
  <2> QED BY <2>4, <2>6 DEF new
<1> HIDE DEF Meets
<1>4. Meets(default)
  <2>1. CASE NeedsConstructor(own)
    <3>1. default = AddHeader(own, c, "init", <<>>, "auto")
      BY <2>1 DEF default
    <3>2. "auto" # Nobody
      BY DEF Nobody
    <3>3. \A params : Meets(AddHeader(own, c, "init", params, "auto"))
      BY <3>2, <1>1, <1>3
    <3> QED BY <3>1, <3>3
  <2>2. CASE ~NeedsConstructor(own)
    BY <2>2, <1>1 DEF default
  <2> QED BY <2>1, <2>2
<1>5. Meets(AddHeader(default, c, "init", types, "fill"))
  <2>1. "fill" # Nobody
    BY DEF Nobody
  <2> QED BY <2>1, <1>3, <1>4
<1>6. Meets(r)
  BY <1>1, <1>2, <1>4, <1>5
<1> QED BY <1>6 DEF Meets

LEMMA MissingHeadersAre ==
  ASSUME NEW cl, NEW c, DOMAIN cl = DOMAIN NewClass, IsTable(cl.functions, cl.vtable, c), Stands(cl),
         cl.parent # Nobody => \E n, p : IsTable(classes[cl.parent].functions, n, p),
         NEW r, r = AddMissingHeaders(cl, c)
  PROVE  /\ Heads(cl, r, c)
         /\ \A f \in ToSet(r.functions) : f.body # Nobody
<1>1. ASSUME NEW k, IsTable(k.functions, k.vtable, c), NEW f \in ToSet(k.functions), f.body = Nobody
      PROVE  f.name = "init" \/ (f.name = "delete" /\ f.params = <<>>)
  <2>1. IsFunction(f, c)
    BY <1>1, TableEntries
  <2> QED BY <2>1, <1>1 DEF IsFunction
<1> DEFINE built == AddConstructors(cl, c)
           ended == AddDestructor(built, c)
           assigned == AddAssign(ended, c)
<1>2. /\ Heads(cl, built, c)
      /\ \A f \in ToSet(built.functions) : f.body = Nobody => f.name # "init"
  <2> HIDE DEF built
  <2>1. built = AddConstructors(cl, c)
    BY DEF built
  <2> QED BY <2>1, AddConstructorsIs
<1> HIDE DEF built
<1>3. /\ Heads(built, ended, c)
      /\ \A f \in ToSet(ended.functions) : f.body = Nobody => ~(f.name = "delete" /\ f.params = <<>>)
  <2> HIDE DEF ended
  <2>1. DOMAIN built = DOMAIN NewClass /\ IsTable(built.functions, built.vtable, c)
    BY <1>2 DEF Heads
  <2>2. ended = IF NeedsNew(Find(built, "delete", <<>>)) THEN AddHeader(built, c, "delete", <<>>, "auto") ELSE built
    BY DEF ended, AddDestructor, Destructor
  <2>3. "delete" \in {"init", "delete", "assign"}
    OBVIOUS
  <2>4. \A params : params = <<>> => ("delete" = "delete" => params = <<>>)
    OBVIOUS
  <2>5. PICK params : params = <<>>
    OBVIOUS
  <2>6. ended = IF NeedsNew(Find(built, "delete", params)) THEN AddHeader(built, c, "delete", params, "auto") ELSE built
    BY <2>2, <2>5
  <2>7. /\ Heads(built, ended, c)
        /\ \A f \in ToSet(ended.functions) : f.body = Nobody => ~(f.name = "delete" /\ f.params = params)
    BY <2>1, <2>3, <2>5, <2>6, HeaderIfNeeded
  <2> QED BY <2>5, <2>7
<1> HIDE DEF ended
<1>4. Heads(cl, ended, c) /\ \A f \in ToSet(ended.functions) : f.body # Nobody
  <2>1. Heads(cl, ended, c) /\ IsTable(ended.functions, ended.vtable, c)
    BY <1>2, <1>3, HeadsTwice DEF Heads
  <2>2. \A f \in ToSet(ended.functions) : f.body = Nobody => f \in ToSet(built.functions)
    BY <1>3 DEF Heads, OnlyHeaders
  <2> QED BY <2>1, <2>2, <1>1, <1>2, <1>3
<1>5. Heads(cl, assigned, c) /\ \A f \in ToSet(assigned.functions) : f.body # Nobody
  <2> HIDE DEF assigned
  <2>1. DOMAIN ended = DOMAIN NewClass /\ IsTable(ended.functions, ended.vtable, c)
    BY <1>4 DEF Heads
  <2>2. PICK params : params = <<c>>
    OBVIOUS
  <2>3. assigned = IF NeedsNew(Find(ended, "assign", params)) THEN AddHeader(ended, c, "assign", params, "auto") ELSE ended
    BY <2>2 DEF assigned, AddAssign
  <2>4. "assign" \in {"init", "delete", "assign"} /\ ("assign" = "delete" => params = <<>>)
    OBVIOUS
  <2>5. Heads(ended, assigned, c)
    BY <2>1, <2>3, <2>4, HeaderIfNeeded
  <2>6. \A f \in ToSet(assigned.functions) : f.body = Nobody => f \in ToSet(ended.functions)
    BY <2>5 DEF Heads, OnlyHeaders
  <2>7. Heads(cl, assigned, c)
    BY <2>5, <1>4, HeadsTwice
  <2> QED BY <2>6, <2>7, <1>4
<1> HIDE DEF assigned
<1> DEFINE plain == IF NeedsConstructor(cl) THEN AddHeader(cl, c, "init", <<>>, "auto") ELSE cl
<1>6. ASSUME CanMemcpy(cl)
      PROVE  Heads(cl, plain, c) /\ \A f \in ToSet(plain.functions) : f.body # Nobody
  <2>1. \A f \in ToSet(cl.functions) : f.name # "init"
    <3> DEFINE T == {f \in ToSet(cl.functions) : f.name = "init"}
    <3>1. Constructors(cl) = Selected(cl.functions, T) /\ Constructors(cl) = <<>>
      BY <1>6 DEF Constructors, CanMemcpy
    <3> HIDE DEF T
    <3>2. ToSet(Constructors(cl)) = ToSet(cl.functions) \cap T
      BY <3>1, SelectionIsTable
    <3>3. ToSet(Constructors(cl)) = {}
      BY <3>1 DEF ToSet
    <3> QED BY <3>2, <3>3 DEF T
  <2>2. \A f \in ToSet(cl.functions) : ~(f.name = "delete" /\ f.params = <<>>)
    BY <1>6 DEF CanMemcpy, Destructor, Find
  <2>3. \A f \in ToSet(cl.functions) : f.body # Nobody
    BY <2>1, <2>2, <1>1
  <2>4. CASE NeedsConstructor(cl)
    <3>1. PICK params : params = <<>>
      OBVIOUS
    <3>2. plain = AddHeader(cl, c, "init", params, "auto") /\ "auto" # Nobody
      BY <2>4, <3>1 DEF Nobody
    <3>3. "init" \in {"init", "delete", "assign"} /\ ("init" = "delete" => params = <<>>)
      OBVIOUS
    <3> HIDE DEF plain
    <3>4. Heads(cl, plain, c)
      BY <3>2, <3>3, AddHeaderIs
    <3>5. \A f \in ToSet(plain.functions) : f.body = Nobody => f \in ToSet(cl.functions)
      BY <3>4 DEF Heads, OnlyHeaders
    <3> QED BY <3>4, <3>5, <2>3
  <2>5. CASE ~NeedsConstructor(cl)
    <3>1. plain = cl
      BY <2>5
    <3> HIDE DEF plain
    <3> QED BY <3>1, <2>3, HeadsItself
  <2> QED BY <2>4, <2>5
<1>7. CASE cl.meta = "struct"
  <2>1. r = assigned
    BY <1>7 DEF AddMissingHeaders, assigned, ended, built
  <2> QED BY <2>1, <1>5
<1>8. CASE cl.meta # "struct" /\ CanMemcpy(cl)
  <2>1. r = plain
    BY <1>8 DEF AddMissingHeaders
  <2> HIDE DEF plain
  <2> QED BY <2>1, <1>6, <1>8
<1>9. CASE cl.meta # "struct" /\ ~CanMemcpy(cl)
  <2>1. r = ended
    BY <1>9 DEF AddMissingHeaders, ended, built
  <2> QED BY <2>1, <1>4
<1> QED BY <1>7, <1>8, <1>9

(* A class that is closed follows from its lines as before, and all its
   functions have a body. *)
LEMMA FollowsClosed ==
  ASSUME NEW c, NEW old, NEW new, NEW above, NEW lines, NEW working, Follows(c, old, above, lines, working),
         OnlyHeaders(old, new), \A f \in new : f.body # Nobody
  PROVE  Follows(c, new, above, lines, FALSE)
<1>1. /\ Belongs(c, old, above, lines) /\ AsFirst(old, above, lines) /\ HasAll(old, lines)
      /\ Carries(old, above)
  BY FollowsParts
<1>2. \A f : IsPlain(f.name) => (f \in old <=> f \in new)
  BY DEF OnlyHeaders
<1>3. Belongs(c, new, above, lines) /\ AsFirst(new, above, lines)
  BY <1>1, <1>2 DEF Belongs, AsFirst
<1>4. HasAll(new, lines)
  <2> SUFFICES ASSUME NEW k \in DOMAIN lines, lines[k].k = "func", IsPlain(lines[k].f.name)
               PROVE  \E f \in new : f.name = lines[k].f.name
    BY DEF HasAll
  <2>1. PICK f \in old : f.name = lines[k].f.name
    BY <1>1 DEF HasAll
  <2> QED BY <2>1, <1>2
<1>5. Carries(new, above)
  <2> SUFFICES ASSUME NEW g \in above, g.name \notin {"init", "assign"}
               PROVE  \E f \in new : f.name = g.name /\ f.vindex = g.vindex
    BY DEF Carries
  <2>1. PICK f \in old : f.name = g.name /\ f.vindex = g.vindex
    BY <1>1 DEF Carries
  <2>2. CASE f.name = "delete"
    <3>1. PICK h \in new : h.name = "delete" /\ h.vindex = f.vindex
      BY <2>2 DEF OnlyHeaders
    <3> QED BY <3>1, <2>1, <2>2
  <2>3. CASE f.name # "delete"
    <3>1. f \in new
      BY <2>1, <2>3, <1>2 DEF IsPlain
    <3> QED BY <3>1, <2>1
  <2> QED BY <2>2, <2>3
<1>6. Empties(new, above, FALSE)
  BY DEF Empties
<1> QED BY <1>1, <1>3, <1>4, <1>5, <1>6, FollowsParts

-----------------------------------------------------------------------------
(***************************************************************************)
(* The start of a class: what it has from its parent and from its trait.   *)
(***************************************************************************)
Dummy(f, c) == [Function(f.name, f.params, c, Nobody) EXCEPT !.vindex = f.vindex]
LEMMA InheritedIs ==
  ASSUME NEW c, NEW p, NEW n, IsTable(classes[p].functions, n, p), NEW r, r = Inherited(c, p)
  PROVE  /\ IsTable(r, n, c)
         /\ Follows(c, ToSet(r), ToSet(classes[p].functions), <<>>, TRUE)
<1> DEFINE above == ToSet(classes[p].functions)
           T == {f \in above : f.name # "assign"}
           fs == Selected(classes[p].functions, T)
           N == Len(fs)
           Kept1(f) == IF f.name \in {"init", "delete"} THEN Dummy(f, c) ELSE f
<1>1. IsTable(fs, n, p) /\ ToSet(fs) = T
  <2> HIDE DEF T, fs
  <2>1. IsTable(fs, n, p) /\ ToSet(fs) = ToSet(classes[p].functions) \cap T
    BY SelectionIsTable DEF fs
  <2> QED BY <2>1 DEF T
<1>2. r = [i \in DOMAIN fs |-> Kept1(fs[i])]
  BY DEF Inherited, Dummy
<1> HIDE DEF fs, T, above
<1>3. /\ N \in Nat /\ DOMAIN fs = 1..N /\ n \in Nat
      /\ \A f \in T : IsFunction(f, p) /\ (f.vindex = -1 \/ f.vindex \in 2..(n - 1))
      /\ \A i \in DOMAIN fs : fs[i] \in T
      /\ \A f \in T : \E i \in DOMAIN fs : f = fs[i]
  BY <1>1, TableEntries
<1>4. ASSUME NEW f \in T
      PROVE  /\ IsFunction(Kept1(f), c) /\ SameSignature(Kept1(f), f) /\ Kept1(f).vindex = f.vindex
             /\ IsPlain(f.name) => Kept1(f) = f
             /\ Kept1(f).body = Nobody => Kept1(f).name \in {"init", "delete"}
  <2>1. IsFunction(f, p)
    BY <1>3
  <2>2. CASE f.name \in {"init", "delete"}
    <3> DEFINE d == Dummy(f, c)
    <3>1. /\ DOMAIN d = DOMAIN NoFunction /\ d.name = f.name /\ d.params = f.params /\ d.of = c
          /\ d.flags = {} /\ d.vindex = f.vindex
      BY DEF Dummy, Function, NoFunction
    <3>2. Kept1(f) = d
      BY <2>2
    <3> HIDE DEF d
    <3> QED BY <3>1, <3>2, <2>1, <2>2 DEF IsFunction, IsPlain, SameSignature, IsVirtual
  <2>3. CASE f.name \notin {"init", "delete"}
    <3>1. Kept1(f) = f
      BY <2>3
    <3>2. IsFunction(f, c)
      BY <2>1, <2>3 DEF IsFunction
    <3>3. f.body # Nobody
      BY <2>1, <2>3 DEF IsFunction
    <3> QED BY <3>1, <3>2, <3>3 DEF SameSignature
  <2> QED BY <2>2, <2>3
<1>5. /\ DOMAIN r = 1..N /\ \A i \in 1..N : r[i] = Kept1(fs[i]) /\ fs[i] \in T
  BY <1>2, <1>3
<1> HIDE DEF N, Kept1
<1>6. r \in Seq(ToSet(r))
  <2>1. r = [i \in 1..N |-> r[i]]
    BY <1>2, <1>3, <1>5 DEF N
  <2>2. \A i \in 1..N : r[i] \in ToSet(r)
    BY <1>5 DEF ToSet
  <2> DEFINE S == ToSet(r)
  <2> HIDE DEF S
  <2>3. r \in [1..N -> S]
    BY <2>1, <2>2 DEF S
  <2>4. r \in Seq(S)
    BY <2>3, <1>3, SeqDef DEF N
  <2> QED BY <2>4 DEF S
<1>7. ASSUME NEW f \in ToSet(r)
      PROVE  \E g \in T : f = Kept1(g)
  BY <1>5 DEF ToSet
<1>8. ASSUME NEW g \in T
      PROVE  Kept1(g) \in ToSet(r)
  <2>1. PICK i \in 1..N : g = fs[i]
    BY <1>3
  <2> QED BY <2>1, <1>5 DEF ToSet
<1>9. ASSUME NEW i \in DOMAIN r, NEW j \in DOMAIN r,
             SameSignature(r[i], r[j]) \/ (r[i].vindex = r[j].vindex /\ r[i].vindex >= 0)
      PROVE  i = j
  <2>1. SameSignature(fs[i], fs[j]) \/ (fs[i].vindex = fs[j].vindex /\ fs[i].vindex >= 0)
    <3>1. ASSUME NEW x \in DOMAIN r
          PROVE  r[x].name = fs[x].name /\ r[x].params = fs[x].params /\ r[x].vindex = fs[x].vindex
      BY <1>5, <1>4 DEF SameSignature
    <3> QED BY <3>1, <1>9 DEF SameSignature
  <2> QED BY <2>1, <1>1, <1>3, <1>5 DEF IsTable
<1>10. IsTable(r, n, c)
  <2>1. ASSUME NEW f \in ToSet(r)
        PROVE  IsFunction(f, c) /\ (f.vindex = -1 \/ f.vindex \in 2..(n - 1))
    BY <1>7, <1>4, <1>3
  <2> QED BY <2>1, <1>3, <1>6, <1>9 DEF IsTable
<1>11. \A name : LinesFor(<<>>, name) = {}
  BY DEF LinesFor
<1>12. Belongs(c, ToSet(r), above, <<>>) /\ AsFirst(ToSet(r), above, <<>>)
  <2>1. ASSUME NEW f \in ToSet(r), IsPlain(f.name)
        PROVE  f \in above
    <3>1. PICK g \in T : f = Kept1(g)
      BY <1>7
    <3>2. f.name = g.name
      BY <3>1, <1>4 DEF SameSignature
    <3>3. f = g
      BY <3>1, <3>2, <2>1, <1>4
    <3> QED BY <3>3 DEF T
  <2> QED BY <2>1, <1>11 DEF Belongs, AsFirst
<1>13. Carries(ToSet(r), above)
  <2> SUFFICES ASSUME NEW g \in above, g.name \notin {"init", "assign"}
               PROVE  \E f \in ToSet(r) : f.name = g.name /\ f.vindex = g.vindex
    BY DEF Carries
  <2>1. g \in T
    BY DEF T
  <2>2. Kept1(g) \in ToSet(r) /\ Kept1(g).name = g.name /\ Kept1(g).vindex = g.vindex
    BY <2>1, <1>4, <1>8 DEF SameSignature
  <2> QED BY <2>2
<1>14. Empties(ToSet(r), above, TRUE)
  <2>1. ASSUME NEW f \in ToSet(r)
        PROVE  \E g \in above : SameSignature(f, g)
    <3>1. PICK g \in T : f = Kept1(g)
      BY <1>7
    <3> QED BY <3>1, <1>4 DEF T
  <2> QED BY <2>1 DEF Empties
<1>15. HasAll(ToSet(r), <<>>)
  BY DEF HasAll
<1> QED BY <1>10, <1>12, <1>13, <1>14, <1>15, FollowsParts DEF above

Take(k, f, c) == AddFunction(k, [f EXCEPT !.of = c, !.vindex = -1], IsVirtual(f), IsOverride(f))
LEMMA TakenStep ==
  ASSUME NEW cl, NEW c, NEW trait, NEW fs, fs = Taken(trait), Len(fs) \in Nat
  PROVE  \E f : /\ f[0] = cl /\ TakeFunctions(cl, c, trait) = f[Len(fs)]
                /\ \A i \in 1..Len(fs) : f[i] = Take(f[i - 1], fs[i], c)
<1> DEFINE N == Len(fs)
           Then(k, i) == Take(k, fs[i], c)
           Meets(f, n) == f[0] = cl /\ \A i \in 1..n : f[i] = Then(f[i - 1], i)
           of == CHOOSE f : f = [i \in 0..N |-> IF i = 0 THEN cl ELSE Then(f[i - 1], i)]
           Upto == {n \in Nat : n <= N => \E f : f = [i \in 0..n |-> f[i]] /\ Meets(f, n)}
<1>1. N \in Upto
  <2> HIDE DEF N, Then
  <2>1. 0 \in Upto
    <3> DEFINE f == [i \in 0..0 |-> cl]
    <3>1. f = [i \in 0..0 |-> f[i]] /\ Meets(f, 0)
      OBVIOUS
    <3> QED BY <3>1
  <2>2. ASSUME NEW n \in Nat, n \in Upto
        PROVE  n + 1 \in Upto
    <3> HIDE DEF Meets
    <3> SUFFICES ASSUME n + 1 <= N
                 PROVE  \E f : f = [i \in 0..n + 1 |-> f[i]] /\ Meets(f, n + 1)
      OBVIOUS
    <3>0. n <= N
      BY DEF N
    <3> PICK f : f = [i \in 0..n |-> f[i]] /\ Meets(f, n)
      BY <3>0, <2>2
    <3> USE DEF Meets
    <3> DEFINE g == [i \in 0..n + 1 |-> IF i <= n THEN f[i] ELSE Then(f[n], n + 1)]
    <3>1. g = [i \in 0..n + 1 |-> g[i]]
      OBVIOUS
    <3>2. Meets(g, n + 1)
      <4>1. g[0] = cl
        OBVIOUS
      <4>2. ASSUME NEW i \in 1..n + 1
            PROVE  g[i] = Then(g[i - 1], i)
        <5>1. CASE i <= n
          <6>1. i \in 1..n /\ g[i] = f[i] /\ g[i - 1] = f[i - 1]
            BY <5>1
          <6>2. f[i] = Then(f[i - 1], i)
            BY <6>1
          <6> QED BY <6>1, <6>2
        <5>2. CASE i = n + 1
          <6>1. g[i - 1] = f[n] /\ g[i] = Then(f[n], n + 1)
            BY <5>2
          <6> QED BY <6>1, <5>2
        <5> QED BY <5>1, <5>2
      <4> QED BY <4>1, <4>2
    <3> HIDE DEF g, Meets
    <3> QED BY <3>1, <3>2
  <2>3. N \in Nat
    BY DEF N
  <2> HIDE DEF Upto
  <2> QED BY <2>1, <2>2, <2>3, Induction
<1>2. PICK f : f = [i \in 0..N |-> f[i]] /\ Meets(f, N)
  BY <1>1
<1>3. f = [i \in 0..N |-> IF i = 0 THEN cl ELSE Then(f[i - 1], i)]
  <2> HIDE DEF N, Then
  <2>1. \A i \in 0..N : f[i] = IF i = 0 THEN cl ELSE Then(f[i - 1], i)
    <3>1. N \in Nat
      BY DEF N
    <3>2. Meets(f, N)
      BY <1>2
    <3> QED BY <3>1, <3>2
  <2> QED BY <2>1, <1>2
<1>4. of = [i \in 0..N |-> IF i = 0 THEN cl ELSE Then(of[i - 1], i)]
  <2> HIDE DEF Then, N
  <2> QED BY <1>3
<1>5. TakeFunctions(cl, c, trait) = of[N]
  BY DEF TakeFunctions, Take
<1>6. Meets(of, N)
  <2>0. N \in Nat
    OBVIOUS
  <2> HIDE DEF N, Then, of
  <2>1. 0 \in 0..N /\ \A i \in 1..N : i \in 0..N /\ i # 0
    BY <2>0
  <2>2. of[0] = cl
    BY <2>1, <1>4, Zenon
  <2>3. ASSUME NEW i \in 1..N
        PROVE  of[i] = Then(of[i - 1], i)
    <3>1. i \in 0..N /\ i # 0
      BY <2>1
    <3> QED BY <3>1, <1>4, Zenon
  <2> QED BY <2>2, <2>3
<1> HIDE DEF of
<1> QED BY <1>5, <1>6

(* A function of a trait as it is read once more; what is read so far, as lines. *)
Takes(f, c) == [f EXCEPT !.of = c, !.vindex = -1]
TakenLines(fs, m, c) == [j \in 1..m |-> [k |-> "func", f |-> Takes(fs[j], c)]]
(* k has, of the signatures, those of cl and of the first m functions in fs. *)
SameSignatures(k, cl, fs, m) ==
  /\ \A h \in ToSet(k.functions) : \/ \E g \in ToSet(cl.functions) : SameSignature(h, g)
                                   \/ \E j \in 1..m : SameSignature(h, fs[j])
  /\ \A g \in ToSet(cl.functions) : \E h \in ToSet(k.functions) : SameSignature(h, g)

LEMMA TakesFields ==
  ASSUME NEW f, DOMAIN f = DOMAIN NoFunction, NEW c
  PROVE  LET g == Takes(f, c)
         IN /\ DOMAIN g = DOMAIN NoFunction /\ g.name = f.name /\ g.params = f.params /\ g.of = c
            /\ g.body = f.body /\ g.flags = f.flags /\ g.vindex = -1
<1>1. DOMAIN f = {"name", "params", "of", "body", "vindex", "super", "flags"}
  BY DEF NoFunction, Function
<1> QED BY <1>1 DEF Takes

LEMMA FlagsAreBooleans ==
  ASSUME NEW f
  PROVE  (\E b \in BOOLEAN : b = IsVirtual(f)) /\ (\E b \in BOOLEAN : b = IsOverride(f))
<1>1. ("virtual" \in f.flags) \in BOOLEAN /\ ("override" \in f.flags) \in BOOLEAN
  OBVIOUS
<1>2. (\E b \in BOOLEAN : b = ("virtual" \in f.flags)) /\ (\E b \in BOOLEAN : b = ("override" \in f.flags))
  BY <1>1, Zenon
<1> QED BY <1>2 DEF IsVirtual, IsOverride

LEMMA TakenFunctions ==
  ASSUME NEW trait, NEW n, NEW t, IsTable(trait.functions, n, t),
         NEW lines, Follows(t, ToSet(trait.functions), {}, lines, FALSE), NEW fs, fs = Taken(trait)
  PROVE  /\ IsTable(fs, n, t) /\ Len(fs) \in Nat /\ DOMAIN fs = 1..Len(fs)
         /\ \A f \in ToSet(fs) : /\ IsFunction(f, t) /\ f.body # Nobody /\ f.name \notin {"init", "delete"}
                                 /\ f \in ToSet(trait.functions)
         /\ \A f \in ToSet(trait.functions) : IsPlain(f.name) => f \in ToSet(fs)
         /\ \A i \in 1..Len(fs) : fs[i] \in ToSet(fs)
         /\ \A f \in ToSet(fs) : \E i \in 1..Len(fs) : f = fs[i]
<1> DEFINE T == {f \in ToSet(trait.functions) : f.name \notin {"init", "delete"}}
<1>1. fs = Selected(trait.functions, T)
  BY DEF Taken
<1>2. IsTable(fs, n, t) /\ ToSet(fs) = T
  <2> HIDE DEF T
  <2>1. IsTable(fs, n, t) /\ ToSet(fs) = ToSet(trait.functions) \cap T
    BY <1>1, SelectionIsTable
  <2> QED BY <2>1 DEF T
<1>3. \A f \in T : f.body # Nobody /\ f.name \notin {"init", "delete"} /\ f \in ToSet(trait.functions)
  BY FollowsParts DEF Empties
<1>4. \A f \in ToSet(trait.functions) : IsPlain(f.name) => f \in T
  BY DEF IsPlain
<1> HIDE DEF T
<1> QED BY <1>2, <1>3, <1>4, TableEntries

(* Functions fs that a class like cl may take; and what it is after m of them. *)
MayTake(cl, fs, n, t) ==
  /\ IsTable(fs, n, t) /\ Len(fs) \in Nat /\ DOMAIN fs = 1..Len(fs)
  /\ \A f \in ToSet(fs) : IsFunction(f, t) /\ f.body # Nobody /\ f.name \notin {"init", "delete"}
  /\ \A f \in ToSet(fs) : IsOverride(f) <=> Overridden(cl, f) # {}
  /\ \A h \in ToSet(cl.functions) : \E i \in DOMAIN cl.functions : h = cl.functions[i]
  /\ \A i \in DOMAIN cl.functions : cl.functions[i] \in ToSet(cl.functions)
HasTakenSoFar(k, cl, c, fs, above, m) ==
  /\ DOMAIN k = DOMAIN NewClass /\ IsTable(k.functions, k.vtable, c)
  /\ Follows(c, ToSet(k.functions), above, TakenLines(fs, m, c), TRUE)
  /\ SameSignatures(k, cl, fs, m)

LEMMA TakesOne ==
  ASSUME NEW cl, NEW c, NEW fs, NEW n, NEW t, MayTake(cl, fs, n, t),
         NEW above, NEW m \in Nat, m + 1 <= Len(fs), NEW k, HasTakenSoFar(k, cl, c, fs, above, m),
         NEW r, r = Take(k, fs[m + 1], c)
  PROVE  HasTakenSoFar(r, cl, c, fs, above, m + 1)
<1>0. /\ IsTable(fs, n, t) /\ Len(fs) \in Nat /\ DOMAIN fs = 1..Len(fs)
      /\ \A f \in ToSet(fs) : IsFunction(f, t) /\ f.body # Nobody /\ f.name \notin {"init", "delete"}
      /\ \A f \in ToSet(fs) : IsOverride(f) <=> Overridden(cl, f) # {}
      /\ \A h \in ToSet(cl.functions) : \E i \in DOMAIN cl.functions : h = cl.functions[i]
      /\ \A i \in DOMAIN cl.functions : cl.functions[i] \in ToSet(cl.functions)
      /\ DOMAIN k = DOMAIN NewClass /\ IsTable(k.functions, k.vtable, c)
      /\ Follows(c, ToSet(k.functions), above, TakenLines(fs, m, c), TRUE)
      /\ SameSignatures(k, cl, fs, m)
  BY DEF MayTake, HasTakenSoFar
<1> DEFINE q == fs[m + 1]
           f == Takes(q, c)
<1>1. /\ q \in ToSet(fs) /\ IsFunction(q, t) /\ q.body # Nobody /\ q.name \notin {"init", "delete"}
      /\ m + 1 \in DOMAIN fs /\ \A j \in 1..m : j \in DOMAIN fs /\ j # m + 1
  <2>1. m + 1 \in DOMAIN fs /\ \A j \in 1..m : j \in DOMAIN fs /\ j # m + 1
    BY <1>0
  <2>2. fs[m + 1] \in ToSet(fs)
    BY <2>1, <1>0, TableEntries
  <2> QED BY <2>1, <2>2, <1>0
<1>2. /\ DOMAIN f = DOMAIN NoFunction /\ f.name = q.name /\ f.params = q.params /\ f.of = c
      /\ f.body = q.body /\ f.flags = q.flags
  BY <1>1, TakesFields DEF IsFunction
<1>3. \A j \in 1..m : ~SameSignature(q, fs[j])
  BY <1>0, <1>1 DEF IsTable
<1>4. IsOverride(q) <=> \E h \in ToSet(cl.functions) : SameSignature(q, h)
  BY <1>0, <1>1 DEF Overridden
<1> HIDE DEF q
<1>5. IsOverride(q) <=> \E h \in ToSet(k.functions) : SameSignature(q, h)
  <2>1. ASSUME IsOverride(q)
        PROVE  \E h \in ToSet(k.functions) : SameSignature(q, h)
    <3>1. PICK g \in ToSet(cl.functions) : SameSignature(q, g)
      BY <2>1, <1>4
    <3>2. PICK h \in ToSet(k.functions) : SameSignature(h, g)
      BY <1>0 DEF SameSignatures
    <3> QED BY <3>1, <3>2 DEF SameSignature
  <2>2. ASSUME NEW h \in ToSet(k.functions), SameSignature(q, h)
        PROVE  IsOverride(q)
    <3>1. CASE \E g \in ToSet(cl.functions) : SameSignature(h, g)
      <4>1. \E g \in ToSet(cl.functions) : SameSignature(q, g)
        BY <3>1, <2>2 DEF SameSignature
      <4> QED BY <4>1, <1>4
    <3>2. CASE \E j \in 1..m : SameSignature(h, fs[j])
      BY <3>2, <2>2, <1>3 DEF SameSignature
    <3> QED BY <3>1, <3>2, <1>0 DEF SameSignatures
  <2> QED BY <2>1, <2>2
<1> HIDE DEF f
<1>6. (IsVirtual(f) <=> IsVirtual(q)) /\ (IsOverride(f) <=> IsOverride(q))
  BY <1>2 DEF IsVirtual, IsOverride
<1>7. PICK virtual \in BOOLEAN : virtual = IsVirtual(q)
  BY FlagsAreBooleans
<1>8. PICK over \in BOOLEAN : over = IsOverride(q)
  BY FlagsAreBooleans
<1>9. CanAdd(f, c, virtual, over) /\ CanAdd(f, c, IsVirtual(f), IsOverride(f))
  <2>1. f.name \in {"init", "assign"} => ~IsVirtual(q)
    BY <1>1, <1>2 DEF IsFunction
  <2>2. f.name \notin {"init", "assign"} => f.params = <<>>
    BY <1>1, <1>2 DEF IsFunction
  <2> QED BY <2>1, <2>2, <1>1, <1>2, <1>6, <1>7, <1>8 DEF CanAdd
<1>10. over <=> Overridden(k, f) # {}
  <2>1. \A h \in ToSet(k.functions) : \E i \in DOMAIN k.functions : h = k.functions[i]
    BY <1>0, TableEntries
  <2>2. \A i \in DOMAIN k.functions : k.functions[i] \in ToSet(k.functions)
    BY <1>0, TableEntries
  <2>3. Overridden(k, f) # {} <=> \E h \in ToSet(k.functions) : SameSignature(q, h)
    BY <2>1, <2>2, <1>2 DEF Overridden, SameSignature
  <2> QED BY <2>3, <1>5, <1>8
<1>11. r = AddFunction(k, f, virtual, over)
  BY <1>7, <1>8 DEF Take, f, Takes, q
<1>12. /\ DOMAIN r = DOMAIN NewClass
       /\ \E v \in Int : IsAdded(r, k, f, c, virtual, over, v)
  BY <1>0, <1>9, <1>10, <1>11, AddFunctionIs
<1>13. PICK v \in Int : IsAdded(r, k, f, c, virtual, over, v)
  BY <1>12
<1>14. /\ HasAdded(r.functions, r.vtable, k.functions, f, c, v)
       /\ PlaceIs(ToSet(k.functions), f, v)
  BY <1>13, <1>6, <1>7, <1>8 DEF IsAdded, PlaceIs
<1> DEFINE lines == TakenLines(fs, m, c)
           more == TakenLines(fs, m + 1, c)
           line == [k |-> "func", f |-> f]
<1>15. HasOneMore(lines, more, line) /\ line.k = "func" /\ line.f = f
  <2>1. DOMAIN lines = 1..m /\ DOMAIN more = 1..(m + 1)
    BY DEF TakenLines
  <2>2. \A i \in 1..m : more[i] = lines[i]
    BY DEF TakenLines
  <2>3. more[m + 1] = line
    BY DEF TakenLines, f, q
  <2> HIDE DEF lines, more, line
  <2>4. HasOneMore(lines, more, line)
    BY <2>1, <2>2, <2>3 DEF HasOneMore
  <2>5. line.k = "func" /\ line.f = f
    BY DEF line
  <2> QED BY <2>4, <2>5
<1>16. Follows(c, ToSet(r.functions), above, more, TRUE)
  <2>1. Follows(c, ToSet(k.functions), above, lines, TRUE) /\ IsTable(k.functions, k.vtable, c)
    BY <1>0
  <2> HIDE DEF lines, more, line
  <2> DEFINE old == k.functions
             new == r.functions
             size == k.vtable
             grown == r.vtable
  <2>2. /\ IsTable(old, size, c) /\ HasAdded(new, grown, old, f, c, v)
        /\ CanAdd(f, c, IsVirtual(f), IsOverride(f)) /\ f.of = c /\ PlaceIs(ToSet(old), f, v)
        /\ Follows(c, ToSet(old), above, lines, TRUE)
    BY <2>1, <1>9, <1>14, <1>2
  <2> HIDE DEF old, new, size, grown
  <2>3. \A more1, line1 : HasOneMore(lines, more1, line1) /\ line1.k = "func" /\ line1.f = f =>
           Follows(c, ToSet(new), above, more1, TRUE)
    BY <2>2, FollowsLine
  <2>4. Follows(c, ToSet(new), above, more, TRUE)
    BY <2>3, <1>15
  <2> QED BY <2>4 DEF new
<1>17. IsTable(r.functions, r.vtable, c) /\ ToSet(r.functions) = Others(ToSet(k.functions), f) \cup {Placed(f, v)}
  BY <1>14 DEF HasAdded
<1>18. SameSignatures(r, cl, fs, m + 1)
  <2>1. SameSignature(Placed(f, v), q) /\ m + 1 \in 1..m + 1
    BY <1>2, FunctionFields DEF SameSignature
  <2>2. ASSUME NEW h \in ToSet(r.functions)
        PROVE  \/ \E g \in ToSet(cl.functions) : SameSignature(h, g)
               \/ \E j \in 1..m + 1 : SameSignature(h, fs[j])
    <3>1. CASE h = Placed(f, v)
      BY <3>1, <2>1 DEF q
    <3>2. CASE h \in ToSet(k.functions)
      <4>1. \A j \in 1..m : j \in 1..m + 1
        OBVIOUS
      <4> QED BY <4>1, <3>2, <1>0 DEF SameSignatures
    <3> QED BY <3>1, <3>2, <1>17 DEF Others
  <2>3. ASSUME NEW g \in ToSet(cl.functions)
        PROVE  \E h \in ToSet(r.functions) : SameSignature(h, g)
    <3>1. PICK h \in ToSet(k.functions) : SameSignature(h, g)
      BY <1>0 DEF SameSignatures
    <3>2. CASE SameSignature(h, f)
      <4>1. Placed(f, v) \in ToSet(r.functions) /\ SameSignature(Placed(f, v), g)
        BY <3>1, <3>2, <2>1, <1>2, <1>17 DEF SameSignature
      <4> QED BY <4>1
    <3>3. CASE ~SameSignature(h, f)
      BY <3>1, <3>3, <1>17 DEF Others
    <3> QED BY <3>2, <3>3
  <2> QED BY <2>2, <2>3 DEF SameSignatures
<1> QED BY <1>12, <1>16, <1>17, <1>18 DEF HasTakenSoFar

(* What follows from the functions of a trait follows from its lines. *)
LEMMA FollowsTrait ==
  ASSUME NEW c, NEW F, NEW above, Follows(c, F, above, <<>>, TRUE), NEW cl, F = ToSet(cl.functions),
         \A i \in DOMAIN cl.functions : cl.functions[i] \in F,
         NEW trait, NEW n, NEW t, IsTable(trait.functions, n, t),
         NEW lines, Follows(t, ToSet(trait.functions), {}, lines, FALSE),
         NEW fs, fs = Taken(trait), \A f \in ToSet(fs) : IsOverride(f) <=> Overridden(cl, f) # {},
         NEW G, Follows(c, G, above, TakenLines(fs, Len(fs), c), TRUE)
  PROVE  Follows(c, G, above, lines, TRUE)
<1> DEFINE N == Len(fs)
           taken == TakenLines(fs, N, c)
           T == ToSet(trait.functions)
<1>1. /\ N \in Nat
      /\ \A f \in ToSet(fs) : /\ IsFunction(f, t) /\ f.body # Nobody /\ f.name \notin {"init", "delete"}
                              /\ f \in T
      /\ \A f \in T : IsPlain(f.name) => f \in ToSet(fs)
      /\ \A i \in 1..N : fs[i] \in ToSet(fs)
      /\ \A f \in ToSet(fs) : \E i \in 1..N : f = fs[i]
  BY TakenFunctions, ZenonT(40)
<1>2. /\ Belongs(c, G, above, taken) /\ AsFirst(G, above, taken) /\ HasAll(G, taken)
      /\ Carries(G, above) /\ Empties(G, above, TRUE)
  BY FollowsParts
<1>3. Belongs(t, T, {}, lines) /\ AsFirst(T, {}, lines) /\ HasAll(T, lines)
  BY FollowsParts
<1>4. /\ DOMAIN taken = 1..N
      /\ \A i \in 1..N : /\ taken[i].k = "func" /\ taken[i].f = Takes(fs[i], c)
                         /\ taken[i].f.name = fs[i].name /\ taken[i].f.flags = fs[i].flags
  <2>1. /\ DOMAIN taken = 1..N
        /\ \A i \in 1..N : taken[i].k = "func" /\ taken[i].f = Takes(fs[i], c)
    BY DEF TakenLines
  <2>2. ASSUME NEW i \in 1..N
        PROVE  Takes(fs[i], c).name = fs[i].name /\ Takes(fs[i], c).flags = fs[i].flags
    <3>1. DOMAIN fs[i] = DOMAIN NoFunction
      BY <1>1 DEF IsFunction
    <3> QED BY <3>1, TakesFields
  <2> HIDE DEF taken
  <2> QED BY <2>1, <2>2
<1> HIDE DEF N, taken, T
<1>5. ASSUME NEW name, IsPlain(name)
      PROVE  LinesFor(taken, name) # {} <=> LinesFor(lines, name) # {}
  <2>1. ASSUME NEW i \in LinesFor(taken, name)
        PROVE  LinesFor(lines, name) # {}
    <3>1. fs[i] \in T /\ fs[i].name = name
      BY <2>1, <1>1, <1>4 DEF LinesFor
    <3> QED BY <3>1, <1>3, <1>5 DEF Belongs
  <2>2. ASSUME NEW k \in LinesFor(lines, name)
        PROVE  LinesFor(taken, name) # {}
    <3>1. PICK f \in T : f.name = name
      BY <2>2, <1>3, <1>5 DEF HasAll, LinesFor
    <3>2. PICK i \in 1..N : f = fs[i]
      BY <3>1, <1>1, <1>5
    <3>3. i \in LinesFor(taken, name)
      BY <3>1, <3>2, <1>4 DEF LinesFor
    <3> QED BY <3>3
  <2> QED BY <2>1, <2>2
<1>6. Belongs(c, G, above, lines)
  BY <1>2, <1>5 DEF Belongs
<1>7. AsFirst(G, above, lines)
  <2> SUFFICES ASSUME NEW h \in G, IsPlain(h.name), \A g \in above : g.name # h.name
               PROVE  h.vindex >= 0 <=> IsVirtual(FirstOf(lines, h.name))
    BY DEF AsFirst
  <2>1. LinesFor(taken, h.name) # {} /\ LinesFor(taken, h.name) \subseteq 1..N
    BY <1>2, <1>4 DEF Belongs, LinesFor
  <2>2. PICK i \in LinesFor(taken, h.name) : \A j \in LinesFor(taken, h.name) : i <= j
    <3>1. LinesFor(taken, h.name) \subseteq Nat
      BY <2>1
    <3> QED BY <3>1, <2>1, LeastNumber
  <2>3. FirstOf(taken, h.name) = taken[i].f
    <3>1. LinesFor(taken, h.name) \subseteq Int
      BY <2>1
    <3>2. Min(LinesFor(taken, h.name)) = i
      BY <3>1, <2>2, LeastIs
    <3> QED BY <3>2 DEF FirstOf
  <2>4. i \in 1..N /\ fs[i].name = h.name /\ fs[i] \in ToSet(fs) /\ fs[i] \in T
    BY <2>1, <2>2, <1>1, <1>4 DEF LinesFor
  <2>5. ~IsOverride(fs[i])
    <3> SUFFICES ASSUME NEW j \in DOMAIN cl.functions, SameSignature(fs[i], cl.functions[j])
                 PROVE  FALSE
      BY <2>4 DEF Overridden
    <3>1. cl.functions[j] \in F /\ cl.functions[j].name = h.name
      BY <2>4 DEF SameSignature
    <3>2. Belongs(c, F, above, <<>>)
      BY FollowsParts
    <3>3. cl.functions[j] \in above
      BY <3>1, <3>2 DEF Belongs, LinesFor
    <3> QED BY <3>1, <3>3
  <2>6. IsVirtual(fs[i]) <=> fs[i].vindex >= 0
    BY <2>4, <2>5, <1>1 DEF IsFunction
  <2>7. fs[i].vindex >= 0 <=> IsVirtual(FirstOf(lines, h.name))
    <3>1. \A g \in {} : g.name # fs[i].name
      OBVIOUS
    <3>2. fs[i].vindex >= 0 <=> IsVirtual(FirstOf(lines, fs[i].name))
      BY <3>1, <2>4, <1>3 DEF AsFirst
    <3> QED BY <3>2, <2>4
  <2>8. h.vindex >= 0 <=> IsVirtual(taken[i].f)
    BY <1>2, <2>3 DEF AsFirst
  <2>9. IsVirtual(taken[i].f) <=> IsVirtual(fs[i])
    BY <2>4, <1>4 DEF IsVirtual
  <2> QED BY <2>6, <2>7, <2>8, <2>9
<1>8. HasAll(G, lines)
  <2> SUFFICES ASSUME NEW k \in DOMAIN lines, lines[k].k = "func", IsPlain(lines[k].f.name)
               PROVE  \E h \in G : h.name = lines[k].f.name
    BY DEF HasAll
  <2>1. LinesFor(lines, lines[k].f.name) # {}
    BY DEF LinesFor
  <2>2. PICK i \in DOMAIN taken : taken[i].k = "func" /\ taken[i].f.name = lines[k].f.name
    BY <2>1, <1>5 DEF LinesFor
  <2> QED BY <2>2, <1>2 DEF HasAll
<1> QED BY <1>2, <1>6, <1>7, <1>8, FollowsParts

LEMMA TakenIs ==
  ASSUME NEW cl, NEW c, DOMAIN cl = DOMAIN NewClass, IsTable(cl.functions, cl.vtable, c),
         NEW above, Follows(c, ToSet(cl.functions), above, <<>>, TRUE),
         NEW trait, NEW n, NEW t, IsTable(trait.functions, n, t), TraitFits(cl, trait),
         NEW lines, Follows(t, ToSet(trait.functions), {}, lines, FALSE),
         NEW r, r = TakeFunctions(cl, c, trait)
  PROVE  IsTable(r.functions, r.vtable, c) /\ Follows(c, ToSet(r.functions), above, lines, TRUE)
<1> DEFINE fs == Taken(trait)
           N == Len(fs)
<1> HIDE DEF fs
<1>1. fs = Taken(trait)
  BY DEF fs
<1>2. /\ IsTable(fs, n, t) /\ N \in Nat /\ DOMAIN fs = 1..N
      /\ \A f \in ToSet(fs) : /\ IsFunction(f, t) /\ f.body # Nobody /\ f.name \notin {"init", "delete"}
                              /\ f \in ToSet(trait.functions)
  BY <1>1, TakenFunctions
<1>3. /\ \A h \in ToSet(cl.functions) : \E i \in DOMAIN cl.functions : h = cl.functions[i]
      /\ \A i \in DOMAIN cl.functions : cl.functions[i] \in ToSet(cl.functions)
  BY TableEntries
<1>4. \A f \in ToSet(fs) : IsOverride(f) <=> Overridden(cl, f) # {}
  BY DEF TraitFits, fs
<1>5. PICK f : /\ f[0] = cl /\ r = f[N]
               /\ \A i \in 1..N : f[i] = Take(f[i - 1], fs[i], c)
  BY <1>1, <1>2, TakenStep
<1> DEFINE Done == {m \in Nat : m <= N => HasTakenSoFar(f[m], cl, c, fs, above, m)}
<1>6. 0 \in Done
  <2>1. TakenLines(fs, 0, c) = <<>>
    BY DEF TakenLines
  <2>2. SameSignatures(cl, cl, fs, 0)
    BY DEF SameSignatures, SameSignature
  <2> QED BY <2>1, <2>2, <1>5 DEF HasTakenSoFar
<1>7. ASSUME NEW m \in Nat, m \in Done
      PROVE  m + 1 \in Done
  <2> HIDE DEF N
  <2> SUFFICES ASSUME m + 1 <= N
               PROVE  HasTakenSoFar(f[m + 1], cl, c, fs, above, m + 1)
    OBVIOUS
  <2>1. m + 1 \in 1..N /\ HasTakenSoFar(f[m], cl, c, fs, above, m) /\ m + 1 <= Len(fs)
    BY <1>2, <1>7 DEF N
  <2>2. f[m + 1] = Take(f[m], fs[m + 1], c)
    <3>1. (m + 1) - 1 = m
      OBVIOUS
    <3> QED BY <3>1, <2>1, <1>5
  <2>3. MayTake(cl, fs, n, t)
    BY <1>2, <1>3, <1>4 DEF MayTake, N
  <2> QED BY <2>1, <2>2, <2>3, TakesOne
<1>8. HasTakenSoFar(r, cl, c, fs, above, N)
  <2>1. Nat \subseteq Done
    <3> HIDE DEF Done
    <3> QED BY <1>6, <1>7, Induction
  <2>2. N \in Done
    BY <2>1, <1>2
  <2> QED BY <2>2, <1>2, <1>5
<1>9. Follows(c, ToSet(r.functions), above, lines, TRUE)
  <2> DEFINE F == ToSet(cl.functions)
             G == ToSet(r.functions)
  <2>1. Follows(c, G, above, TakenLines(fs, Len(fs), c), TRUE)
    BY <1>8 DEF HasTakenSoFar
  <2>2. F = ToSet(cl.functions) /\ Follows(c, F, above, <<>>, TRUE) /\ \A i \in DOMAIN cl.functions : cl.functions[i] \in F
    BY <1>3
  <2> HIDE DEF F, G
  <2>3. Follows(c, G, above, lines, TRUE)
    BY <2>1, <2>2, <1>1, <1>4, FollowsTrait
  <2> QED BY <2>3 DEF G
<1> QED BY <1>8, <1>9 DEF HasTakenSoFar

(***************************************************************************)
(* A class whose header has been read: what it has from its parent and its  *)
(* trait.                                                                  *)
(***************************************************************************)
FunctionsOf(c) == IF c = Nobody THEN {} ELSE ToSet(classes[c].functions)

LEMMA FollowsIdle ==
  ASSUME NEW c, NEW fs, NEW above, NEW lines, NEW working, ~working, Follows(c, fs, above, lines, working)
  PROVE  Follows(c, fs, above, lines, FALSE)
  BY Zenon DEF Follows

LEMMA DerivedFunctions ==
  ASSUME NEW h, h.extends # Nobody => IsTable(classes[h.extends].functions, classes[h.extends].vtable, h.extends),
         NEW r, r = Derived(h)
  PROVE  /\ DOMAIN r = DOMAIN NewClass /\ IsTable(r.functions, r.vtable, h.name)
         /\ Follows(h.name, ToSet(r.functions), FunctionsOf(h.extends), <<>>, TRUE)
<1> DEFINE new == [NewClass EXCEPT !.meta = h.meta]
<1>0. DOMAIN new = DOMAIN NewClass /\ new.functions = <<>> /\ new.vtable = 0
  BY DEF NewClass
<1>1. r = IF h.extends = Nobody THEN new ELSE DeriveFrom(new, h.name, h.extends)
  BY DEF Derived
<1> HIDE DEF new
<1>2. CASE h.extends = Nobody
  <2>1. r = new /\ FunctionsOf(h.extends) = {}
    BY <1>1, <1>2 DEF FunctionsOf
  <2>2. ToSet(<<>>) = {} /\ DOMAIN <<>> = {}
    BY DEF ToSet
  <2>3. IsTable(<<>>, 0, h.name)
    BY <2>2 DEF IsTable
  <2>4. Follows(h.name, {}, {}, <<>>, TRUE)
    BY <2>2 DEF Follows
  <2> QED BY <2>1, <2>2, <2>3, <2>4, <1>0
<1>3. CASE h.extends # Nobody
  <2>1. r = DeriveFrom(new, h.name, h.extends)
    BY <1>1, <1>3
  <2>2. /\ r.functions = Inherited(h.name, h.extends) /\ r.vtable = classes[h.extends].vtable
        /\ DOMAIN r = DOMAIN NewClass
    BY <2>1, <1>0, NewClassFields DEF DeriveFrom, Fields
  <2> DEFINE fs == Inherited(h.name, h.extends)
             n == classes[h.extends].vtable
             p == h.extends
             c == h.name
  <2>3. IsTable(classes[p].functions, n, p) /\ fs = Inherited(c, p)
    BY <1>3
  <2> HIDE DEF fs, n, p, c
  <2>4. IsTable(fs, n, c) /\ Follows(c, ToSet(fs), ToSet(classes[p].functions), <<>>, TRUE)
    BY <2>3, InheritedIs
  <2> QED BY <2>2, <2>4, <1>3 DEF fs, n, p, c, FunctionsOf
<1> QED BY <1>2, <1>3

LEMMA TraitFollows ==
  ASSUME TableInv, NEW t \in Classes, ~IsOpen(t), classes[t].meta = "trait", HasFunctions(t)
  PROVE  /\ IsTable(classes[t].functions, classes[t].vtable, t)
         /\ Follows(t, ToSet(classes[t].functions), {}, LinesOf(t), FALSE)
<1>1. Parent(t) = Nobody /\ text[t].header.trait = Nobody
  BY DEF TableInv, TraitsArePlain
<1>2. FunctionsAbove(t) = {}
  BY <1>1 DEF FunctionsAbove
<1>3. t # Nobody
  BY TableConstants DEF Classes, Nobody
<1>4. text[t].lines \in Seq(ToSet(text[t].lines))
  BY DEF TableInv, TableType, IsText
<1>5. Written(t) = LinesOf(t)
  BY <1>1, <1>3, <1>4, ConcatEmptySeq DEF Written, LinesOf
<1>6. ~InWork(t)
  BY DEF InWork, IsOpen
<1>7. /\ IsTable(classes[t].functions, classes[t].vtable, t)
      /\ Follows(t, ToSet(classes[t].functions), {}, LinesOf(t), InWork(t))
  BY <1>2, <1>5 DEF HasFunctions
<1> DEFINE lines == LinesOf(t)
           fs == ToSet(classes[t].functions)
<1>8. PICK w \in BOOLEAN : w = InWork(t)
  BY DEF InWork
<1>9. ~w /\ Follows(t, fs, {}, lines, w)
  BY <1>6, <1>7, <1>8
<1> HIDE DEF fs, lines
<1>10. Follows(t, fs, {}, lines, FALSE)
  BY <1>9, FollowsIdle
<1> QED BY <1>7, <1>10 DEF fs, lines

LEMMA RealizedFunctions ==
  ASSUME TableInv, \A d \in Classes : HasFunctions(d), NEW h \in Headers,
         Finished(h.extends), Finished(h.trait), HeaderFits(h), NEW r, r = Realized(h)
  PROVE  /\ IsTable(r.functions, r.vtable, h.name)
         /\ Follows(h.name, ToSet(r.functions), FunctionsOf(h.extends), LinesOf(h.trait), TRUE)
<1> DEFINE cl == Derived(h)
           c == h.name
           above == FunctionsOf(h.extends)
           t == h.trait
           trait == classes[t]
           n == trait.vtable
           lines == LinesOf(t)
<1>1. h.extends # Nobody => IsTable(classes[h.extends].functions, classes[h.extends].vtable, h.extends)
  BY DEF Finished, HasFunctions
<1>2. DOMAIN cl = DOMAIN NewClass /\ IsTable(cl.functions, cl.vtable, c) /\ Follows(c, ToSet(cl.functions), above, <<>>, TRUE)
  BY <1>1, DerivedFunctions
<1>3. CASE t = Nobody
  BY <1>2, <1>3 DEF Realized, LinesOf
<1>4. CASE t # Nobody
  <2>1. t \in Classes /\ ~IsOpen(t) /\ trait.meta = "trait" /\ HasFunctions(t) /\ TraitFits(cl, trait)
    BY <1>4 DEF Finished, HeaderFits
  <2>2. r = ImplementTrait(cl, c, trait)
    BY <1>4 DEF Realized
  <2>3. IsTable(trait.functions, n, t) /\ Follows(t, ToSet(trait.functions), {}, lines, FALSE)
    BY <2>1, TraitFollows
  <2> DEFINE g == TakeFunctions(cl, c, trait)
  <2>4. r.functions = g.functions /\ r.vtable = g.vtable
    BY <2>2, <1>2, NewClassFields DEF ImplementTrait, Fields
  <2>5. g = TakeFunctions(cl, c, trait)
    OBVIOUS
  <2> HIDE DEF g, cl, c, above, n, lines, trait, t
  <2>6. IsTable(g.functions, g.vtable, c) /\ Follows(c, ToSet(g.functions), above, lines, TRUE)
    BY <2>1, <2>3, <2>5, <1>2, TakenIs
  <2> QED BY <2>4, <2>6 DEF c, above, lines, t
<1> QED BY <1>3, <1>4

-----------------------------------------------------------------------------
(* One step: the functions of the class that changes, and of the others. *)
LEMMA FollowsNow ==
  ASSUME NEW c, NEW fs, NEW n, NEW above, NEW lines, NEW working,
         fs = classes'[c].functions, n = classes'[c].vtable, above = FunctionsAbove(c)', lines = Written(c)',
         IsTable(fs, n, c), Follows(c, ToSet(fs), above, lines, working), working => InWork(c)'
  PROVE  HasFunctions(c)'
<1> DEFINE F == ToSet(fs)
<1>1. PICK w \in BOOLEAN : w = InWork(c)'
  BY DEF InWork
<1>2. (working => w) /\ Follows(c, F, above, lines, working)
  BY <1>1
<1> HIDE DEF F
<1>3. Follows(c, F, above, lines, w)
  BY <1>2, Zenon DEF Follows
<1>4. Follows(c, ToSet(classes'[c].functions), FunctionsAbove(c)', Written(c)', InWork(c)')
  BY <1>1, <1>3 DEF F
<1>5. IsTable(classes'[c].functions, classes'[c].vtable, c)
  OBVIOUS
<1> QED BY <1>4, <1>5 DEF HasFunctions

LEMMA FollowsWhileRead ==
  ASSUME NEW c, NEW fs, NEW n, NEW above, NEW lines,
         fs = classes'[c].functions, n = classes'[c].vtable, above = FunctionsAbove(c)', lines = Written(c)',
         IsTable(fs, n, c), Follows(c, ToSet(fs), above, lines, TRUE), InWork(c)'
  PROVE  HasFunctions(c)'
<1>1. PICK w \in BOOLEAN : w = TRUE
  OBVIOUS
<1>2. Follows(c, ToSet(fs), above, lines, w) /\ (w => InWork(c)')
  BY <1>1
<1> QED BY <1>2, FollowsNow

OneClass(c, cl, t) ==
  /\ classes' = [classes EXCEPT ![c] = cl] /\ text' = [text EXCEPT ![c] = t]
  /\ \A d \in Classes : c \notin UsedBy(d)
  /\ Kept(c)

LEMMA OtherFunctionsStay ==
  ASSUME TableInv, NEW c \in Classes, NEW cl, NEW t, OneClass(c, cl, t),
         NEW d \in Classes, d # c, HasFunctions(d)
  PROVE  HasFunctions(d)'
<1>0. TableType /\ classes' = [classes EXCEPT ![c] = cl] /\ text' = [text EXCEPT ![c] = t] /\ c \notin UsedBy(d)
  BY DEF OneClass, TableInv
<1>1. classes'[d] = classes[d] /\ Written(d)' = Written(d)
  BY <1>0, TypesStay, WrittenStays
<1>2. Parent(d) # c /\ (Parent(d) \in Classes \/ Parent(d) = Nobody) /\ Parent(d)' = Parent(d)
  BY <1>0, <1>1, UsedTypes DEF Parent, TableType, IsClass
<1>3. FunctionsAbove(d)' = FunctionsAbove(d)
  <2>1. Parent(d) # Nobody => classes'[Parent(d)] = classes[Parent(d)]
    BY <1>0, <1>2, TypesStay
  <2> DEFINE p == Parent(d)
  <2>2. FunctionsAbove(d)' = IF Parent(d)' = Nobody THEN {} ELSE ToSet(classes'[Parent(d)'].functions)
    BY DEF FunctionsAbove
  <2>3. FunctionsAbove(d) = IF p = Nobody THEN {} ELSE ToSet(classes[p].functions)
    BY DEF FunctionsAbove
  <2> HIDE DEF p
  <2> QED BY <2>1, <2>2, <2>3, <1>2 DEF p
<1>4. InWork(d) => InWork(d)'
  BY DEF InWork, OneClass, Kept
<1>5. PICK w \in BOOLEAN : w = InWork(d)
  BY DEF InWork
<1> DEFINE fs == classes[d].functions
           n == classes[d].vtable
           above == FunctionsAbove(d)
           lines == Written(d)
<1>6. IsTable(fs, n, d) /\ Follows(d, ToSet(fs), above, lines, w) /\ (w => InWork(d)')
  BY <1>4, <1>5 DEF HasFunctions
<1>7. fs = classes'[d].functions /\ n = classes'[d].vtable /\ above = FunctionsAbove(d)' /\ lines = Written(d)'
  BY <1>1, <1>3
<1> HIDE DEF fs, n, above, lines
<1> QED BY <1>6, <1>7, FollowsNow

(* A class that nobody extends may get a parent. *)
LEMMA ParentsStayAbove ==
  ASSUME TableInv, ParentsAreAbove, NEW c \in Classes, NEW cl, NEW t, OneClass(c, cl, t),
         cl.parent = t.header.extends, cl.parent # c
  PROVE  ParentsAreAbove'
<1>0. TableType /\ classes' = [classes EXCEPT ![c] = cl] /\ text' = [text EXCEPT ![c] = t]
      /\ \A d \in Classes : c \notin UsedBy(d)
  BY DEF OneClass, TableInv
<1>1. classes'[c] = cl /\ text'[c] = t /\ \A d \in Classes : d # c => classes'[d] = classes[d] /\ text'[d] = text[d]
  <2>1. classes'[c] = cl /\ \A d \in Classes : d # c => classes'[d] = classes[d]
    BY <1>0, TypesStay
  <2>2. text'[c] = t /\ \A d \in Classes : d # c => text'[d] = text[d]
    BY <1>0, TextStays
  <2> QED BY <2>1, <2>2
<1>2. \A d \in Classes : classes[d].parent # c
  BY <1>0, UsedTypes
<1>3. (\A d \in Classes : Extended(d) = Parent(d))'
  BY <1>1 DEF ParentsAreAbove, Extended, Parent
<1>4. ASSUME NEW S \in SUBSET Classes, S # {}
      PROVE  \E d \in S : classes'[d].parent \notin S
  <2>1. CASE S \subseteq {c}
    BY <1>1, <1>4, <2>1
  <2>2. CASE ~(S \subseteq {c})
    <3>1. PICK d \in S \ {c} : classes[d].parent \notin S \ {c}
      BY <2>2 DEF ParentsAreAbove, Parent
    <3>2. classes[d].parent \notin S /\ classes'[d].parent = classes[d].parent
      BY <3>1, <1>1, <1>2
    <3> QED BY <3>2
  <2> QED BY <2>1, <2>2
<1> QED BY <1>3, <1>4 DEF ParentsAreAbove, Parent

FunctionsFit == (\A c \in Classes : HasFunctions(c)) /\ ParentsAreAbove

LEMMA OneFits ==
  ASSUME TableInv, FunctionsFit, NEW c \in Classes, NEW cl, NEW t, OneClass(c, cl, t),
         cl.parent = t.header.extends, cl.parent # c, HasFunctions(c)'
  PROVE  FunctionsFit'
<1>1. \A d \in Classes : HasFunctions(d)'
  BY OtherFunctionsStay DEF FunctionsFit
<1>2. ParentsAreAbove'
  BY ParentsStayAbove DEF FunctionsFit
<1> QED BY <1>1, <1>2 DEF FunctionsFit

(* Above(c) as it was, for a class that keeps its parent. *)
LEMMA FunctionsAboveStay ==
  ASSUME TableInv, NEW c \in Classes, NEW cl, NEW t, OneClass(c, cl, t), cl.parent = classes[c].parent
  PROVE  /\ FunctionsAbove(c)' = FunctionsAbove(c) /\ cl.parent # c /\ classes'[c] = cl
         /\ text'[c] = t
<1>0. TableType /\ classes' = [classes EXCEPT ![c] = cl] /\ text' = [text EXCEPT ![c] = t]
      /\ \A d \in Classes : c \notin UsedBy(d)
  BY DEF OneClass, TableInv
<1>1. classes'[c] = cl /\ text'[c] = t /\ \A d \in Classes : d # c => classes'[d] = classes[d]
  BY <1>0, TypesStay, TextStays
<1>2. cl.parent # c /\ (cl.parent \in Classes \/ cl.parent = Nobody)
  BY <1>0, UsedTypes DEF TableType, IsClass
<1> DEFINE p == cl.parent
<1>3. p # Nobody => classes'[p] = classes[p]
  BY <1>1, <1>2
<1>4. FunctionsAbove(c)' = IF p = Nobody THEN {} ELSE ToSet(classes'[p].functions)
  BY <1>1 DEF FunctionsAbove, Parent
<1>5. FunctionsAbove(c) = IF p = Nobody THEN {} ELSE ToSet(classes[p].functions)
  BY DEF FunctionsAbove, Parent
<1> HIDE DEF p
<1>6. FunctionsAbove(c)' = FunctionsAbove(c)
  BY <1>3, <1>4, <1>5
<1> QED BY <1>1, <1>2, <1>6

(* A line of the class in work. *)
FollowsMore(cl, c, line) ==
  /\ IsTable(cl.functions, cl.vtable, c) /\ cl.parent = classes[c].parent
  /\ \A more : HasOneMore(Written(c), more, line) => Follows(c, ToSet(cl.functions), FunctionsAbove(c), more, TRUE)

SameFunctions(a, b) == a.functions = b.functions /\ a.vtable = b.vtable /\ a.parent = b.parent

LEMMA TopFollows ==
  ASSUME TableInv, FunctionsFit, Inside, NEW c, c = Final(open).class
  PROVE  /\ c \in Classes /\ \A d \in Classes : c \notin UsedBy(d)
         /\ IsClass(classes[c]) /\ DOMAIN classes[c] = DOMAIN NewClass /\ IsText(text[c])
         /\ IsTable(classes[c].functions, classes[c].vtable, c)
         /\ Follows(c, ToSet(classes[c].functions), FunctionsAbove(c), Written(c), TRUE)
<1>1. open # <<>> /\ ~Final(open).closed
  BY DEF Inside
<1>2. /\ c \in Classes /\ \A d \in Classes : c \notin UsedBy(d)
      /\ IsClass(classes[c]) /\ IsText(text[c]) /\ Final(open) = open[Len(open)] /\ Len(open) \in DOMAIN open
  BY <1>1, TopIs
<1>3. InWork(c)
  BY <1>1, <1>2 DEF InWork
<1>4. HasFunctions(c)
  BY <1>2 DEF FunctionsFit
<1> DEFINE fs == ToSet(classes[c].functions)
           above == FunctionsAbove(c)
           lines == Written(c)
<1>5. PICK w \in BOOLEAN : w = InWork(c)
  BY DEF InWork
<1>6. w = TRUE /\ Follows(c, fs, above, lines, w)
  BY <1>3, <1>4, <1>5 DEF HasFunctions
<1> HIDE DEF fs, above, lines
<1>7. Follows(c, fs, above, lines, TRUE)
  BY <1>6
<1> QED BY <1>2, <1>4, <1>7 DEF HasFunctions, IsClass, fs, above, lines

LEMMA ReadsFunctions ==
  ASSUME TableInv, FunctionsFit, Inside, NEW c, c = Final(open).class, NEW line, NEW cl,
         NEW end \in Nat, NEW stage \in Nat,
         Reads(line, cl, end, stage), FollowsMore(cl, c, line)
  PROVE  FunctionsFit'
<1> PICK f : f = [Final(open) EXCEPT !.end = end, !.stage = stage]
  OBVIOUS
<1> PICK t : t = [text[c] EXCEPT !.lines = Append(@, line)]
  OBVIOUS
<1>0. /\ open # <<>> /\ ~Final(open).closed
      /\ c \in Classes /\ IsOpen(c) /\ \A d \in Classes : c \notin UsedBy(d)
      /\ Final(open) \in FrameSet /\ Final(open) = open[Len(open)] /\ Len(open) \in DOMAIN open
      /\ IsText(text[c])
  BY TopIs DEF Inside, TableInv
<1>1. f \in FrameSet /\ f.class = c /\ f.later = Final(open).later /\ ~f.closed
  BY <1>0 DEF FrameSet
<1>2. /\ classes' = [classes EXCEPT ![c] = cl] /\ open' = Replace(f)
      /\ text' = [text EXCEPT ![c].lines = Append(@, line)] /\ declared' = declared
  BY DEF Reads
<1>3. DOMAIN open' = DOMAIN open /\ open'[Len(open)] = f /\ Kept(c)
  <2>1. f.class = Final(open).class
    BY <1>1
  <2> QED BY <1>0, <1>1, <1>2, <2>1, TopChanges
<1>4. HasOneMore(Written(c), Written(c)', line) /\ text' = [text EXCEPT ![c] = t]
  BY <1>0, <1>2, WrittenGrows
<1>5. OneClass(c, cl, t)
  BY <1>0, <1>2, <1>3, <1>4 DEF OneClass
<1>6. cl.parent = classes[c].parent
  BY DEF FollowsMore
<1>7. FunctionsAbove(c)' = FunctionsAbove(c) /\ cl.parent # c /\ classes'[c] = cl
  BY <1>0, <1>5, <1>6, FunctionsAboveStay
<1>8. t.header.extends = cl.parent
  <2>1. t.header = text[c].header
    BY <1>0 DEF IsText, NoText
  <2>2. text[c].header.extends = classes[c].parent
    BY <1>0 DEF FunctionsFit, ParentsAreAbove, Extended, Parent
  <2> QED BY <2>1, <2>2, <1>6
<1>9. InWork(c)'
  BY <1>0, <1>1, <1>3 DEF InWork
<1>10. HasFunctions(c)'
  <2> DEFINE fs == cl.functions
             n == cl.vtable
             above == FunctionsAbove(c)
             old == Written(c)
             lines == Written(c)'
  <2>1. IsTable(fs, n, c) /\ HasOneMore(old, lines, line)
    BY <1>4 DEF FollowsMore
  <2>2. \A more : HasOneMore(old, more, line) => Follows(c, ToSet(fs), above, more, TRUE)
    BY DEF FollowsMore
  <2>3. fs = classes'[c].functions /\ n = classes'[c].vtable /\ above = FunctionsAbove(c)' /\ lines = Written(c)'
    BY <1>7
  <2> HIDE DEF fs, n, above, lines, old
  <2>4. Follows(c, ToSet(fs), above, lines, TRUE)
    BY <2>1, <2>2
  <2> QED BY <2>1, <2>3, <2>4, <1>9, FollowsWhileRead
<1> QED BY <1>0, <1>5, <1>7, <1>8, <1>10, OneFits

(* A line without a function. *)
LEMMA OtherLineFits ==
  ASSUME TableInv, FunctionsFit, Inside, NEW c, c = Final(open).class, NEW line, line.k # "func",
         NEW cl, SameFunctions(cl, classes[c])
  PROVE  FollowsMore(cl, c, line)
<1> DEFINE fs == classes[c].functions
           n == classes[c].vtable
           F == ToSet(fs)
           above == FunctionsAbove(c)
           lines == Written(c)
<1>1. IsTable(fs, n, c) /\ Follows(c, F, above, lines, TRUE)
  BY TopFollows
<1>2. cl.functions = fs /\ cl.vtable = n /\ cl.parent = classes[c].parent
  BY DEF SameFunctions
<1> HIDE DEF fs, n, above, lines, F
<1>3. PICK w \in BOOLEAN : w = TRUE
  OBVIOUS
<1>4. Follows(c, F, above, lines, w)
  BY <1>1, <1>3
<1>5. \A more : HasOneMore(lines, more, line) => Follows(c, F, above, more, TRUE)
  BY <1>4, FollowsOtherLine
<1> QED BY <1>1, <1>2, <1>5 DEF FollowsMore, F, fs, above, lines, n

LEMMA InitializedFunctions ==
  ASSUME NEW cl, DOMAIN cl = DOMAIN NewClass, NEW name, NEW how
  PROVE  SameFunctions(Initialize(cl, name, how), cl)
  BY NewClassFields DEF Initialize, SameFunctions, Fields

LEMMA ElementFunctions ==
  ASSUME NEW cl, DOMAIN cl = DOMAIN NewClass, NEW end, NEW name, NEW type
  PROVE  SameFunctions(AddElement(cl, end, name, type), cl) /\ DOMAIN AddElement(cl, end, name, type) = DOMAIN NewClass
  BY NewClassFields DEF AddElement, SameFunctions, Fields

(* While nothing is read, and after an error, no class has any functions. *)
EmptyFits == Empty => FunctionsFit
LEMMA NothingFits ==
  EmptyFits
<1> SUFFICES ASSUME Empty
             PROVE  FunctionsFit
  BY DEF EmptyFits
<1>1. \A c \in Classes : classes[c] = NewClass /\ text[c] = NoText
  BY DEF Empty
<1>2. NewClass.parent = Nobody /\ NewClass.functions = <<>> /\ NewClass.vtable = 0
      /\ NoText.header.extends = Nobody /\ NoText.header.trait = Nobody /\ NoText.lines = <<>>
  BY DEF NewClass, NoText, Header
<1>3. ASSUME NEW c \in Classes
      PROVE  HasFunctions(c)
  <2>1. FunctionsAbove(c) = {}
    BY <1>1, <1>2 DEF FunctionsAbove, Parent
  <2>2. Written(c) = <<>>
    <3>1. Written(c) = <<>> \o <<>>
      BY <1>1, <1>2 DEF Written
    <3>2. <<>> \in Seq({})
      OBVIOUS
    <3> QED BY <3>1, <3>2, ConcatEmptySeq
  <2>3. ToSet(<<>>) = {} /\ DOMAIN <<>> = {}
    BY DEF ToSet
  <2>4. IsTable(<<>>, 0, c)
    BY <2>3 DEF IsTable
  <2>5. \A w : Follows(c, {}, {}, <<>>, w)
    BY <2>3 DEF Follows
  <2> QED BY <2>1, <2>2, <2>3, <2>4, <2>5, <1>1, <1>2 DEF HasFunctions
<1>4. \A c \in Classes : Extended(c) = Parent(c)
  BY <1>1, <1>2 DEF Extended, Parent
<1>5. \A S \in SUBSET Classes : S # {} => \E c \in S : Parent(c) \notin S
  <2>1. Nobody \notin Classes
    BY TableConstants DEF Classes, Nobody
  <2>2. \A c \in Classes : classes[c].parent = Nobody
    BY <1>1, <1>2
  <2> QED BY <2>1, <2>2 DEF Parent
<1> QED BY <1>3, <1>4, <1>5 DEF FunctionsFit, ParentsAreAbove

LEMMA RejectFits ==
  ASSUME Reject
  PROVE  FunctionsFit'
<1>1. Empty'
  <2>1. Len(Names) \in Nat
    BY TableConstants, LenProperties
  <2> QED BY <2>1 DEF Reject, Empty
<1>2. EmptyFits'
  BY NothingFits, PTL
<1> QED BY <1>1, <1>2 DEF EmptyFits

LEMMA AddVariableFits ==
  ASSUME TableInv, WithinLimits, FunctionsFit, NEW v \in VariableLines, AddVariable(v[1], v[2])
  PROVE  FunctionsFit'
<1> DEFINE type == v[1]
           how == v[2]
           c == Final(open).class
           name == <<c, Len(text[c].lines) + 1>>
           new == AddElement(classes[c], Final(open).end, name, type)
           cl == Initialize(new, name, how)
           line == Variable(name, type, how)
           end == End(new)
           stage == 1
<1>1. Inside /\ IF SizeKnown(type) THEN Reads(line, cl, end, stage) ELSE Reject
  BY DEF AddVariable, ReadsVariable
<1>2. /\ c \in Classes /\ IsClass(classes[c]) /\ IsText(text[c]) /\ DOMAIN classes[c] = DOMAIN NewClass
      /\ Laid(classes[c], Final(open).end) /\ Final(open).end \in Nat /\ TableType
  BY <1>1, TopIs DEF Inside, TableInv, IsClass
<1>3. type \in Types /\ name \in (Classes \X Nat)
  <2>1. type \in Types
    BY TableConstants DEF Types, Classes
  <2>2. Len(text[c].lines) + 1 \in Nat
    BY <1>2, LenProperties DEF IsText
  <2> QED BY <2>1, <2>2, <1>2
<1>4. HasGrown(new, classes[c], name, type)
  <2> HIDE DEF type, c, name
  <2> QED BY <1>2, <1>3, AddElementLaid
<1>5. SameFunctions(new, classes[c]) /\ DOMAIN new = DOMAIN NewClass
  <2> HIDE DEF type, c, name
  <2> QED BY <1>2, ElementFunctions
<1>6. end \in Nat
  BY <1>4 DEF HasGrown
<1> HIDE DEF new
<1>7. SameFunctions(cl, classes[c])
  <2> HIDE DEF type, c, name, how
  <2>1. SameFunctions(cl, new)
    BY <1>5, InitializedFunctions
  <2> QED BY <2>1, <1>5 DEF SameFunctions
<1>8. line.k # "func" /\ stage \in Nat /\ c = Final(open).class
  BY DEF Variable
<1> HIDE DEF cl, line, end, stage, c
<1>9. CASE SizeKnown(type)
  <2>1. FollowsMore(cl, c, line)
    BY <1>1, <1>7, <1>8, OtherLineFits
  <2> QED BY <1>1, <1>6, <1>8, <1>9, <2>1, ReadsFunctions
<1>10. CASE ~SizeKnown(type)
  BY <1>1, <1>10, RejectFits
<1> QED BY <1>9, <1>10

LEMMA AddOtherVariableFits ==
  ASSUME TableInv, FunctionsFit, NEW how, AddOtherVariable(how)
  PROVE  FunctionsFit'
<1>1. /\ Inside
      /\ \E name : Reads([Variable(name, "pointer", how) EXCEPT !.k = "other"],
                         Initialize(classes[Final(open).class], name, how), Final(open).end, 1)
  BY DEF AddOtherVariable, ReadsVariable
<1>2. PICK name : Reads([Variable(name, "pointer", how) EXCEPT !.k = "other"],
                         Initialize(classes[Final(open).class], name, how), Final(open).end, 1)
  BY <1>1
<1> DEFINE c == Final(open).class
           line == [Variable(name, "pointer", how) EXCEPT !.k = "other"]
           cl == Initialize(classes[c], name, how)
           end == Final(open).end
           stage == 1
<1>3. DOMAIN classes[c] = DOMAIN NewClass /\ end \in Nat /\ stage \in Nat /\ c = Final(open).class
  BY <1>1, TopIs DEF Inside, TableInv, IsClass
<1>4. line.k # "func" /\ Reads(line, cl, end, stage)
  BY <1>2 DEF Variable
<1> HIDE DEF c, line, end, stage
<1>5. SameFunctions(cl, classes[c])
  BY <1>3, InitializedFunctions
<1> HIDE DEF cl
<1>6. FollowsMore(cl, c, line)
  BY <1>1, <1>3, <1>4, <1>5, OtherLineFits
<1> QED BY <1>1, <1>3, <1>4, <1>6, ReadsFunctions

LEMMA AddLineFits ==
  ASSUME TableInv, FunctionsFit, NEW n \in DOMAIN FunctionLines, AddLine(n)
  PROVE  FunctionsFit'
<1> DEFINE given == FunctionLines[n]
           c == Final(open).class
           old == classes[c]
           f == [Function(given.name, given.params, c, "user") EXCEPT !.super = given.super, !.flags = given.flags]
           line == [k |-> "func", f |-> f]
           cl == AddFunction(old, f, IsVirtual(f), IsOverride(f))
           end == Final(open).end
           stage == n + 1
<1>1. Inside /\ IF IsOverride(f) <=> Overridden(old, f) # {} THEN Reads(line, cl, end, stage) ELSE Reject
  BY DEF AddLine
<1>2. /\ c \in Classes /\ DOMAIN old = DOMAIN NewClass /\ end \in Nat
      /\ IsTable(old.functions, old.vtable, c)
      /\ Follows(c, ToSet(old.functions), FunctionsAbove(c), Written(c), TRUE)
  BY <1>1, TopIs, TopFollows DEF Inside
<1>3. stage \in Nat
  <2>1. FunctionLines \in Seq(ToSet(FunctionLines))
    BY TableConstants
  <2>2. n \in Nat
    BY <2>1, LenProperties
  <2> QED BY <2>2
<1>4. /\ line.k = "func" /\ line.f = f /\ DOMAIN f = DOMAIN NoFunction
      /\ f.name = given.name /\ f.params = given.params /\ f.of = c /\ f.flags = given.flags /\ f.body = "user"
  BY DEF Function, NoFunction
<1>5. CanAdd(f, c, IsVirtual(f), IsOverride(f))
  <2>1. IF given.name \in {"init", "assign"} THEN "virtual" \notin given.flags ELSE given.params = <<>>
    BY FunctionConstants
  <2>2. f.body # Nobody
    BY <1>4 DEF Nobody
  <2>3. IF f.name \in {"init", "assign"} THEN ~IsVirtual(f) ELSE f.params = <<>>
    BY <2>1, <1>4 DEF IsVirtual
  <2> HIDE DEF f
  <2> QED BY <2>2, <2>3, <1>4 DEF CanAdd
<1>6. c = Final(open).class /\ old = classes[c]
  OBVIOUS
<1>7. cl = AddFunction(old, f, IsVirtual(f), IsOverride(f))
  OBVIOUS
<1> HIDE DEF given, c, old, f, line, cl, end, stage
<1>8. CASE ~(IsOverride(f) <=> Overridden(old, f) # {})
  BY <1>1, <1>8, RejectFits
<1>9. CASE IsOverride(f) <=> Overridden(old, f) # {}
  <2>1. PICK virtual \in BOOLEAN, override \in BOOLEAN : virtual = IsVirtual(f) /\ override = IsOverride(f)
    BY FlagsAreBooleans
  <2>2. CanAdd(f, c, virtual, override) /\ (override <=> Overridden(old, f) # {}) /\ cl = AddFunction(old, f, virtual, override)
    BY <2>1, <1>5, <1>7, <1>9
  <2>3. PICK v \in Int : IsAdded(cl, old, f, c, virtual, override, v)
    BY <2>2, <1>2, AddFunctionIs
  <2> DEFINE was == old.functions
             is == cl.functions
             m == cl.vtable
             above == FunctionsAbove(c)
             lines == Written(c)
             k == old.vtable
  <2>4. HasAdded(is, m, was, f, c, v) /\ PlaceIs(ToSet(was), f, v)
    <3>1. PlaceIs(ToSet(was), f, v)
      <4> DEFINE F == ToSet(was)
      <4>1. IF override THEN \E h \in F : SameSignature(h, f) /\ h.vindex = v
            ELSE (v >= 0 <=> virtual) /\ \A h \in F : ~SameSignature(h, f)
        BY <2>3 DEF IsAdded
      <4> HIDE DEF F
      <4> QED BY <4>1, <2>1 DEF PlaceIs, F
    <3> QED BY <3>1, <2>3 DEF IsAdded
  <2>5. cl.parent = old.parent
    BY <1>2, <1>7, AddFunctionShape DEF SameShape
  <2>6. IsTable(is, m, c)
    BY <2>4 DEF HasAdded
  <2>7. IsTable(was, k, c) /\ Follows(c, ToSet(was), above, lines, TRUE)
    BY <1>2
  <2> HIDE DEF was, is, m, above, lines, k
  <2>8. \A more : HasOneMore(lines, more, line) => Follows(c, ToSet(is), above, more, TRUE)
    BY <2>4, <2>7, <1>4, <1>5, FollowsLine
  <2>9. FollowsMore(cl, c, line)
    BY <2>5, <2>6, <2>8, <1>6 DEF FollowsMore, is, m, above, lines
  <2> QED BY <1>1, <1>2, <1>3, <1>6, <1>9, <2>9, ReadsFunctions
<1> QED BY <1>8, <1>9

LEMMA OverrideFits ==
  ASSUME TableInv, WithinLimits, FunctionsFit, NEW c \in Classes, OverrideClass(c)
  PROVE  FunctionsFit'
<1> DEFINE line == [k |-> "override"]
           t == [text[c] EXCEPT !.lines = Append(@, line)]
           f == [Frame(c, classes[c].size) EXCEPT !.stage = 1]
           cl == classes[c]
<1>0. TableType /\ IsText(text[c])
  BY DEF TableInv, TableType
<1>1. /\ open = <<>> /\ ~Used(c)
      /\ open' = <<f>> /\ text' = [text EXCEPT ![c].lines = Append(@, line)]
      /\ classes' = classes
  BY DEF OverrideClass, WithinLimits, Allowed
<1>2. DOMAIN open = {} /\ DOMAIN open' = {1} /\ open'[1] = f
  <2> HIDE DEF f
  <2> QED BY <1>1, EmptySeq
<1>3. \A d \in Classes : c \notin UsedBy(d)
  <2>1. c \notin UsedBy(c)
    BY DEF TableInv, UsersWait
  <2>2. ASSUME NEW d \in Classes, d # c
        PROVE  c \notin UsedBy(d)
    BY <1>1, <2>2 DEF Used, UsedBy
  <2> QED BY <2>1, <2>2
<1>4. f.class = c /\ f.closed = FALSE
  BY DEF Frame
<1>5. HasOneMore(Written(c), Written(c)', line) /\ text' = [text EXCEPT ![c] = t]
  BY <1>1, <1>3, WrittenGrows
<1>6. Kept(c) /\ InWork(c)'
  <2>1. Kept(c)
    BY <1>2, <1>4 DEF Kept
  <2>2. InWork(c)'
    BY <1>2, <1>4 DEF InWork
  <2> QED BY <2>1, <2>2
<1>7. OneClass(c, cl, t)
  <2>1. classes' = [classes EXCEPT ![c] = cl]
    BY <1>0, <1>1 DEF TableType
  <2> QED BY <2>1, <1>3, <1>5, <1>6 DEF OneClass
<1>8. t.header.extends = cl.parent
  <2>1. t.header = text[c].header
    BY <1>0 DEF IsText, NoText
  <2> QED BY <2>1 DEF FunctionsFit, ParentsAreAbove, Extended, Parent
<1>9. line.k # "func"
  OBVIOUS
<1> DEFINE fs == cl.functions
           n == cl.vtable
           above == FunctionsAbove(c)
           old == Written(c)
           lines == Written(c)'
           F == ToSet(fs)
<1> HIDE DEF line, t, f
<1>10. FunctionsAbove(c)' = above /\ cl.parent # c /\ classes'[c] = cl
  BY <1>7, FunctionsAboveStay
<1>11. fs = classes'[c].functions /\ n = classes'[c].vtable /\ above = FunctionsAbove(c)' /\ lines = Written(c)'
  BY <1>10
<1>12. PICK w \in BOOLEAN : w = InWork(c)
  BY DEF InWork
<1>13. IsTable(fs, n, c) /\ Follows(c, F, above, old, w) /\ HasOneMore(old, lines, line)
  BY <1>5, <1>12 DEF FunctionsFit, HasFunctions
<1> HIDE DEF fs, n, above, old, lines
<1>14. Follows(c, F, above, lines, TRUE)
  <2> HIDE DEF F
  <2> QED BY <1>9, <1>13, FollowsOtherLine
<1>15. HasFunctions(c)'
  BY <1>6, <1>11, <1>13, <1>14, FollowsWhileRead
<1> QED BY <1>7, <1>8, <1>10, <1>15, OneFits

ParentHasTable(cl) == cl.parent # Nobody => \E n, p : IsTable(classes[cl.parent].functions, n, p)

(* The end of a body: the headers that were missing. *)
HasClosed(new, cl, c, above, lines) ==
  /\ IsTable(new.functions, new.vtable, c) /\ new.parent = cl.parent
  /\ Follows(c, ToSet(new.functions), above, lines, FALSE)

LEMMA ProcessedFunctions ==
  ASSUME NEW c, NEW cl, NEW above, NEW lines, NEW working, NEW end, NEW new,
         DOMAIN cl = DOMAIN NewClass, IsTable(cl.functions, cl.vtable, c),
         Follows(c, ToSet(cl.functions), above, lines, working),
         above = FunctionsOf(cl.parent), ParentHasTable(cl), new = PostProcess(cl, c, end)
  PROVE  HasClosed(new, cl, c, above, lines)
<1> DEFINE moved == Moved(cl)
           above1 == IF cl.parent = Nobody THEN 1 ELSE classes[cl.parent].align
           align == Strictest({above1} \cup {Align(e.type) : e \in ToSet(moved.elements)})
           base == [moved EXCEPT !.size = MemAlign(Room(cl, end), align), !.align = align]
           whole == AddMissingHeaders(base, c)
<1>1. new = [whole EXCEPT !.parsed = TRUE, !.chunk = CanMemcpy(whole), !.needs = NeedsConstructor(whole)]
  BY DEF PostProcess, Moved, Room, IsFirst
<1>2. SameFunctions(moved, cl) /\ DOMAIN moved = DOMAIN NewClass
  BY NewClassFields DEF Moved, MoveBehindTable, SameFunctions, Fields
<1> HIDE DEF moved, align
<1>3. SameFunctions(base, cl) /\ DOMAIN base = DOMAIN NewClass
  BY <1>2, NewClassFields DEF SameFunctions, Fields
<1> HIDE DEF base
<1>4. Stands(base)
  <2>1. \A f \in ToSet(cl.functions) : f.body = Nobody /\ f.name = "init" => \E g \in above : SameSignature(f, g)
    BY Zenon DEF Follows
  <2> QED BY <1>3, <2>1 DEF Stands, SameFunctions, FunctionsOf
<1>5. Heads(base, whole, c) /\ \A f \in ToSet(whole.functions) : f.body # Nobody
  <2>1. IsTable(base.functions, base.vtable, c) /\ (base.parent # Nobody => \E n, p : IsTable(classes[base.parent].functions, n, p))
    BY <1>3 DEF SameFunctions, ParentHasTable
  <2>2. whole = AddMissingHeaders(base, c)
    OBVIOUS
  <2> HIDE DEF whole
  <2> QED BY <1>3, <1>4, <2>1, <2>2, MissingHeadersAre
<1> HIDE DEF whole
<1>6. new.functions = whole.functions /\ new.vtable = whole.vtable /\ new.parent = whole.parent
  BY <1>1, <1>5, NewClassFields DEF Heads, Fields
<1> DEFINE old == ToSet(cl.functions)
           is == ToSet(whole.functions)
<1>7. OnlyHeaders(old, is) /\ IsTable(whole.functions, whole.vtable, c) /\ whole.parent = cl.parent
  BY <1>3, <1>5 DEF Heads, SameFunctions
<1>9. Follows(c, old, above, lines, working) /\ \A f \in is : f.body # Nobody
  BY <1>5
<1> HIDE DEF old, is
<1>10. Follows(c, is, above, lines, FALSE)
  BY <1>7, <1>9, FollowsClosed
<1> QED BY <1>6, <1>7, <1>10 DEF is, HasClosed

LEMMA CloseClassFits ==
  ASSUME TableInv, FunctionsFit, CloseClass
  PROVE  FunctionsFit'
<1> PICK top : top = Final(open)
  OBVIOUS
<1> PICK c : c = top.class
  OBVIOUS
<1> DEFINE cl == classes[c]
           end == top.end
           above == FunctionsAbove(c)
           lines == Written(c)
<1>1. open # <<>> /\ ~top.closed /\ Inside
  BY DEF CloseClass, Inside
<1>2. /\ c \in Classes /\ DOMAIN cl = DOMAIN NewClass /\ TableType /\ top \in FrameSet
      /\ IsClass(cl) /\ \A d \in Classes : c \notin UsedBy(d)
  BY <1>1, TopIs DEF TableInv, IsClass
<1>3. IsTable(cl.functions, cl.vtable, c) /\ Follows(c, ToSet(cl.functions), above, lines, TRUE)
  BY <1>1, TopFollows
<1>4. above = FunctionsOf(cl.parent) /\ ParentHasTable(cl)
  <2>1. cl.parent = Nobody \/ cl.parent \in Classes
    BY <1>2 DEF IsClass
  <2> QED BY <2>1 DEF FunctionsAbove, FunctionsOf, Parent, FunctionsFit, HasFunctions, ParentHasTable
<1> PICK new : new = PostProcess(cl, c, end)
  OBVIOUS
<1>5. CASE NoTableAbove(cl)
  <2>1. Reject
    BY <1>5 DEF CloseClass
  <2> QED BY <2>1, RejectFits
<1>6. CASE ~NoTableAbove(cl)
  <2>1. /\ classes' = [classes EXCEPT ![c] = new] /\ declared' = declared /\ text' = text
        /\ open' = IF top.later = <<>> THEN Front(open) ELSE Replace([top EXCEPT !.closed = TRUE])
    BY <1>6 DEF CloseClass
  <2>2. Kept(c)
    <3>1. CASE top.later = <<>>
      <4>1. open' = Front(open)
        BY <2>1, <3>1
      <4> QED BY <1>1, <2>1, <4>1, TopLeaves
    <3>2. CASE top.later # <<>>
      <4> PICK f : f = [top EXCEPT !.closed = TRUE]
        OBVIOUS
      <4>1. f \in FrameSet /\ f.class = c /\ f.later = top.later /\ f.closed
        BY <1>2 DEF FrameSet
      <4>2. open' = Replace(f)
        BY <2>1, <3>2
      <4> QED BY <1>1, <2>1, <3>2, <4>1, <4>2, TopChanges
    <3> QED BY <3>1, <3>2
  <2>3. OneClass(c, new, text[c])
    <3>1. text' = [text EXCEPT ![c] = text[c]]
      BY <1>2, <2>1 DEF TableType
    <3> QED BY <1>2, <2>1, <2>2, <3>1 DEF OneClass
  <2>4. HasClosed(new, cl, c, above, lines)
    <3>1. DOMAIN cl = DOMAIN NewClass
      BY <1>2
    <3>2. ParentHasTable(cl)
      BY <1>4
    <3>3. above = FunctionsOf(cl.parent)
      BY <1>4
    <3>4. new = PostProcess(cl, c, end)
      OBVIOUS
    <3> HIDE DEF cl, end, above, lines
    <3>5. PICK w \in BOOLEAN : w = TRUE
      OBVIOUS
    <3>6. IsTable(cl.functions, cl.vtable, c) /\ Follows(c, ToSet(cl.functions), above, lines, w)
      BY <3>5, <1>3
    <3> QED BY <3>1, <3>2, <3>3, <3>4, <3>6, ProcessedFunctions
  <2>5. FunctionsAbove(c)' = above /\ new.parent # c /\ classes'[c] = new
    BY <1>2, <2>3, <2>4, FunctionsAboveStay DEF HasClosed
  <2>6. Written(c)' = lines
    BY <2>1 DEF Written
  <2>7. text[c].header.extends = new.parent
    BY <1>2, <2>4 DEF FunctionsFit, ParentsAreAbove, Extended, Parent, HasClosed
  <2>8. HasFunctions(c)'
    <3> DEFINE fs == new.functions
               n == new.vtable
    <3>1. PICK w \in BOOLEAN : w = FALSE
      OBVIOUS
    <3>2. IsTable(fs, n, c) /\ Follows(c, ToSet(fs), above, lines, w) /\ (w => InWork(c)')
      BY <2>4, <3>1 DEF HasClosed
    <3>3. fs = classes'[c].functions /\ n = classes'[c].vtable /\ above = FunctionsAbove(c)' /\ lines = Written(c)'
      BY <2>5, <2>6
    <3> HIDE DEF fs, n, above, lines
    <3> QED BY <3>2, <3>3, FollowsNow
  <2> QED BY <1>2, <2>3, <2>5, <2>7, <2>8, OneFits
<1> QED BY <1>5, <1>6

(* A class that is begun: its functions are those of its parent and its trait. *)
LEMMA StartFits ==
  ASSUME TableInv, FunctionsFit, NEW h \in Headers, NEW frames, Starts(h, frames)
  PROVE  FunctionsFit'
<1> PICK c \in Classes : c = h.name
  BY DEF Starts
<1> PICK cl : cl = Realized(h)
  OBVIOUS
<1> PICK f : f = Frame(c, cl.size)
  OBVIOUS
<1> DEFINE N == Len(frames)
           t == [text[c] EXCEPT !.header = h]
<1>0. /\ TableType /\ ~IsOpen(c) /\ text[c] = NoText /\ \A d \in Classes : c \notin UsedBy(d)
      /\ Finished(h.extends) /\ Finished(h.trait) /\ HeaderFits(h) /\ frames \in Seq(FrameSet) /\ Below(frames, c)
  BY NobodyUses DEF TableInv, Untouched, Starts, Realize
<1>1. IsClass(cl) /\ cl.size \in Nat /\ cl.parent = h.extends
  BY <1>0, RealizedIs DEF IsClass
<1>2. f \in FrameSet /\ f.class = c /\ ~f.closed
  BY <1>1, NewFrame
<1>3. /\ classes' = [classes EXCEPT ![c] = cl] /\ open' = Append(frames, f)
      /\ text' = [text EXCEPT ![c].header = h]
  BY DEF Realize, Begins, Starts
<1>4. /\ DOMAIN frames = 1..N /\ N \in Nat /\ DOMAIN open' = 1..(N + 1)
      /\ open'[N + 1] = f /\ \A i \in 1..N : open'[i] = frames[i]
  BY <1>0, <1>2, <1>3, Pushed
<1> HIDE DEF N
<1>5. \A i \in 1..N : i \in DOMAIN open /\ open'[i].class = open[i].class
                      /\ open'[i].end = open[i].end /\ open'[i].closed = open[i].closed
  BY <1>0, <1>4 DEF Below
<1>6. \A i \in 1..(N + 1) : i \in 1..N \/ i = N + 1
  BY <1>4
<1>7. Kept(c)
  <2>1. \A i \in DOMAIN open' : \/ open'[i].class = c
                                \/ \E j \in DOMAIN open : /\ open'[i].class = open[j].class
                                                          /\ open'[i].end = open[j].end
                                                          /\ open'[i].closed = open[j].closed
    BY <1>2, <1>4, <1>5, <1>6
  <2>2. ASSUME NEW j \in DOMAIN open, ~open[j].closed
        PROVE  \E i \in DOMAIN open' : open'[i].class = open[j].class /\ ~open'[i].closed
    <3>1. j \in 1..N /\ j \in 1..(N + 1)
      BY <2>2, <1>0, <1>4 DEF Below
    <3> QED BY <3>1, <2>2, <1>4, <1>5
  <2> QED BY <2>1, <2>2 DEF Kept
<1>8. OneClass(c, cl, t)
  <2>1. text' = [text EXCEPT ![c] = t]
    BY <1>3
  <2> HIDE DEF t
  <2> QED BY <2>1, <1>0, <1>3, <1>7 DEF OneClass
<1>9. t.header = h /\ t.lines = <<>>
  BY <1>0 DEF NoText
<1> HIDE DEF t
<1>10. /\ classes'[c] = cl /\ text'[c] = t
       /\ \A d \in Classes : d # c => classes'[d] = classes[d] /\ text'[d] = text[d]
  <2>1. classes' = [classes EXCEPT ![c] = cl] /\ text' = [text EXCEPT ![c] = t]
    BY <1>8 DEF OneClass
  <2>2. classes'[c] = cl /\ \A d \in Classes : d # c => classes'[d] = classes[d]
    BY <2>1, <1>0, TypesStay
  <2> PICK s : s = t
    OBVIOUS
  <2>3. text' = [text EXCEPT ![c] = s]
    BY <2>1
  <2>4. text'[c] = s /\ \A d \in Classes : d # c => text'[d] = text[d]
    BY <2>3, <1>0, TextStays
  <2> QED BY <2>2, <2>4
<1>11. /\ h.extends = Nobody \/ h.extends \in Classes
       /\ h.trait = Nobody \/ h.trait \in Classes
       /\ h.extends # c /\ h.trait # c
  BY HeaderNames
<1> DEFINE above == FunctionsOf(h.extends)
           lines == LinesOf(h.trait)
           fs == cl.functions
           n == cl.vtable
<1>12. IsTable(fs, n, c) /\ Follows(c, ToSet(fs), above, lines, TRUE)
  <2>1. \A d \in Classes : HasFunctions(d)
    BY DEF FunctionsFit
  <2> QED BY <2>1, <1>0, RealizedFunctions
<1>13. above = FunctionsAbove(c)'
  <2>1. FunctionsAbove(c)' = IF h.extends = Nobody THEN {} ELSE ToSet(classes'[h.extends].functions)
    BY <1>1, <1>10 DEF FunctionsAbove, Parent
  <2>2. h.extends # Nobody => classes'[h.extends] = classes[h.extends]
    BY <1>10, <1>11
  <2> QED BY <2>1, <2>2 DEF FunctionsOf
<1>14. lines = Written(c)'
  <2>1. Written(c)' = (IF h.trait = Nobody THEN <<>> ELSE text'[h.trait].lines) \o <<>>
    BY <1>9, <1>10 DEF Written
  <2>2. h.trait # Nobody => text'[h.trait] = text[h.trait]
    BY <1>10, <1>11
  <2>3. Written(c)' = lines \o <<>>
    BY <2>1, <2>2 DEF LinesOf
  <2>4. lines \in Seq(ToSet(lines))
    <3>1. CASE h.trait = Nobody
      BY <3>1, EmptySeq DEF LinesOf
    <3>2. CASE h.trait # Nobody
      BY <3>2, <1>0, <1>11 DEF LinesOf, TableType, IsText
    <3> QED BY <3>1, <3>2
  <2> HIDE DEF lines
  <2> QED BY <2>3, <2>4, ConcatEmptySeq
<1>15. InWork(c)'
  <2>1. N + 1 \in DOMAIN open'
    BY <1>4
  <2> QED BY <2>1, <1>2, <1>4 DEF InWork
<1>16. HasFunctions(c)'
  <2>1. fs = classes'[c].functions /\ n = classes'[c].vtable
    BY <1>10
  <2> HIDE DEF fs, n, above, lines
  <2> QED BY <2>1, <1>12, <1>13, <1>14, <1>15, FollowsWhileRead
<1>17. cl.parent = t.header.extends /\ cl.parent # c
  BY <1>1, <1>9, <1>11
<1> QED BY <1>8, <1>16, <1>17, OneFits

LEMMA DeclareForLaterFits ==
  ASSUME TableInv, FunctionsFit, NEW h \in Headers, DeclareForLater(h)
  PROVE  FunctionsFit'
<1> PICK top : top = Final(open)
  OBVIOUS
<1> PICK more : more = [top EXCEPT !.later = Append(@, h)]
  OBVIOUS
<1>1. /\ classes' = classes /\ text' = text
      /\ open' = IF open = <<>> THEN open ELSE Replace(more)
  BY DEF DeclareForLater
<1>2. \A d : InWork(d) => InWork(d)'
  <2>1. CASE open = <<>>
    BY <1>1, <2>1 DEF InWork
  <2>2. CASE open # <<>>
    <3>1. /\ top \in FrameSet /\ top = open[Len(open)] /\ top.later \in Seq(Headers) /\ Len(open) \in DOMAIN open
          /\ TableType
      BY <2>2, TopIs DEF TableInv
    <3> PICK more2 : more2 = Append(top.later, h)
      OBVIOUS
    <3>2. more2 \in Seq(Headers)
      BY <3>1
    <3>3. more = [top EXCEPT !.later = more2]
      OBVIOUS
    <3>4. more \in FrameSet /\ more.class = top.class /\ more.closed = top.closed
      BY <3>1, <3>2, <3>3 DEF FrameSet
    <3>5. open' = Replace(more)
      BY <1>1, <2>2
    <3>6. /\ DOMAIN open' = DOMAIN open /\ open'[Len(open)] = more
          /\ \A i \in DOMAIN open : i # Len(open) => open'[i] = open[i]
      BY <2>2, <3>1, <3>4, <3>5, Replaced
    <3> QED BY <3>1, <3>4, <3>6 DEF InWork
  <2> QED BY <2>1, <2>2
<1>3. ASSUME NEW d \in Classes
      PROVE  HasFunctions(d)'
  <2> DEFINE fs == classes[d].functions
             n == classes[d].vtable
             above == FunctionsAbove(d)
             lines == Written(d)
  <2>1. PICK w \in BOOLEAN : w = InWork(d)
    BY DEF InWork
  <2>2. IsTable(fs, n, d) /\ Follows(d, ToSet(fs), above, lines, w) /\ (w => InWork(d)')
    BY <2>1, <1>2 DEF FunctionsFit, HasFunctions
  <2>3. fs = classes'[d].functions /\ n = classes'[d].vtable /\ above = FunctionsAbove(d)' /\ lines = Written(d)'
    BY <1>1 DEF FunctionsAbove, Written, Parent
  <2> HIDE DEF fs, n, above, lines
  <2> QED BY <2>2, <2>3, FollowsNow
<1>4. ParentsAreAbove'
  BY <1>1 DEF FunctionsFit, ParentsAreAbove, Extended, Parent
<1> QED BY <1>3, <1>4 DEF FunctionsFit

LEMMA ReadLineFits ==
  ASSUME TableInv, WithinLimits, FunctionsFit, ReadLine
  PROVE  FunctionsFit'
<1>1. ASSUME NEW h \in Headers, DeclareClass(h)
      PROVE  FunctionsFit'
  BY <1>1, DeclareClassStarts, StartFits
<1>2. ASSUME NEW h \in Headers, DeclareWrongly(h)
      PROVE  FunctionsFit'
  BY <1>2, RejectFits DEF DeclareWrongly
<1>3. ASSUME NEW h \in Headers, DeclareForLater(h)
      PROVE  FunctionsFit'
  BY <1>3, DeclareForLaterFits
<1>4. CASE RetryClass
  BY <1>4, RetryClassStarts, StartFits, RejectFits
<1>5. CASE CloseClass
  BY <1>5, CloseClassFits
<1>6. ASSUME NEW c \in Classes, OverrideClass(c)
      PROVE  FunctionsFit'
  BY <1>6, OverrideFits
<1>7. ASSUME NEW v \in VariableLines, AddVariable(v[1], v[2])
      PROVE  FunctionsFit'
  BY <1>7, AddVariableFits
<1>8. ASSUME NEW how \in {"none", "assign"}, AddOtherVariable(how)
      PROVE  FunctionsFit'
  BY <1>8, AddOtherVariableFits
<1>9. ASSUME NEW n \in DOMAIN FunctionLines, AddLine(n)
      PROVE  FunctionsFit'
  BY <1>9, AddLineFits
<1> QED BY <1>1, <1>2, <1>3, <1>4, <1>5, <1>6, <1>7, <1>8, <1>9 DEF ReadLine

-----------------------------------------------------------------------------
(***************************************************************************)
(* The tables, once they are linked.                                        *)
(***************************************************************************)
LEMMA LinkedStep ==
  ASSUME Len(Names) \in Nat
  PROVE  \E f : /\ f[0] = tables /\ Linked = f[Len(Names)]
                /\ \A i \in 1..Len(Names) : f[i] = Link(f[i - 1], Names[i])
<1> DEFINE N == Len(Names)
           cl == tables
           Then(k, i) == Link(k, Names[i])
           Meets(f, n) == f[0] = cl /\ \A i \in 1..n : f[i] = Then(f[i - 1], i)
           of == CHOOSE f : f = [i \in 0..N |-> IF i = 0 THEN cl ELSE Then(f[i - 1], i)]
           Upto == {n \in Nat : n <= N => \E f : f = [i \in 0..n |-> f[i]] /\ Meets(f, n)}
<1>1. N \in Upto
  <2> HIDE DEF N, Then, cl
  <2>1. 0 \in Upto
    <3> DEFINE f == [i \in 0..0 |-> cl]
    <3>1. f = [i \in 0..0 |-> f[i]] /\ Meets(f, 0)
      OBVIOUS
    <3> QED BY <3>1
  <2>2. ASSUME NEW n \in Nat, n \in Upto
        PROVE  n + 1 \in Upto
    <3> HIDE DEF Meets
    <3> SUFFICES ASSUME n + 1 <= N
                 PROVE  \E f : f = [i \in 0..n + 1 |-> f[i]] /\ Meets(f, n + 1)
      OBVIOUS
    <3>0. n <= N
      BY DEF N
    <3> PICK f : f = [i \in 0..n |-> f[i]] /\ Meets(f, n)
      BY <3>0, <2>2
    <3> USE DEF Meets
    <3> DEFINE g == [i \in 0..n + 1 |-> IF i <= n THEN f[i] ELSE Then(f[n], n + 1)]
    <3>1. g = [i \in 0..n + 1 |-> g[i]]
      OBVIOUS
    <3>2. Meets(g, n + 1)
      <4>1. g[0] = cl
        OBVIOUS
      <4>2. ASSUME NEW i \in 1..n + 1
            PROVE  g[i] = Then(g[i - 1], i)
        <5>1. CASE i <= n
          <6>1. i \in 1..n /\ i \in 0..n + 1 /\ i - 1 \in 0..n + 1 /\ i - 1 <= n
            BY <5>1
          <6>2. g[i] = f[i] /\ g[i - 1] = f[i - 1]
            BY <6>1, <5>1
          <6>3. f[i] = Then(f[i - 1], i)
            BY <6>1
          <6> QED BY <6>2, <6>3
        <5>2. CASE i = n + 1
          <6>1. g[i - 1] = f[n] /\ g[i] = Then(f[n], n + 1)
            BY <5>2
          <6> QED BY <6>1, <5>2
        <5> QED BY <5>1, <5>2
      <4> QED BY <4>1, <4>2
    <3> HIDE DEF g, Meets
    <3> QED BY <3>1, <3>2
  <2>3. N \in Nat
    BY DEF N
  <2> HIDE DEF Upto
  <2> QED BY <2>1, <2>2, <2>3, Induction
<1>2. PICK f : f = [i \in 0..N |-> f[i]] /\ Meets(f, N)
  BY <1>1
<1>3. f = [i \in 0..N |-> IF i = 0 THEN cl ELSE Then(f[i - 1], i)]
  <2> HIDE DEF N, Then, cl
  <2>1. \A i \in 0..N : f[i] = IF i = 0 THEN cl ELSE Then(f[i - 1], i)
    <3>1. N \in Nat
      BY DEF N
    <3>2. Meets(f, N)
      BY <1>2
    <3> QED BY <3>1, <3>2
  <2> QED BY <2>1, <1>2
<1>4. of = [i \in 0..N |-> IF i = 0 THEN cl ELSE Then(of[i - 1], i)]
  <2> HIDE DEF Then, N, cl
  <2> QED BY <1>3
<1>5. Linked = of[N]
  BY DEF Linked
<1>6. Meets(of, N)
  <2>0. N \in Nat
    OBVIOUS
  <2> HIDE DEF N, Then, of, cl
  <2>1. 0 \in 0..N /\ \A i \in 1..N : i \in 0..N /\ i # 0
    BY <2>0
  <2>2. of[0] = cl
    BY <2>1, <1>4, Zenon
  <2>3. ASSUME NEW i \in 1..N
        PROVE  of[i] = Then(of[i - 1], i)
    <3>1. i \in 0..N /\ i # 0
      BY <2>1
    <3> QED BY <3>1, <1>4, Zenon
  <2> QED BY <2>2, <2>3
<1> HIDE DEF of
<1> QED BY <1>5, <1>6

LEMMA OnlyIsMax ==
  ASSUME NEW x \in Int
  PROVE  Max({x}) = x
<1>1. \A z \in {x} : (\A y \in {x} : z >= y) <=> z = x
  OBVIOUS
<1> QED BY <1>1 DEF Max

HasPlaces(linked, c) ==
  \A f \in ToSet(classes[c].functions) :
     f.vindex >= 0 => f.vindex \in DOMAIN linked[c] /\ linked[c][f.vindex] = f

LEMMA LinkIs ==
  ASSUME NEW linked, linked = [d \in Classes |-> linked[d]], NEW c \in Classes,
         IsTable(classes[c].functions, classes[c].vtable, c), NEW r, r = Link(linked, c)
  PROVE  /\ r = [d \in Classes |-> r[d]] /\ \A d \in Classes : d # c => r[d] = linked[d]
         /\ HasPlaces(r, c)
<1> DEFINE fs == classes[c].functions
           n == classes[c].vtable
           at(i) == {j \in DOMAIN fs : fs[j].vindex = i}
           inherited(i) == IF Parent(c) # Nobody /\ i \in DOMAIN linked[Parent(c)] THEN linked[Parent(c)][i] ELSE NoFunction
           entry(i) == IF at(i) # {} THEN fs[Max(at(i))] ELSE IF i = 1 THEN External ELSE inherited(i)
           row == [i \in 0..(n - 1) |-> entry(i)]
<1>1. r = [linked EXCEPT ![c] = row]
  BY DEF Link
<1>2. /\ Len(fs) \in Nat /\ DOMAIN fs = 1..Len(fs) /\ n \in Nat
      /\ \A f \in ToSet(fs) : f.vindex = -1 \/ f.vindex \in 2..(n - 1)
      /\ \A f \in ToSet(fs) : \E i \in DOMAIN fs : f = fs[i]
  BY TableEntries
<1>3. \A i, j \in DOMAIN fs : fs[i].vindex = fs[j].vindex /\ fs[i].vindex >= 0 => i = j
  BY DEF IsTable
<1>4. ASSUME NEW f \in ToSet(fs), f.vindex >= 0
      PROVE  f.vindex \in 0..(n - 1) /\ entry(f.vindex) = f
  <2>1. PICK j \in DOMAIN fs : f = fs[j]
    BY <1>2
  <2> PICK v : v = f.vindex
    OBVIOUS
  <2>2. v \in 2..(n - 1) /\ v \in 0..(n - 1)
    BY <1>2, <1>4
  <2>3. at(v) = {j}
    BY <1>3, <1>4, <2>1
  <2>4. Max(at(v)) = j
    BY <2>1, <2>3, <1>2, OnlyIsMax
  <2>5. entry(v) = f
    <3> HIDE DEF at
    <3> QED BY <2>1, <2>3, <2>4
  <2> QED BY <2>2, <2>5
<1> HIDE DEF entry
<1>5. \A f \in ToSet(fs) : f.vindex >= 0 => f.vindex \in DOMAIN row /\ row[f.vindex] = f
  BY <1>4
<1> HIDE DEF row
<1>6. r[c] = row /\ r = [d \in Classes |-> r[d]] /\ \A d \in Classes : d # c => r[d] = linked[d]
  BY <1>1
<1> QED BY <1>5, <1>6 DEF HasPlaces

LEMMA LinkedIs ==
  ASSUME TablesLinked, FunctionsFit, NEW r, r = Linked
  PROVE  /\ r = [d \in Classes |-> r[d]]
         /\ \A c \in Classes : HasPlaces(r, c)
<1> DEFINE N == Len(Names)
<1>1. N \in Nat /\ DOMAIN Names = 1..N /\ (\A i \in 1..N : Names[i] \in Classes)
      /\ (\A c \in Classes : \E i \in 1..N : c = Names[i])
      /\ \A i, j \in 1..N : Names[i] = Names[j] => i = j
  <2>1. Names \in Seq(ToSet(Names)) /\ IsInjective(Names)
    BY TableConstants
  <2>2. N \in Nat /\ DOMAIN Names = 1..N
    BY <2>1, LenProperties
  <2> QED BY <2>1, <2>2 DEF Classes, ToSet, IsInjective
<1>2. PICK g : /\ g[0] = tables /\ Linked = g[N]
               /\ \A i \in 1..N : g[i] = Link(g[i - 1], Names[i])
  BY <1>1, LinkedStep
<1>3. tables = [d \in Classes |-> tables[d]]
  BY DEF TablesLinked
<1> DEFINE Up(i) == /\ g[i] = [d \in Classes |-> g[i][d]]
                    /\ \A j \in 1..i : HasPlaces(g[i], Names[j])
           Upto == {i \in Nat : i <= N => Up(i)}
<1> HIDE DEF N
<1>4. 0 \in Upto
  BY <1>2, <1>3
<1>5. ASSUME NEW i \in Nat, i \in Upto
      PROVE  i + 1 \in Upto
  <2> SUFFICES ASSUME i + 1 <= N
               PROVE  Up(i + 1)
    OBVIOUS
  <2> PICK a, b, c : a = g[i] /\ b = g[i + 1] /\ c = Names[i + 1]
    OBVIOUS
  <2>1. /\ i \in 0..N /\ i + 1 \in 1..N /\ (i + 1) - 1 = i /\ Up(i)
    BY <1>1, <1>5
  <2>2. b = Link(a, c) /\ c \in Classes
    BY <2>1, <1>1, <1>2
  <2>3. a = [d \in Classes |-> a[d]]
    BY <2>1
  <2>4. IsTable(classes[c].functions, classes[c].vtable, c)
    BY <2>2 DEF FunctionsFit, HasFunctions
  <2>5. /\ b = [d \in Classes |-> b[d]] /\ \A d \in Classes : d # c => b[d] = a[d]
        /\ HasPlaces(b, c)
    BY <2>2, <2>3, <2>4, LinkIs
  <2>6. ASSUME NEW j \in 1..(i + 1)
        PROVE  HasPlaces(b, Names[j])
    <3>1. CASE j = i + 1
      BY <3>1, <2>5
    <3>2. CASE j # i + 1
      <4>1. j \in 1..i /\ j \in 1..N
        <5>1. j \in 1..i
          BY <3>2
        <5> QED BY <5>1, <2>1, <1>1
      <4>2. Names[j] # c /\ Names[j] \in Classes
        BY <4>1, <3>2, <2>1, <1>1
      <4>3. HasPlaces(a, Names[j])
        BY <4>1, <2>1
      <4>4. b[Names[j]] = a[Names[j]]
        BY <4>2, <2>5
      <4> QED BY <4>3, <4>4 DEF HasPlaces
    <3> QED BY <3>1, <3>2
  <2> QED BY <2>5, <2>6
<1> HIDE DEF Up
<1>6. Up(N)
  <2>1. N \in Upto
    <3> HIDE DEF Upto
    <3> QED BY <1>1, <1>4, <1>5, Induction
  <2> QED BY <1>1, <2>1
<1>7. r = g[N]
  BY <1>2
<1> QED BY <1>1, <1>6, <1>7 DEF Up

LEMMA NextFits ==
  ASSUME TableInv, WithinLimits, FunctionInv, [Next]_vars
  PROVE  FunctionInv'
<1>0. FunctionsFit /\ TablesLinked
  BY DEF FunctionInv, FunctionsFit
<1>1. CASE ReadLine /\ UNCHANGED tables
  <2>1. FunctionsFit'
    BY <1>0, <1>1, ReadLineFits
  <2>2. phase' # "compiled"
    BY <1>1 DEF ReadLine, DeclareClass, DeclareWrongly, DeclareForLater, Declares, HasRead, Reject, RetryClass, CloseClass, Inside, OverrideClass, AddVariable, AddOtherVariable, ReadsVariable, AddLine, Reads
  <2>3. TablesLinked'
    BY <1>0, <1>1, <2>2 DEF TablesLinked
  <2> QED BY <2>1, <2>3 DEF FunctionInv, FunctionsFit
<1>2. CASE Reject /\ UNCHANGED tables
  <2>1. FunctionsFit'
    BY <1>2, RejectFits
  <2>2. TablesLinked'
    BY <1>0, <1>2 DEF TablesLinked, Reject
  <2> QED BY <2>1, <2>2 DEF FunctionInv, FunctionsFit
<1>3. CASE tables' = Linked /\ UNCHANGED <<classes, open, declared, text>>
  <2> PICK r : r = Linked
    OBVIOUS
  <2>1. r = [d \in Classes |-> r[d]] /\ \A c \in Classes : HasPlaces(r, c)
    BY <1>0, LinkedIs
  <2>2. TablesLinked'
    BY <1>3, <2>1 DEF TablesLinked, HasPlaces, Entry
  <2>3. ASSUME NEW d \in Classes
        PROVE  HasFunctions(d)'
    BY <1>0, <1>3 DEF FunctionsFit, HasFunctions, FunctionsAbove, Parent, Written, InWork
  <2>4. ParentsAreAbove'
    BY <1>0, <1>3 DEF FunctionsFit, ParentsAreAbove, Extended, Parent
  <2> QED BY <2>2, <2>3, <2>4 DEF FunctionInv
<1>4. CASE UNCHANGED vars
  <2>1. ASSUME NEW d \in Classes
        PROVE  HasFunctions(d)'
    BY <1>0, <1>4 DEF FunctionsFit, HasFunctions, FunctionsAbove, Parent, Written, InWork, vars
  <2>2. ParentsAreAbove'
    BY <1>0, <1>4 DEF FunctionsFit, ParentsAreAbove, Extended, Parent, vars
  <2>3. TablesLinked'
    BY <1>0, <1>4 DEF TablesLinked, vars, Entry
  <2> QED BY <2>1, <2>2, <2>3 DEF FunctionInv
<1>5. Next \/ UNCHANGED vars
  OBVIOUS
<1> QED BY <1>1, <1>2, <1>3, <1>4, <1>5 DEF Next, Compile

(* While the text is read, each class has the functions that its parent, its
   trait and its lines give it, each at its place in the table; and once the
   tables are linked, each place has its function (Class::derive_from,
   add_function, link_virtual_table). *)
THEOREM FunctionsInvariant ==
  ASSUME WithinLimits
  PROVE  Spec => []FunctionInv
<1>1. Init => FunctionInv
  <2> SUFFICES ASSUME Init
               PROVE  FunctionInv
    OBVIOUS
  <2>1. Len(Names) \in Nat
    BY TableConstants, LenProperties
  <2>2. Empty
    BY <2>1 DEF Init, TableInit, Empty
  <2>3. FunctionsFit
    BY <2>2, NothingFits DEF EmptyFits
  <2>4. TablesLinked
    BY DEF Init, TableInit, TablesLinked
  <2> QED BY <2>3, <2>4 DEF FunctionsFit, FunctionInv
<1>2. TableInv /\ FunctionInv /\ [Next]_vars => FunctionInv'
  BY NextFits
<1> QED BY <1>1, <1>2, TableInvariant, PTL DEF Spec

-----------------------------------------------------------------------------
(***************************************************************************)
(* The classes above a class.                                              *)
(***************************************************************************)
LEMMA ParentInduction ==
  ASSUME TableInv, ParentsAreAbove, NEW T, \A c \in Classes : Parent(c) = Nobody \/ Parent(c) \in T => c \in T
  PROVE  Classes \subseteq T
<1> DEFINE S == Classes \ T
<1>1. S \in SUBSET Classes
  OBVIOUS
<1>2. CASE S # {}
  <2>1. PICK c \in S : Parent(c) \notin S
    BY <1>1, <1>2 DEF ParentsAreAbove
  <2>2. Parent(c) \in Classes \/ Parent(c) = Nobody
    BY <2>1 DEF TableInv, TableType, IsClass, Parent
  <2> QED BY <2>1, <2>2
<1> QED BY <1>2

LEMMA AboveIs ==
  ASSUME TableInv, ParentsAreAbove, NEW c \in Classes
  PROVE  /\ c \in Above(c) /\ Above(c) \subseteq Classes
         /\ \A a \in Above(c) : Parent(a) # Nobody => Parent(a) \in Above(c)
         /\ \A a \in Above(c) : Above(a) \subseteq Above(c)
         /\ Parent(c) # c /\ (Parent(c) = Nobody \/ Parent(c) \in Classes)
<1>0. \A d \in Classes : Extended(d) = Parent(d) /\ (Parent(d) = Nobody \/ Parent(d) \in Classes)
  BY DEF TableInv, TableType, IsClass, Parent, ParentsAreAbove
<1>1. c \in Above(c) /\ Above(c) \subseteq Classes
  BY DEF Above
<1>2. ASSUME NEW a \in Above(c), Parent(a) # Nobody
      PROVE  Parent(a) \in Above(c)
  <2>1. a \in Classes /\ Parent(a) \in Classes /\ Extended(a) = Parent(a)
    BY <1>0, <1>1, <1>2
  <2>2. ASSUME NEW S \in SUBSET Classes, c \in S, \A d \in S : Extended(d) \in S \cup {Nobody}
        PROVE  Parent(a) \in S
    <3>1. a \in S
      BY <2>2 DEF Above
    <3> QED BY <3>1, <2>1, <2>2, <1>2
  <2> QED BY <2>1, <2>2 DEF Above
<1>3. ASSUME NEW a \in Above(c), NEW b \in Above(a)
      PROVE  b \in Above(c)
  <2> DEFINE S == Above(c)
  <2>1. S \in SUBSET Classes /\ a \in S /\ \A d \in S : Extended(d) \in S \cup {Nobody}
    BY <1>0, <1>1, <1>2
  <2> HIDE DEF S
  <2>2. b \in S
    BY <2>1 DEF Above
  <2> QED BY <2>2 DEF S
<1>4. Parent(c) # c
  <2>1. {c} \in SUBSET Classes /\ {c} # {}
    OBVIOUS
  <2>2. \E d \in {c} : Parent(d) \notin {c}
    BY <2>1 DEF ParentsAreAbove
  <2> QED BY <2>2
<1> QED BY <1>0, <1>1, <1>2, <1>3, <1>4

LEMMA AboveParent ==
  ASSUME TableInv, ParentsAreAbove, NEW c \in Classes
  PROVE  /\ Parent(c) = Nobody => Above(c) = {c}
         /\ Parent(c) # Nobody => Above(c) = {c} \cup Above(Parent(c))
<1>0. \A d \in Classes : Extended(d) = Parent(d) /\ (Parent(d) = Nobody \/ Parent(d) \in Classes)
  BY DEF TableInv, TableType, IsClass, Parent, ParentsAreAbove
<1> DEFINE p == Parent(c)
<1>1. ASSUME NEW S \in SUBSET Classes, c \in S, \A d \in S : Extended(d) \in S \cup {Nobody}
      PROVE  Above(c) \subseteq S
  BY <1>1 DEF Above
<1>2. CASE p = Nobody
  <2>1. {c} \in SUBSET Classes /\ c \in {c} /\ \A d \in {c} : Extended(d) \in {c} \cup {Nobody}
    BY <1>0, <1>2
  <2>2. Above(c) \subseteq {c}
    BY <2>1, <1>1
  <2> QED BY <2>2, <1>2, AboveIs
<1>3. CASE p # Nobody
  <2>1. p \in Classes /\ Extended(c) = p
    BY <1>0, <1>3
  <2>2. /\ p \in Above(p) /\ Above(p) \subseteq Classes
        /\ \A a \in Above(p) : Parent(a) # Nobody => Parent(a) \in Above(p)
    BY <2>1, AboveIs
  <2> DEFINE S == {c} \cup Above(p)
  <2>3. S \in SUBSET Classes /\ c \in S
    BY <2>2
  <2>4. \A d \in S : Extended(d) \in S \cup {Nobody}
    BY <1>0, <2>1, <2>2
  <2>5. Above(c) \subseteq S
    <3> HIDE DEF S
    <3> QED BY <2>3, <2>4, <1>1
  <2>6. c \in Above(c) /\ Above(p) \subseteq Above(c)
    <3>1. c \in Above(c) /\ p \in Above(c)
      BY <1>3, AboveIs
    <3> QED BY <3>1, AboveIs
  <2> QED BY <2>5, <2>6, <1>3
<1> QED BY <1>2, <1>3

LEMMA AboveOnce ==
  ASSUME TableInv, ParentsAreAbove
  PROVE  \A c \in Classes : \A a \in Above(c) : c \in Above(a) => a = c
<1> DEFINE T == {c \in Classes : \A a \in Above(c) : c \in Above(a) => a = c}
<1>1. ASSUME NEW c \in Classes, Parent(c) = Nobody \/ Parent(c) \in T
      PROVE  c \in T
  <2> SUFFICES ASSUME NEW a \in Above(c), c \in Above(a), a # c
               PROVE  FALSE
    OBVIOUS
  <2> DEFINE p == Parent(c)
  <2>1. p # Nobody /\ a \in Above(p) /\ p \in T
    BY <1>1, AboveParent
  <2>2. a \in Classes /\ p \in Above(a) /\ p # c
    BY <2>1, AboveIs
  <2>3. a = p
    BY <2>1, <2>2
  <2>4. c \in Above(p) /\ p \in Above(c)
    BY <2>1, <2>3
  <2> QED BY <2>1, <2>2, <2>4
<1> HIDE DEF T
<1>2. Classes \subseteq T
  BY <1>1, ParentInduction
<1> QED BY <1>2 DEF T

-----------------------------------------------------------------------------
(***************************************************************************)
(* Why calls find their function.                                          *)
(***************************************************************************)
AllRead == TableInv /\ FunctionInv /\ open = <<>>

LEMMA FunctionsAre ==
  ASSUME AllRead, NEW c \in Classes
  PROVE  /\ \A f \in FunctionsOf(c) :
               /\ f.vindex \in Int /\ f.body # Nobody
               /\ f.name \in {"init", "assign"} => f.vindex = -1
               /\ f.name = "delete" => f.of = c
               /\ \A g \in FunctionsOf(c) : IsPlain(f.name) /\ g.name = f.name => g = f
         /\ \A f \in FunctionsOf(c) : IsPlain(f.name) =>
               /\ Methods(c, f.name) # {} => f.of = c
               /\ Methods(c, f.name) = {} => f \in FunctionsOf(Parent(c))
               /\ (\A g \in FunctionsOf(Parent(c)) : g.name # f.name) =>
                     (f.vindex >= 0 <=> IsVirtual(First(c, f.name)))
         /\ \A name : IsPlain(name) /\ Methods(c, name) # {} => \E f \in FunctionsOf(c) : f.name = name
         /\ \A g \in FunctionsOf(Parent(c)) : g.name \notin {"init", "assign"} =>
               \E f \in FunctionsOf(c) : f.name = g.name /\ f.vindex = g.vindex
<1> DEFINE fs == classes[c].functions
           n == classes[c].vtable
           F == ToSet(fs)
           above == FunctionsOf(Parent(c))
           lines == Written(c)
<1>0. Nobody \notin Classes /\ FunctionsOf(c) = F /\ FunctionsAbove(c) = above
  BY TableConstants DEF Classes, Nobody, FunctionsOf, FunctionsAbove
<1>1. ~InWork(c) /\ HasFunctions(c)
  BY EmptySeq DEF AllRead, FunctionInv, InWork
<1>2. IsTable(fs, n, c)
  BY <1>1 DEF HasFunctions
<1>3. Follows(c, F, above, lines, FALSE)
  <2>1. PICK w \in BOOLEAN : w = InWork(c)
    BY DEF InWork
  <2>2. ~w /\ Follows(c, F, above, lines, w)
    BY <2>1, <1>0, <1>1 DEF HasFunctions
  <2> HIDE DEF F, above, lines
  <2> QED BY <2>2, FollowsIdle
<1>4. \A name : IsPlain(name) => Methods(c, name) = LinesFor(lines, name) /\ First(c, name) = FirstOf(lines, name)
  <2> SUFFICES ASSUME NEW name, IsPlain(name)
               PROVE  Methods(c, name) = LinesFor(lines, name) /\ First(c, name) = FirstOf(lines, name)
    OBVIOUS
  <2>1. Methods(c, name) = LinesFor(lines, name)
    BY DEF Methods, LinesFor, IsPlain
  <2> QED BY <2>1 DEF First, FirstOf
<1> HIDE DEF fs, n, lines, above, F
<1>5. ASSUME NEW f \in F
      PROVE  /\ f.vindex \in Int /\ f.body # Nobody
             /\ f.name \in {"init", "assign"} => f.vindex = -1
             /\ f.name = "delete" => f.of = c
             /\ \A g \in F : IsPlain(f.name) /\ g.name = f.name => g = f
  <2>1. IsFunction(f, c)
    BY <1>2, TableEntries DEF F
  <2>2. f.body # Nobody
    BY <1>3, <1>5 DEF Follows
  <2>3. ASSUME NEW g \in F, IsPlain(f.name), g.name = f.name
        PROVE  g = f
    <3>1. IsFunction(g, c)
      BY <1>2, TableEntries DEF F
    <3>2. f.params = <<>> /\ g.params = <<>>
      BY <2>1, <2>3, <3>1 DEF IsFunction, IsPlain
    <3>3. SameSignature(g, f)
      BY <2>3, <3>2 DEF SameSignature
    <3> QED BY <3>3, <1>2, TableEntries DEF F
  <2> QED BY <2>1, <2>2, <2>3 DEF IsFunction
<1>6. ASSUME NEW f \in F, IsPlain(f.name)
      PROVE  /\ Methods(c, f.name) # {} => f.of = c
             /\ Methods(c, f.name) = {} => f \in above
             /\ (\A g \in above : g.name # f.name) => (f.vindex >= 0 <=> IsVirtual(First(c, f.name)))
  <2>1. Methods(c, f.name) = LinesFor(lines, f.name) /\ First(c, f.name) = FirstOf(lines, f.name)
    BY <1>4, <1>6
  <2>2. IF LinesFor(lines, f.name) # {} THEN f.of = c ELSE f \in above
    BY <1>3, <1>6, Zenon DEF Follows
  <2>3. (\A g \in above : g.name # f.name) => (f.vindex >= 0 <=> IsVirtual(FirstOf(lines, f.name)))
    BY <1>3, <1>6, Zenon DEF Follows
  <2> QED BY <2>1, <2>2, <2>3
<1>7. ASSUME NEW name, IsPlain(name), Methods(c, name) # {}
      PROVE  \E f \in F : f.name = name
  <2>1. PICK k \in DOMAIN lines : lines[k].k = "func" /\ lines[k].f.name = name
    BY <1>4, <1>7 DEF LinesFor
  <2>2. \A j \in DOMAIN lines : lines[j].k = "func" /\ IsPlain(lines[j].f.name) => \E f \in F : f.name = lines[j].f.name
    BY <1>3 DEF Follows
  <2> QED BY <2>1, <2>2, <1>7
<1>8. \A g \in above : g.name \notin {"init", "assign"} => \E f \in F : f.name = g.name /\ f.vindex = g.vindex
  BY <1>3 DEF Follows
<1> QED BY <1>0, <1>5, <1>6, <1>7, <1>8 DEF above

(* A place in the table of a class is kept by all classes below. *)
PlaceKept(c) ==
  \A a \in Above(c) : \A f \in FunctionsOf(a) : f.name \notin {"init", "assign"} =>
     \E h \in FunctionsOf(c) : h.name = f.name /\ h.vindex = f.vindex

LEMMA PlacesKept ==
  ASSUME AllRead
  PROVE  \A c \in Classes : PlaceKept(c)
<1>0. TableInv /\ ParentsAreAbove
  BY DEF AllRead, FunctionInv
<1> DEFINE T == {c \in Classes : PlaceKept(c)}
<1>1. ASSUME NEW c \in Classes, Parent(c) = Nobody \/ Parent(c) \in T
      PROVE  c \in T
  <2> SUFFICES ASSUME NEW a \in Above(c), NEW f \in FunctionsOf(a), f.name \notin {"init", "assign"}
               PROVE  \E h \in FunctionsOf(c) : h.name = f.name /\ h.vindex = f.vindex
    BY DEF PlaceKept
  <2>1. CASE a = c
    BY <2>1
  <2>2. CASE a # c
    <3>1. Parent(c) \in T /\ a \in Above(Parent(c))
      BY <1>0, <1>1, <2>2, AboveParent
    <3>2. PICK g \in FunctionsOf(Parent(c)) : g.name = f.name /\ g.vindex = f.vindex
      BY <3>1 DEF PlaceKept
    <3>3. \E h \in FunctionsOf(c) : h.name = g.name /\ h.vindex = g.vindex
      BY <3>2, FunctionsAre
    <3> QED BY <3>2, <3>3
  <2> QED BY <2>1, <2>2
<1> HIDE DEF T
<1>2. Classes \subseteq T
  BY <1>0, <1>1, ParentInduction
<1> QED BY <1>2 DEF T

(* A function belongs to the lowest class that declares it. *)
OfLowest(c) ==
  \A f \in FunctionsOf(c) : IsPlain(f.name) =>
     f.of \in Declarers(c, f.name) /\ Declarers(c, f.name) \subseteq Above(f.of)

LEMMA LowestDeclares ==
  ASSUME AllRead
  PROVE  \A c \in Classes : OfLowest(c)
<1>0. TableInv /\ ParentsAreAbove
  BY DEF AllRead, FunctionInv
<1> DEFINE T == {c \in Classes : OfLowest(c)}
<1>1. ASSUME NEW c \in Classes, Parent(c) = Nobody \/ Parent(c) \in T
      PROVE  c \in T
  <2> SUFFICES ASSUME NEW f \in FunctionsOf(c), IsPlain(f.name)
               PROVE  f.of \in Declarers(c, f.name) /\ Declarers(c, f.name) \subseteq Above(f.of)
    BY DEF OfLowest
  <2>1. CASE Methods(c, f.name) # {}
    <3>1. f.of = c
      BY <2>1, FunctionsAre
    <3> QED BY <3>1, <2>1, <1>0, AboveIs DEF Declarers
  <2>2. CASE Methods(c, f.name) = {}
    <3>1. f \in FunctionsOf(Parent(c))
      BY <2>2, FunctionsAre
    <3>2. Parent(c) # Nobody /\ Parent(c) \in T
      BY <3>1, <1>1 DEF FunctionsOf
    <3>3. f.of \in Declarers(Parent(c), f.name) /\ Declarers(Parent(c), f.name) \subseteq Above(f.of)
      BY <3>1, <3>2 DEF OfLowest
    <3>4. Above(c) = {c} \cup Above(Parent(c))
      BY <3>2, <1>0, AboveParent
    <3>5. Declarers(c, f.name) = Declarers(Parent(c), f.name)
      BY <3>4, <2>2 DEF Declarers
    <3> QED BY <3>3, <3>5
  <2> QED BY <2>1, <2>2
<1> HIDE DEF T
<1>2. Classes \subseteq T
  BY <1>0, <1>1, ParentInduction
<1> QED BY <1>2 DEF T

(* A function is virtual as the highest class that declares it says. *)
IsHighest(t, S) == t \in S /\ \A b \in S : t \in Above(b)
AsHighest(c) ==
  \A f \in FunctionsOf(c) : IsPlain(f.name) =>
     \E t : IsHighest(t, Declarers(c, f.name)) /\ (f.vindex >= 0 <=> IsVirtual(First(t, f.name)))

LEMMA HighestDeclares ==
  ASSUME AllRead
  PROVE  \A c \in Classes : AsHighest(c)
<1>0. TableInv /\ ParentsAreAbove
  BY DEF AllRead, FunctionInv
<1> DEFINE T == {c \in Classes : AsHighest(c)}
<1>1. ASSUME NEW c \in Classes, Parent(c) = Nobody \/ Parent(c) \in T
      PROVE  c \in T
  <2> SUFFICES ASSUME NEW f \in FunctionsOf(c), IsPlain(f.name)
               PROVE  \E t : IsHighest(t, Declarers(c, f.name)) /\ (f.vindex >= 0 <=> IsVirtual(First(t, f.name)))
    BY DEF AsHighest
  <2> DEFINE p == Parent(c)
             name == f.name
  <2>1. CASE \E g \in FunctionsOf(p) : g.name = name
    <3>1. PICK g \in FunctionsOf(p) : g.name = name
      BY <2>1
    <3>2. p # Nobody /\ p \in T
      BY <3>1, <1>1 DEF FunctionsOf
    <3>3. PICK t : IsHighest(t, Declarers(p, name)) /\ (g.vindex >= 0 <=> IsVirtual(First(t, name)))
      BY <3>1, <3>2 DEF AsHighest
    <3>4. f.vindex = g.vindex
      <4>1. PICK h \in FunctionsOf(c) : h.name = g.name /\ h.vindex = g.vindex
        BY <3>1, FunctionsAre DEF IsPlain
      <4>2. h = f
        BY <4>1, <3>1, FunctionsAre
      <4> QED BY <4>1, <4>2
    <3>5. Above(c) = {c} \cup Above(p) /\ t \in Above(p)
      BY <3>2, <3>3, <1>0, AboveParent DEF IsHighest, Declarers
    <3>6. t \in Declarers(c, name)
      BY <3>3, <3>5 DEF IsHighest, Declarers
    <3>7. ASSUME NEW b \in Declarers(c, name)
          PROVE  t \in Above(b)
      <4>1. CASE b = c
        BY <4>1, <3>5
      <4>2. CASE b # c
        BY <4>2, <3>3, <3>5, <3>7 DEF IsHighest, Declarers
      <4> QED BY <4>1, <4>2
    <3> QED BY <3>3, <3>4, <3>6, <3>7 DEF IsHighest
  <2>2. CASE \A g \in FunctionsOf(p) : g.name # name
    <3>1. Methods(c, name) # {} /\ (f.vindex >= 0 <=> IsVirtual(First(c, name)))
      BY <2>2, FunctionsAre
    <3>2. c \in Declarers(c, name)
      BY <3>1, <1>0, AboveIs DEF Declarers
    <3>3. ASSUME NEW b \in Declarers(c, name)
          PROVE  b = c
      <4> SUFFICES ASSUME b # c
                   PROVE  FALSE
        OBVIOUS
      <4>1. p # Nobody /\ b \in Above(p) /\ Methods(b, name) # {}
        BY <3>3, <1>0, AboveParent DEF Declarers
      <4>2. p \in Classes /\ b \in Classes
        BY <4>1, <1>0, AboveIs
      <4>3. PICK g \in FunctionsOf(b) : g.name = name
        BY <4>1, <4>2, FunctionsAre
      <4>4. PlaceKept(p)
        BY <4>2, PlacesKept
      <4>5. \E h \in FunctionsOf(p) : h.name = g.name
        BY <4>1, <4>3, <4>4 DEF PlaceKept, IsPlain
      <4> QED BY <4>3, <4>5, <2>2
    <3>4. IsHighest(c, Declarers(c, name))
      BY <3>2, <3>3, <1>0, AboveIs DEF IsHighest
    <3> QED BY <3>1, <3>4
  <2> QED BY <2>1, <2>2
<1> HIDE DEF T
<1>2. Classes \subseteq T
  BY <1>0, <1>1, ParentInduction
<1> QED BY <1>2 DEF T

LEMMA LowestHighest ==
  ASSUME TableInv, ParentsAreAbove, NEW S \in SUBSET Classes, NEW x \in S
  PROVE  /\ S \subseteq Above(x) => Lowest(S) = x
         /\ IsHighest(x, S) => Highest(S) = x
<1>1. \A a, b \in S : a \in Above(b) /\ b \in Above(a) => a = b
  BY AboveOnce
<1>2. ASSUME S \subseteq Above(x)
      PROVE  Lowest(S) = x
  <2>1. \A a \in S : S \subseteq Above(a) => a = x
    BY <1>1, <1>2
  <2> QED BY <2>1, <1>2 DEF Lowest
<1>3. ASSUME IsHighest(x, S)
      PROVE  Highest(S) = x
  <2>1. (\A b \in S : x \in Above(b)) /\ \A a \in S : (\A b \in S : a \in Above(b)) => a = x
    BY <1>1, <1>3 DEF IsHighest
  <2> QED BY <2>1 DEF Highest
<1> QED BY <1>2, <1>3

(* A call of a virtual function, compiled for any class above an object's own,
   reaches the last override on the way down to the object's class, the
   destructor of that class if it is one, and never a function without a body;
   and a function is virtual exactly if its first declaration says so
   (Class::derive_from, add_function, link_virtual_table). *)
THEOREM VirtualCallsHold ==
  ASSUME WithinLimits
  PROVE  Spec => []VirtualCalls
<1>1. TableInv /\ FunctionInv /\ ReadWhole => VirtualCalls
  <2> SUFFICES ASSUME TableInv, FunctionInv, ReadWhole, NEW c \in Compiled, NEW a \in Above(c),
                      NEW f \in ToSet(classes[a].functions)
               PROVE  LET declarers == Declarers(c, f.name)
                          reached == IF f.vindex >= 0 THEN Entry(c, f.vindex) ELSE f
                      IN /\ reached.name = f.name /\ reached.body # Nobody
                         /\ f.name = "delete" /\ f.vindex >= 0 => reached.of = c
                         /\ f.name \notin {"init", "assign", "delete"} =>
                               /\ reached.of = Lowest(IF f.vindex >= 0 THEN declarers ELSE Declarers(a, f.name))
                               /\ f.vindex >= 0 <=> IsVirtual(First(Highest(declarers), f.name))
    BY DEF VirtualCalls
  <2> DEFINE name == f.name
             declarers == Declarers(c, name)
             reached == IF f.vindex >= 0 THEN Entry(c, f.vindex) ELSE f
  <2>0. c \in Classes /\ phase = "compiled" /\ AllRead /\ ParentsAreAbove
    BY DEF Compiled, ReadWhole, AllRead, FunctionInv
  <2>1. a \in Classes /\ f \in FunctionsOf(a)
    <3>1. a \in Classes /\ a # Nobody
      BY <2>0, AboveIs, TableConstants DEF Classes, Nobody
    <3> QED BY <3>1 DEF FunctionsOf
  <2>2. /\ f.vindex \in Int /\ f.body # Nobody
        /\ name \in {"init", "assign"} => f.vindex = -1
    BY <2>0, <2>1, FunctionsAre
  <2>3. name \notin {"init", "assign"} => \E h \in FunctionsOf(c) : h.name = name /\ h.vindex = f.vindex
    BY <2>0, <2>1, PlacesKept DEF PlaceKept
  <2>4. /\ reached.name = name /\ reached.body # Nobody
        /\ name = "delete" /\ f.vindex >= 0 => reached.of = c
        /\ f.vindex >= 0 => reached \in FunctionsOf(c)
    <3>1. CASE f.vindex >= 0
      <4>1. PICK h \in FunctionsOf(c) : h.name = name /\ h.vindex = f.vindex
        BY <3>1, <2>2, <2>3
      <4>2. h \in ToSet(classes[c].functions)
        BY <4>1 DEF FunctionsOf
      <4>3. Entry(c, h.vindex) = h
        BY <4>1, <4>2, <3>1, <2>0 DEF FunctionInv, TablesLinked
      <4>4. reached = h
        BY <3>1, <4>1, <4>3
      <4>5. h.body # Nobody /\ (h.name = "delete" => h.of = c)
        BY <4>1, <2>0, FunctionsAre
      <4> QED BY <4>1, <4>4, <4>5
    <3>2. CASE ~(f.vindex >= 0)
      BY <3>2, <2>2
    <3> QED BY <3>1, <3>2
  <2>5. ASSUME IsPlain(name)
        PROVE  reached.of = Lowest(IF f.vindex >= 0 THEN declarers ELSE Declarers(a, name))
    <3> DEFINE b == IF f.vindex >= 0 THEN c ELSE a
    <3>1. b \in Classes /\ reached \in FunctionsOf(b) /\ reached.name = name
      BY <2>0, <2>1, <2>4
    <3> PICK r : r = reached
      OBVIOUS
    <3> HIDE DEF reached
    <3>2. r.of \in Declarers(b, name) /\ Declarers(b, name) \subseteq Above(r.of)
      <4> HIDE DEF b
      <4>1. OfLowest(b)
        BY <3>1, <2>0, LowestDeclares
      <4> QED BY <4>1, <3>1, <2>5 DEF OfLowest
    <3>3. Declarers(b, name) \in SUBSET Classes
      <4> HIDE DEF b
      <4> QED BY <3>1, <2>0, AboveIs DEF Declarers
    <3> DEFINE S == Declarers(b, name)
    <3>4. S = IF f.vindex >= 0 THEN declarers ELSE Declarers(a, name)
      OBVIOUS
    <3>5. r.of \in S /\ S \subseteq Above(r.of) /\ S \in SUBSET Classes
      BY <3>2, <3>3
    <3> HIDE DEF S
    <3>6. Lowest(S) = r.of
      BY <3>5, <2>0, LowestHighest
    <3> QED BY <3>4, <3>6
  <2>6. ASSUME IsPlain(name)
        PROVE  f.vindex >= 0 <=> IsVirtual(First(Highest(declarers), name))
    <3>1. PICK h \in FunctionsOf(c) : h.name = name /\ h.vindex = f.vindex
      BY <2>3, <2>6 DEF IsPlain
    <3>2. AsHighest(c)
      BY <2>0, HighestDeclares
    <3>3. PICK t : IsHighest(t, declarers) /\ (h.vindex >= 0 <=> IsVirtual(First(t, name)))
      BY <3>1, <3>2, <2>6 DEF AsHighest
    <3>4. declarers \in SUBSET Classes /\ t \in declarers
      BY <2>0, <3>3, AboveIs DEF Declarers, IsHighest
    <3> HIDE DEF declarers
    <3>5. Highest(declarers) = t
      BY <3>3, <3>4, <2>0, LowestHighest
    <3> QED BY <3>1, <3>3, <3>5
  <2> QED BY <2>4, <2>5, <2>6 DEF IsPlain
<1> QED BY <1>1, TableInvariant, FunctionsInvariant, ReadWholeHolds, PTL
=============================================================================
