------------------------- MODULE ClassLayoutProofs --------------------------
(***************************************************************************)
(* Why every class lies in memory as its declaration says: proofs about     *)
(* ClassTable and LinkedClasses, for all texts, types and bounds.          *)
(***************************************************************************)
EXTENDS LinkedClasses, SequenceTheorems, WellFoundedInduction, TLAPS

LEMMA Remainder ==
  ASSUME NEW o \in Nat, NEW a \in Nat, a > 0
  PROVE  o % a \in 0..(a - 1) /\ \E q \in Nat : o = a * q + (o % a)
<1>1. o % a \in 0..(a - 1)
  OBVIOUS
<1>2. o \div a \in Nat /\ o = a * (o \div a) + (o % a)
  OBVIOUS
<1> QED BY <1>1, <1>2

LEMMA MultipleHasNoRemainder ==
  ASSUME NEW q \in Nat, NEW a \in Nat, a > 0
  PROVE  (a * q) % a = 0
OBVIOUS

LEMMA MemAligned ==
  ASSUME NEW o \in Nat, NEW a \in Nat, a > 0
  PROVE  MemAlign(o, a) \in Nat /\ MemAlign(o, a) >= o /\ MemAlign(o, a) % a = 0
<1>1. o % a \in 0..(a - 1) /\ \E q \in Nat : o = a * q + (o % a)
  BY Remainder
<1> PICK q \in Nat : o = a * q + (o % a)
  BY <1>1
<1>2. CASE o % a = 0
  BY <1>1, <1>2 DEF MemAlign
<1>3. CASE o % a # 0
  <2>1. MemAlign(o, a) = o + (a - (o % a))
    BY <1>1, <1>3 DEF MemAlign
  <2>2. MemAlign(o, a) = a * (q + 1)
    BY <2>1, <1>1
  <2>3. q + 1 \in Nat /\ (a * (q + 1)) % a = 0
    BY MultipleHasNoRemainder
  <2> QED BY <1>1, <2>1, <2>2, <2>3
<1> QED BY <1>2, <1>3

LEMMA SumIsMultiple ==
  ASSUME NEW x \in Nat, NEW y \in Nat, NEW a \in Nat, a > 0, x % a = 0, y % a = 0
  PROVE  (x + y) % a = 0
<1> PICK q \in Nat : x = a * q + (x % a)
  BY Remainder
<1> PICK r \in Nat : y = a * r + (y % a)
  BY Remainder
<1>1. x + y = a * (q + r)
  OBVIOUS
<1>2. q + r \in Nat /\ (a * (q + r)) % a = 0
  BY MultipleHasNoRemainder
<1> QED BY <1>1, <1>2

-----------------------------------------------------------------------------
(* Induction, by least elements of sets of numbers. *)
LEMMA LeastNumber ==
  ASSUME NEW T, T \subseteq Nat, T # {}
  PROVE  \E x \in T : \A y \in T : x <= y
<1> DEFINE R == {pair \in Nat \X Nat : pair[1] < pair[2]}
<1>1. IsWellFoundedOn(R, Nat)
  BY NatLessThanWellFounded DEF OpToRel
<1> HIDE DEF R
<1>2. PICK x \in T : \A y \in T : ~ (<<y, x>> \in R)
  BY <1>1, WFMin
<1>3. ASSUME NEW y \in T
      PROVE  x <= y
  <2>1. ~ (<<y, x>> \in R)
    BY <1>2
  <2> QED BY <2>1 DEF R
<1> QED BY <1>3

LEMMA Induction ==
  ASSUME NEW S, 0 \in S, \A n \in Nat : n \in S => n + 1 \in S
  PROVE  Nat \subseteq S
<1> SUFFICES ASSUME Nat \ S # {}
             PROVE  FALSE
  OBVIOUS
<1>1. PICK x \in Nat \ S : \A y \in Nat \ S : x <= y
  BY LeastNumber
<1>2. x # 0
  BY <1>1
<1>3. x - 1 \in S
  BY <1>1, <1>2
<1> QED BY <1>1, <1>2, <1>3

(* Alignments are powers of two: the larger of two is a multiple of the other. *)
LEMMA Powers ==
  /\ Alignments \subseteq Nat \ {0} /\ 1 \in Alignments
  /\ \A a, b \in Alignments : a <= b => b % a = 0
  /\ \A a \in Alignments : PointerSize % a = 0 /\ a <= PointerSize
<1>1. Alignments \subseteq Nat \ {0} /\ 1 \in Alignments
  BY TableConstants DEF Alignments
<1>2. \A n \in Nat : n % 1 = 0
  OBVIOUS
<1>3. ASSUME NEW a \in Alignments, NEW b \in Alignments, a <= b
      PROVE  b % a = 0
  <2>1. CASE a = 1
    BY <2>1, <1>1, <1>2
  <2>2. CASE a # 1
    <3>1. b # 1
      BY <2>2, <1>1, <1>3
    <3>2. PICK s \in DOMAIN Basic : a = Basic[s].align
      BY <2>2 DEF Alignments
    <3>3. PICK t \in DOMAIN Basic : b = Basic[t].align
      BY <3>1 DEF Alignments
    <3> QED BY <3>2, <3>3, <1>3, TableConstants
  <2> QED BY <2>1, <2>2
<1>4. ASSUME NEW a \in Alignments
      PROVE  PointerSize % a = 0 /\ a <= PointerSize
  <2>1. PointerSize % a = 0
    <3>1. CASE a = 1
      BY <3>1, <1>2, TableConstants
    <3>2. CASE a # 1
      BY <3>2, TableConstants DEF Alignments
    <3> QED BY <3>1, <3>2
  <2>2. PointerSize \in Nat /\ PointerSize > 0
    BY TableConstants
  <2>3. PICK q \in Nat : PointerSize = a * q + (PointerSize % a)
    <3>1. a \in Nat /\ a > 0
      BY <1>1
    <3> QED BY <2>2, <3>1, Remainder
  <2>4. q # 0 /\ PointerSize = a * q
    BY <1>1, <2>1, <2>2, <2>3
  <2>5. a <= a * q
    BY <1>1, <2>4
  <2> QED BY <2>1, <2>4, <2>5
<1> QED BY <1>1, <1>3, <1>4

LEMMA StrictestIsMultiple ==
  ASSUME NEW S, S \subseteq Alignments, S # {}
  PROVE  Strictest(S) \in S /\ \A b \in S : Strictest(S) % b = 0
<1>0. S \subseteq Nat /\ PointerSize \in Nat /\ \A a \in S : a <= PointerSize
  BY Powers, TableConstants
<1> DEFINE T == {n \in Nat : PointerSize - n \in S}
<1>1. T # {}
  <2> PICK a \in S : TRUE
    OBVIOUS
  <2>1. PointerSize - a \in Nat /\ PointerSize - (PointerSize - a) = a
    BY <1>0
  <2> QED BY <2>1
<1>2. PICK n \in T : \A m \in T : n <= m
  BY <1>1, LeastNumber
<1>3. ASSUME NEW b \in S
      PROVE  b <= PointerSize - n
  <2>1. PointerSize - b \in Nat /\ PointerSize - (PointerSize - b) = b
    BY <1>0
  <2>2. n <= PointerSize - b
    BY <2>1, <1>2
  <2> QED BY <2>1, <2>2, <1>0
<1>4. Strictest(S) \in S /\ \A b \in S : b <= Strictest(S)
  BY <1>2, <1>3 DEF Strictest
<1> QED BY <1>4, Powers

-----------------------------------------------------------------------------
(* What does not move the elements of a class. *)
SameShape(a, b) ==
  /\ DOMAIN a = DOMAIN NewClass /\ DOMAIN b = DOMAIN NewClass
  /\ a.parent = b.parent /\ a.meta = b.meta /\ a.elements = b.elements
  /\ a.size = b.size /\ a.align = b.align /\ a.parsed = b.parsed
SameLayout(a, b) == SameShape(a, b) /\ a.vtable = b.vtable
Fields == {"parent", "meta", "elements", "functions", "initial", "vtable", "size", "align", "parsed", "chunk", "needs"}

LEMMA NewClassFields == DOMAIN NewClass = Fields
  BY DEF NewClass, Fields

LEMMA SameLayoutReflexive ==
  ASSUME NEW a, DOMAIN a = DOMAIN NewClass
  PROVE  SameLayout(a, a)
  BY DEF SameLayout, SameShape

LEMMA SameLayoutTransitive ==
  ASSUME NEW a, NEW b, NEW c, SameLayout(a, b), SameLayout(b, c)
  PROVE  SameLayout(a, c)
  BY DEF SameLayout, SameShape

LEMMA FunctionsShape ==
  ASSUME NEW cl, DOMAIN cl = DOMAIN NewClass, NEW fs
  PROVE  SameLayout(cl, [cl EXCEPT !.functions = fs])
  BY NewClassFields DEF SameLayout, SameShape, Fields

LEMMA AddFunctionShape ==
  ASSUME NEW cl, DOMAIN cl = DOMAIN NewClass, NEW f, NEW virtual, NEW override
  PROVE  SameShape(cl, AddFunction(cl, f, virtual, override))
  BY NewClassFields DEF SameShape, Fields, AddFunction

LEMMA InitializeShape ==
  ASSUME NEW cl, DOMAIN cl = DOMAIN NewClass, NEW name, NEW how
  PROVE  SameLayout(cl, Initialize(cl, name, how))
  BY NewClassFields DEF SameLayout, SameShape, Fields, Initialize

LEMMA AddHeaderShape ==
  ASSUME NEW cl, DOMAIN cl = DOMAIN NewClass, NEW c, NEW name, NEW params, NEW body
  PROVE  SameLayout(cl, AddHeader(cl, c, name, params, body))
  BY FunctionsShape DEF AddHeader

LEMMA AddConstructorsShape ==
  ASSUME NEW cl, DOMAIN cl = DOMAIN NewClass, NEW c
  PROVE  SameLayout(cl, AddConstructors(cl, c))
<1> DEFINE own == IF cl.parent = Nobody THEN cl
                  ELSE IF UserConstructors(cl) # <<>> THEN RemoveInherited(cl) ELSE RedefineInherited(cl, c)
           default == IF NeedsConstructor(own) THEN AddHeader(own, c, "init", <<>>, "auto") ELSE own
           params == [i \in DOMAIN cl.elements |-> cl.elements[i].type]
           full == AddHeader(default, c, "init", params, "fill")
<1>1. SameLayout(cl, own)
  BY FunctionsShape, SameLayoutReflexive DEF RemoveInherited, RedefineInherited
<1>2. SameLayout(cl, default)
  <2>1. DOMAIN own = DOMAIN NewClass
    BY <1>1 DEF SameLayout, SameShape
  <2> HIDE DEF own
  <2>2. SameLayout(own, AddHeader(own, c, "init", <<>>, "auto"))
    BY <2>1, AddHeaderShape
  <2> QED BY <1>1, <2>1, <2>2, SameLayoutTransitive
<1>3. SameLayout(cl, full)
  <2>1. DOMAIN default = DOMAIN NewClass
    BY <1>2 DEF SameLayout, SameShape
  <2> HIDE DEF default, params
  <2>2. SameLayout(default, full)
    BY <2>1, AddHeaderShape
  <2> QED BY <1>2, <2>2, SameLayoutTransitive
<1>4. AddConstructors(cl, c) \in {own, default, full}
  BY DEF AddConstructors
<1> HIDE DEF own, default, full
<1> QED BY <1>1, <1>2, <1>3, <1>4

LEMMA AddDestructorShape ==
  ASSUME NEW cl, DOMAIN cl = DOMAIN NewClass, NEW c
  PROVE  SameLayout(cl, AddDestructor(cl, c)) /\ SameLayout(cl, AddAssign(cl, c))
  BY AddHeaderShape, SameLayoutReflexive DEF AddDestructor, AddAssign

LEMMA MissingHeadersShape ==
  ASSUME NEW cl, DOMAIN cl = DOMAIN NewClass, NEW c
  PROVE  SameLayout(cl, AddMissingHeaders(cl, c))
<1> DEFINE made == AddConstructors(cl, c)
           freed == AddDestructor(made, c)
           assigned == AddAssign(freed, c)
           plain == AddHeader(cl, c, "init", <<>>, "auto")
<1>1. SameLayout(cl, made) /\ DOMAIN made = DOMAIN NewClass
  BY AddConstructorsShape DEF SameLayout, SameShape
<1>2. SameLayout(cl, freed) /\ DOMAIN freed = DOMAIN NewClass
  <2> HIDE DEF made
  <2>1. SameLayout(made, freed)
    BY <1>1, AddDestructorShape
  <2> QED BY <1>1, <2>1, SameLayoutTransitive DEF SameLayout, SameShape
<1>3. SameLayout(cl, assigned)
  <2> HIDE DEF freed
  <2>1. SameLayout(freed, assigned)
    BY <1>2, AddDestructorShape
  <2> QED BY <1>2, <2>1, SameLayoutTransitive
<1>4. SameLayout(cl, plain) /\ SameLayout(cl, cl)
  BY AddHeaderShape, SameLayoutReflexive
<1>5. AddMissingHeaders(cl, c) \in {cl, plain, freed, assigned}
  <2> HIDE DEF plain, freed, assigned
  <2>1. CASE cl.meta = "struct"
    BY <2>1 DEF AddMissingHeaders, assigned, freed, made
  <2>2. CASE cl.meta # "struct" /\ CanMemcpy(cl)
    BY <2>2 DEF AddMissingHeaders, plain
  <2>3. CASE cl.meta # "struct" /\ ~CanMemcpy(cl)
    BY <2>3 DEF AddMissingHeaders, freed, made
  <2> QED BY <2>1, <2>2, <2>3
<1> HIDE DEF plain, freed, assigned
<1> QED BY <1>2, <1>3, <1>4, <1>5

(* Types have alignments and sizes. *)
LEMMA KnownTypes ==
  ASSUME TableType, NEW t \in Types
  PROVE  Align(t) \in Alignments /\ Align(t) \in Nat /\ Align(t) > 0 /\ Size(t) \in Nat
<1>1. Align(t) \in Alignments /\ Size(t) \in Nat
  <2>1. CASE t \in DOMAIN Basic
    <3>1. Basic[t].size \in Nat
      BY <2>1, TableConstants
    <3> QED BY <2>1, <3>1 DEF Align, Size, IsBasic, Alignments
  <2>2. CASE t \notin DOMAIN Basic
    <3>1. IsClass(classes[t])
      BY <2>2 DEF Types, TableType
    <3> QED BY <2>2, <3>1 DEF Align, Size, IsBasic, IsClass
  <2> QED BY <2>1, <2>2
<1>2. \A a \in Alignments : a \in Nat /\ a > 0
  BY Powers
<1> QED BY <1>1, <1>2

LEMMA PlacedBehind ==
  ASSUME TableType, NEW t \in Types, NEW end \in Nat
  PROVE  /\ MemAlign(end, Align(t)) \in Nat /\ MemAlign(end, Align(t)) >= end
         /\ MemAlign(end, Align(t)) % Align(t) = 0
         /\ MemAlign(end, Align(t)) + Size(t) \in Nat
<1> DEFINE a == Align(t)
<1>1. a \in Nat /\ a > 0 /\ Size(t) \in Nat
  BY KnownTypes
<1> HIDE DEF a
<1>2. MemAlign(end, a) \in Nat /\ MemAlign(end, a) >= end /\ MemAlign(end, a) % a = 0
  BY <1>1, MemAligned
<1> QED BY <1>1, <1>2 DEF a

LEMMA ElementFields ==
  ASSUME NEW es \in Seq(ElementSet), NEW i \in DOMAIN es
  PROVE  /\ es[i] \in ElementSet /\ es[i].type \in Types /\ es[i].offset \in Nat
         /\ es[i] = Element(es[i].name, es[i].type, es[i].offset)
<1>1. es[i] \in ElementSet
  BY ElementOfSeq, LenProperties
<1> QED BY <1>1 DEF ElementSet, Element

(* The ends of a trait's elements, one after the other. *)
LEMMA TraitEndsAre ==
  ASSUME TableType, NEW cl, cl.size \in Nat, NEW trait, trait.elements \in Seq(ElementSet)
  PROVE  LET es == trait.elements
             end == TraitEnds(cl, trait)
         IN /\ \A i \in 0..Len(es) : end[i] \in Nat
            /\ end[0] = cl.size
            /\ \A i \in 1..Len(es) : end[i] = MemAlign(end[i - 1], Align(es[i].type)) + Size(es[i].type)
<1> DEFINE es == trait.elements
           N == Len(es)
           Next1(n, i) == MemAlign(n, Align(es[i].type)) + Size(es[i].type)
           Good(f, n) == f[0] = cl.size /\ \A i \in 1..n : f[i] = Next1(f[i - 1], i)
           end == TraitEnds(cl, trait)
<1>0. N \in Nat /\ \A i \in 1..N : \A n \in Nat : Next1(n, i) \in Nat
  <2>1. N \in Nat /\ DOMAIN es = 1..N
    BY LenProperties
  <2>2. ASSUME NEW i \in 1..N, NEW n \in Nat
        PROVE  Next1(n, i) \in Nat
    <3>1. es[i].type \in Types
      BY <2>1, ElementFields
    <3> QED BY <3>1, PlacedBehind
  <2> QED BY <2>1, <2>2
<1> DEFINE Upto == {n \in Nat : n <= N => \E f \in [0..n -> Nat] : Good(f, n)}
<1>1. N \in Upto
  <2> HIDE DEF es, N, Next1
  <2>1. 0 \in Upto
    <3>1. [i \in 0..0 |-> cl.size] \in [0..0 -> Nat] /\ Good([i \in 0..0 |-> cl.size], 0)
      OBVIOUS
    <3> QED BY <3>1
  <2>2. ASSUME NEW n \in Nat, n \in Upto
        PROVE  n + 1 \in Upto
    <3> HIDE DEF Good
    <3> SUFFICES ASSUME n + 1 <= N
                 PROVE  \E f \in [0..n + 1 -> Nat] : Good(f, n + 1)
      OBVIOUS
    <3>0. n <= N
      BY <1>0
    <3> PICK f \in [0..n -> Nat] : Good(f, n)
      BY <3>0, <2>2
    <3> USE DEF Good
    <3> DEFINE g == [i \in 0..n + 1 |-> IF i <= n THEN f[i] ELSE Next1(f[n], n + 1)]
    <3>1. g \in [0..n + 1 -> Nat]
      BY <1>0
    <3>2. Good(g, n + 1)
      <4>1. g[0] = cl.size
        OBVIOUS
      <4>2. ASSUME NEW i \in 1..n + 1
            PROVE  g[i] = Next1(g[i - 1], i)
        <5>1. CASE i <= n
          BY <5>1
        <5>2. CASE i = n + 1
          <6>1. g[i - 1] = f[n] /\ g[i] = Next1(f[n], n + 1)
            BY <5>2
          <6> QED BY <6>1, <5>2
        <5> QED BY <5>1, <5>2
      <4> QED BY <4>1, <4>2
    <3> QED BY <3>1, <3>2
  <2> HIDE DEF Upto
  <2> QED BY <2>1, <2>2, <1>0, Induction
<1>2. PICK f \in [0..N -> Nat] : Good(f, N)
  BY <1>0, <1>1
<1>3. f = [i \in 0..N |-> IF i = 0 THEN cl.size ELSE Next1(f[i - 1], i)]
  <2> HIDE DEF es, N, Next1
  <2>1. \A i \in 0..N : f[i] = IF i = 0 THEN cl.size ELSE Next1(f[i - 1], i)
    BY <1>0, <1>2
  <2> QED BY <2>1
<1>4. end = [i \in 0..N |-> IF i = 0 THEN cl.size ELSE Next1(end[i - 1], i)]
  BY <1>3 DEF TraitEnds
<1>5. end[0] = cl.size /\ \A i \in 1..N : end[i] = Next1(end[i - 1], i)
  <2> HIDE DEF es, N, Next1, end
  <2>1. 0 \in 0..N /\ \A i \in 1..N : i \in 0..N /\ i # 0
    BY <1>0
  <2>2. end[0] = cl.size
    BY <2>1, <1>4, Zenon
  <2>3. ASSUME NEW i \in 1..N
        PROVE  end[i] = Next1(end[i - 1], i)
    <3>1. i \in 0..N /\ i # 0
      BY <2>1
    <3> QED BY <3>1, <1>4, Zenon
  <2> QED BY <2>2, <2>3
<1>6. \A i \in 0..N : end[i] \in Nat
  <2> DEFINE S == {n \in Nat : n <= N => end[n] \in Nat}
  <2> HIDE DEF es, N, Next1, end
  <2>1. 0 \in S
    BY <1>5
  <2>2. ASSUME NEW n \in Nat, n \in S
        PROVE  n + 1 \in S
    <3> SUFFICES ASSUME n + 1 <= N
                 PROVE  end[n + 1] \in Nat
      OBVIOUS
    <3>1. end[n + 1] = Next1(end[n], n + 1) /\ end[n] \in Nat /\ n + 1 \in 1..N
      BY <1>0, <1>5, <2>2
    <3> QED BY <3>1, <1>0
  <2>3. Nat \subseteq S
    <3> HIDE DEF S
    <3> QED BY <2>1, <2>2, Induction
  <2> QED BY <1>0, <2>3
<1> QED BY <1>5, <1>6

-----------------------------------------------------------------------------
(* The stack of the classes being read. *)
LEMMA StackFacts ==
  ASSUME TableType
  PROVE  /\ open \in Seq(FrameSet) /\ Len(open) \in Nat /\ DOMAIN open = 1..Len(open)
         /\ \A i \in DOMAIN open : open[i] \in FrameSet
         /\ open # <<>> => Len(open) \in DOMAIN open /\ Final(open) = open[Len(open)]
<1>1. open \in Seq(FrameSet)
  BY DEF TableType
<1>2. Len(open) \in Nat /\ DOMAIN open = 1..Len(open) /\ \A i \in DOMAIN open : open[i] \in FrameSet
  BY <1>1, LenProperties, ElementOfSeq
<1>3. open # <<>> => Len(open) # 0
  BY <1>1, EmptySeq
<1> QED BY <1>1, <1>2, <1>3 DEF Final

LEMMA FrameFields ==
  ASSUME NEW f \in FrameSet
  PROVE  /\ f.class \in Classes /\ f.end \in Nat /\ f.later \in Seq(Headers) /\ f.closed \in BOOLEAN
         /\ f.stage \in Nat
  BY DEF FrameSet

LEMMA Replaced ==
  ASSUME TableType, open # <<>>, NEW f \in FrameSet
  PROVE  /\ Replace(f) \in Seq(FrameSet) /\ Len(Replace(f)) = Len(open)
         /\ DOMAIN Replace(f) = DOMAIN open
         /\ Replace(f)[Len(open)] = f
         /\ \A i \in DOMAIN open : i # Len(open) => Replace(f)[i] = open[i]
<1>1. Len(open) \in 1..Len(open) /\ open \in Seq(FrameSet) /\ DOMAIN open = 1..Len(open)
  BY StackFacts
<1>2. /\ Replace(f) \in Seq(FrameSet) /\ Len(Replace(f)) = Len(open)
      /\ \A j \in 1..Len(open) : Replace(f)[j] = IF j = Len(open) THEN f ELSE open[j]
  BY <1>1, ExceptSeq DEF Replace
<1> QED BY <1>1, <1>2, LenProperties

LEMMA Pushed ==
  ASSUME NEW frames \in Seq(FrameSet), NEW f \in FrameSet
  PROVE  /\ Append(frames, f) \in Seq(FrameSet)
         /\ DOMAIN frames = 1..Len(frames) /\ Len(frames) \in Nat
         /\ DOMAIN Append(frames, f) = 1..(Len(frames) + 1)
         /\ Append(frames, f)[Len(frames) + 1] = f
         /\ \A i \in DOMAIN frames : Append(frames, f)[i] = frames[i]
<1>1. /\ Append(frames, f) \in Seq(FrameSet) /\ Len(Append(frames, f)) = Len(frames) + 1
      /\ Append(frames, f)[Len(frames) + 1] = f
      /\ \A i \in 1..Len(frames) : Append(frames, f)[i] = frames[i]
  BY AppendProperties
<1> QED BY <1>1, LenProperties

LEMMA Popped ==
  ASSUME TableType, open # <<>>
  PROVE  /\ Front(open) \in Seq(FrameSet) /\ Len(Front(open)) = Len(open) - 1
         /\ DOMAIN Front(open) = 1..(Len(open) - 1)
         /\ \A i \in 1..(Len(open) - 1) : Front(open)[i] = open[i]
<1>1. Len(open) \in 1..Len(open) /\ open \in Seq(FrameSet) /\ DOMAIN open = 1..Len(open) /\ Len(open) \in Nat
  BY StackFacts
<1>2. \A i \in 1..(Len(open) - 1) : open[i] \in FrameSet
  BY <1>1, StackFacts
<1>3. /\ SubSeq(open, 1, Len(open) - 1) \in Seq(FrameSet)
      /\ Len(SubSeq(open, 1, Len(open) - 1)) = IF 1 <= Len(open) - 1 THEN (Len(open) - 1) - 1 + 1 ELSE 0
      /\ \A i \in 1..((Len(open) - 1) - 1 + 1) : SubSeq(open, 1, Len(open) - 1)[i] = open[1 + i - 1]
  <2> DEFINE n == Len(open) - 1
  <2>1. n \in Int
    BY <1>1
  <2> HIDE DEF n
  <2>2. \A i \in 1..n : open[i] \in FrameSet
    BY <1>2 DEF n
  <2>3. /\ SubSeq(open, 1, n) \in Seq(FrameSet)
        /\ Len(SubSeq(open, 1, n)) = IF 1 <= n THEN n - 1 + 1 ELSE 0
        /\ \A i \in 1..(n - 1 + 1) : SubSeq(open, 1, n)[i] = open[1 + i - 1]
    BY <2>1, <2>2, SubSeqProperties
  <2> QED BY <2>3 DEF n
<1>4. Len(Front(open)) = Len(open) - 1 /\ Front(open) \in Seq(FrameSet)
  BY <1>1, <1>3 DEF Front
<1>5. \A i \in 1..(Len(open) - 1) : Front(open)[i] = open[i]
  BY <1>1, <1>3 DEF Front
<1> QED BY <1>4, <1>5, LenProperties

(* Types that are not the class that changes stay as they are. *)
LEMMA TypesStay ==
  ASSUME TableType, NEW c \in Classes, NEW cl, classes' = [classes EXCEPT ![c] = cl]
  PROVE  /\ classes'[c] = cl /\ \A d \in Classes : d # c => classes'[d] = classes[d]
         /\ \A t \in Types : t # c => Align(t)' = Align(t) /\ Size(t)' = Size(t)
<1>1. classes'[c] = cl /\ \A d \in Classes : d # c => classes'[d] = classes[d]
  BY DEF TableType
<1>2. ASSUME NEW t \in Types, t # c
      PROVE  Align(t)' = Align(t) /\ Size(t)' = Size(t)
  <2>1. CASE t \in DOMAIN Basic
    BY <2>1 DEF Align, Size, IsBasic
  <2>2. CASE t \notin DOMAIN Basic
    <3>1. classes'[t] = classes[t]
      BY <1>1, <1>2, <2>2 DEF Types
    <3> QED BY <2>2, <3>1 DEF Align, Size, IsBasic
  <2> QED BY <2>1, <2>2
<1> QED BY <1>1, <1>2

(* A class on the stack, or one that is not parsed, is part of no other. *)
LEMMA NobodyUses ==
  ASSUME TableInv, NEW c \in Classes, IsOpen(c) \/ ~classes[c].parsed
  PROVE  \A d \in Classes : c \notin UsedBy(d)
  BY DEF TableInv, UsersWait

LEMMA UsedTypes ==
  ASSUME TableType, NEW d \in Classes, NEW c \in Classes, c \notin UsedBy(d)
  PROVE  /\ \A e \in ToSet(classes[d].elements) : e \in ElementSet /\ e.type \in Types /\ e.type # c
         /\ classes[d].parent # c /\ text[d].header.trait # c
<1>1. classes[d].elements \in Seq(ElementSet)
  BY DEF TableType, IsClass
<1>2. ASSUME NEW e \in ToSet(classes[d].elements)
      PROVE  e \in ElementSet /\ e.type \in Types /\ e.type # c
  <2>1. PICK i \in DOMAIN classes[d].elements : e = classes[d].elements[i]
    BY DEF ToSet
  <2>2. e \in ElementSet /\ e.type \in Types
    BY <1>1, <2>1, ElementFields
  <2> QED BY <2>2 DEF UsedBy
<1> QED BY <1>2 DEF UsedBy

LEMMA LaidStays ==
  ASSUME TableType, NEW c \in Classes, NEW cl, classes' = [classes EXCEPT ![c] = cl],
         NEW k, \A e \in ToSet(k.elements) : e.type \in Types /\ e.type # c, NEW end
  PROVE  /\ Laid(k, end) => Laid(k, end)'
         /\ Whole(k) => Whole(k)'
<1>1. \A t \in Types : t # c => Align(t)' = Align(t) /\ Size(t)' = Size(t)
  BY TypesStay
<1>2. \A i \in DOMAIN k.elements : k.elements[i] \in ToSet(k.elements)
  BY DEF ToSet
<1>3. \A e \in ToSet(k.elements) : Align(e.type)' = Align(e.type) /\ Size(e.type)' = Size(e.type)
  BY <1>1
<1>4. ASSUME NEW n, Laid(k, n)
      PROVE  Laid(k, n)'
  BY <1>2, <1>3, <1>4 DEF Laid
<1>5. ASSUME Whole(k)
      PROVE  Whole(k)'
  <2>1. Laid(k, k.size)'
    BY <1>4, <1>5 DEF Whole
  <2> QED BY <2>1, <1>3, <1>5 DEF Whole
<1> QED BY <1>4, <1>5

(* Whatever happens to a class that is part of no other, the others keep their shape. *)
LEMMA OthersStay ==
  ASSUME TableType, NEW c \in Classes, NEW cl, classes' = [classes EXCEPT ![c] = cl],
         \A d \in Classes : c \notin UsedBy(d),
         NEW d \in Classes, d # c
  PROVE  /\ classes'[d] = classes[d]
         /\ \A n \in Nat : Laid(classes[d], n) => Laid(classes[d], n)'
         /\ Whole(classes[d]) => Whole(classes[d])'
         /\ Extends(d) => Extends(d)'
         /\ FromParent(d)' = FromParent(d)
<1>1. classes'[d] = classes[d]
  BY TypesStay
<1>2. \A e \in ToSet(classes[d].elements) : e.type \in Types /\ e.type # c
  BY UsedTypes
<1>3. \A k : (\A e \in ToSet(k.elements) : e.type \in Types /\ e.type # c) =>
         /\ Whole(k) => Whole(k)'
         /\ \A n : Laid(k, n) => Laid(k, n)'
  BY LaidStays
<1>4. classes[d].parent = Nobody \/ classes'[classes[d].parent] = classes[classes[d].parent]
  <2>1. classes[d].parent # c /\ classes[d].parent \in Classes \cup {Nobody}
    BY UsedTypes DEF TableType, IsClass
  <2> QED BY <2>1, TypesStay
<1>5. (Extends(d) => Extends(d)') /\ FromParent(d)' = FromParent(d)
  BY <1>1, <1>4 DEF Extends, FromParent, Parent
<1>6. Whole(classes[d]) => Whole(classes[d])'
  BY <1>1, <1>2, <1>3
<1>7. \A n \in Nat : Laid(classes[d], n) => Laid(classes[d], n)'
  BY <1>1, <1>2, <1>3
<1> QED BY <1>1, <1>5, <1>6, <1>7

-----------------------------------------------------------------------------
(* The order of elements, for elements behind "from" and lines that declare them. *)
ShownBehind(es, from) == {i \in DOMAIN es : i > from /\ ~Hidden(es[i])}
VariablesOf(lines) == {k \in DOMAIN lines : lines[k].k = "var"}
Ordered(es, from, lines) ==
  /\ \A k \in VariablesOf(lines) : \E i \in ShownBehind(es, from) : es[i].name = lines[k].name
  /\ \A i \in ShownBehind(es, from) : \E k \in VariablesOf(lines) : es[i].name = lines[k].name
  /\ \A i, j \in ShownBehind(es, from) : \A k, l \in VariablesOf(lines) :
        es[i].name = lines[k].name /\ es[j].name = lines[l].name => (i < j <=> k < l)

LEMMA InOrderIsOrdered ==
  ASSUME NEW c \in Classes
  PROVE  InOrder(c) <=> Ordered(classes[c].elements, FromParent(c), Written(c))
<1>1. Shown(c) = ShownBehind(classes[c].elements, FromParent(c)) /\ Variables(c) = VariablesOf(Written(c))
  BY DEF Shown, Own, ShownBehind, Variables, VariablesOf
<1>2. \A i, k : IsFor(c, i, k) <=> classes[c].elements[i].name = Written(c)[k].name
  BY DEF IsFor
<1>3. InOrder(c) => Ordered(classes[c].elements, FromParent(c), Written(c))
  BY <1>1, <1>2, SMTT(40) DEF InOrder, Ordered
<1>4. Ordered(classes[c].elements, FromParent(c), Written(c)) => InOrder(c)
  BY <1>1, <1>2 DEF InOrder, Ordered
<1> QED BY <1>3, <1>4

(* One more line that declares nothing. *)
LEMMA OrderedSkips ==
  ASSUME NEW es, NEW from, NEW lines, NEW more, NEW n \in Nat,
         DOMAIN lines = 1..n, DOMAIN more = 1..(n + 1), \A k \in 1..n : more[k] = lines[k],
         more[n + 1].k # "var", Ordered(es, from, lines)
  PROVE  Ordered(es, from, more)
<1>1. VariablesOf(more) = VariablesOf(lines) /\ \A k \in VariablesOf(lines) : more[k] = lines[k]
  BY DEF VariablesOf
<1> HIDE DEF VariablesOf
<1>2. \A k \in VariablesOf(lines) : more[k].name = lines[k].name
  BY <1>1
<1> QED BY <1>1, <1>2 DEF Ordered

(* One more line, and the element it declares. *)
LEMMA OrderedGrows ==
  ASSUME NEW es, NEW from \in Nat, NEW lines, NEW more, NEW n \in Nat, NEW es2, NEW m \in Nat,
         DOMAIN lines = 1..n, DOMAIN more = 1..(n + 1), \A k \in 1..n : more[k] = lines[k],
         DOMAIN es = 1..m, DOMAIN es2 = 1..(m + 1), \A i \in 1..m : es2[i] = es[i], from <= m,
         more[n + 1].k = "var", es2[m + 1].name = more[n + 1].name, ~Hidden(es2[m + 1]),
         \A k \in VariablesOf(lines) : lines[k].name # more[n + 1].name,
         Ordered(es, from, lines)
  PROVE  Ordered(es2, from, more)
<1> DEFINE V == VariablesOf(lines)
           S == ShownBehind(es, from)
           V2 == VariablesOf(more)
           S2 == ShownBehind(es2, from)
<1>1. V2 = V \cup {n + 1} /\ V \subseteq 1..n
  BY DEF VariablesOf
<1>2. S2 = S \cup {m + 1} /\ S \subseteq 1..m
  <2>1. \A i \in 1..m : Hidden(es2[i]) <=> Hidden(es[i])
    OBVIOUS
  <2> QED BY <2>1 DEF ShownBehind
<1>3. \A k \in V : more[k] = lines[k] /\ lines[k].name # more[n + 1].name
  BY <1>1
<1>4. \A i \in S : es2[i] = es[i] /\ es[i].name # es2[m + 1].name
  <2>1. ASSUME NEW i \in S
        PROVE  es2[i] = es[i] /\ es[i].name # es2[m + 1].name
    <3>1. PICK k \in V : es[i].name = lines[k].name
      BY DEF Ordered
    <3> QED BY <1>2, <1>3, <3>1
  <2> QED BY <2>1
<1>5. \A k \in V2 : \E i \in S2 : es2[i].name = more[k].name
  <2>1. ASSUME NEW k \in V
        PROVE  \E i \in S2 : es2[i].name = more[k].name
    <3>1. PICK i \in S : es[i].name = lines[k].name
      BY DEF Ordered
    <3> QED BY <1>2, <1>3, <1>4, <3>1
  <2> HIDE DEF V, V2, S, S2
  <2> QED BY <1>1, <1>2, <2>1
<1>6. \A i \in S2 : \E k \in V2 : es2[i].name = more[k].name
  <2>1. ASSUME NEW i \in S
        PROVE  \E k \in V2 : es2[i].name = more[k].name
    <3>1. PICK k \in V : es[i].name = lines[k].name
      BY DEF Ordered
    <3> QED BY <1>1, <1>3, <1>4, <3>1
  <2> HIDE DEF V, V2, S, S2
  <2> QED BY <1>1, <1>2, <2>1
<1>7. ASSUME NEW i \in S2, NEW j \in S2, NEW k \in V2, NEW l \in V2,
             es2[i].name = more[k].name, es2[j].name = more[l].name
      PROVE  i < j <=> k < l
  <2>1. ASSUME NEW x \in S2, NEW y \in V2, es2[x].name = more[y].name
        PROVE  \/ x = m + 1 /\ y = n + 1
               \/ x \in S /\ y \in V /\ es[x].name = lines[y].name
    <3> HIDE DEF V, V2, S, S2
    <3>1. x \in S \/ x = m + 1
      BY <1>2
    <3>2. y \in V \/ y = n + 1
      BY <1>1
    <3>3. x \in S => es2[x] = es[x] /\ es[x].name # more[n + 1].name
      BY <1>4
    <3>4. y \in V => more[y] = lines[y] /\ lines[y].name # more[n + 1].name
      BY <1>3
    <3> QED BY <3>1, <3>2, <3>3, <3>4, <2>1
  <2>2. \/ i = m + 1 /\ k = n + 1
        \/ i \in S /\ k \in V /\ es[i].name = lines[k].name
    BY <2>1, <1>7
  <2>3. \/ j = m + 1 /\ l = n + 1
        \/ j \in S /\ l \in V /\ es[j].name = lines[l].name
    BY <2>1, <1>7
  <2>4. \A x, y \in S : \A z, w \in V :
           es[x].name = lines[z].name /\ es[y].name = lines[w].name => (x < y <=> z < w)
    BY DEF Ordered
  <2>5. \A x \in S : x \in Nat /\ x < m + 1
    BY <1>2
  <2>6. \A y \in V : y \in Nat /\ y < n + 1
    BY <1>1
  <2> HIDE DEF V, V2, S, S2
  <2> QED BY <2>2, <2>3, <2>4, <2>5, <2>6, SMTT(40)
<1> QED BY <1>5, <1>6, <1>7 DEF Ordered

(* The same elements behind others. *)
LEMMA OrderedShifts ==
  ASSUME NEW es, NEW m \in Nat, DOMAIN es = 1..m, NEW from \in Nat, NEW es2, NEW lines,
         NEW skipped \in Nat, skipped >= from, DOMAIN es2 = 1..(skipped + m),
         \A i \in 1..m : es2[skipped + i].name = es[i].name,
         \A i \in 1..skipped : i > from => Hidden(es2[i]),
         VariablesOf(lines) \subseteq Nat,
         Ordered(es, 0, lines)
  PROVE  Ordered(es2, from, lines)
<1> DEFINE S == ShownBehind(es, 0)
           S2 == ShownBehind(es2, from)
           V == VariablesOf(lines)
<1>1. \A i \in S : i \in Nat /\ skipped + i \in S2 /\ es2[skipped + i].name = es[i].name
  BY DEF ShownBehind, Hidden
<1>2. \A i \in S2 : i - skipped \in S /\ es[i - skipped].name = es2[i].name /\ i \in Nat
  <2>1. ASSUME NEW i \in S2
        PROVE  i - skipped \in S /\ es[i - skipped].name = es2[i].name /\ i \in Nat
    <3>1. i \in 1..(skipped + m) /\ i > from /\ ~Hidden(es2[i])
      BY DEF ShownBehind
    <3>2. i > skipped
      BY <3>1
    <3>3. i - skipped \in 1..m /\ skipped + (i - skipped) = i
      BY <3>1, <3>2
    <3>4. es[i - skipped].name = es2[i].name
      BY <3>3
    <3> QED BY <3>1, <3>3, <3>4 DEF ShownBehind, Hidden
  <2> QED BY <2>1
<1>3. /\ \A k \in V : \E i \in S : es[i].name = lines[k].name
      /\ \A i \in S : \E k \in V : es[i].name = lines[k].name
      /\ \A i, j \in S : \A k, l \in V :
            es[i].name = lines[k].name /\ es[j].name = lines[l].name => (i < j <=> k < l)
  BY DEF Ordered
<1> HIDE DEF S, S2, V
<1>4. ASSUME NEW k \in V
      PROVE  \E i \in S2 : es2[i].name = lines[k].name
  <2>1. PICK i \in S : es[i].name = lines[k].name
    BY <1>3
  <2> QED BY <2>1, <1>1
<1>5. ASSUME NEW i \in S2
      PROVE  \E k \in V : es2[i].name = lines[k].name
  <2>1. PICK k \in V : es[i - skipped].name = lines[k].name
    BY <1>2, <1>3
  <2> QED BY <2>1, <1>2
<1>6. ASSUME NEW i \in S2, NEW j \in S2, NEW k \in V, NEW l \in V,
             es2[i].name = lines[k].name, es2[j].name = lines[l].name
      PROVE  i < j <=> k < l
  <2>1. i - skipped < j - skipped <=> k < l
    <3>1. /\ i - skipped \in S /\ es[i - skipped].name = lines[k].name
          /\ j - skipped \in S /\ es[j - skipped].name = lines[l].name
      BY <1>2, <1>6
    <3> QED BY <3>1, <1>3
  <2>2. i \in Nat /\ j \in Nat
    BY <1>2
  <2> QED BY <2>1, <2>2
<1> QED BY <1>4, <1>5, <1>6 DEF Ordered, S, S2, V

-----------------------------------------------------------------------------
(* A class grows by one element behind the others. *)
HasGrown(new, cl, name, type) ==
  LET m == Len(cl.elements)
  IN /\ IsClass(new) /\ new.parent = cl.parent /\ new.meta = cl.meta /\ new.parsed = cl.parsed
     /\ m \in Nat /\ DOMAIN cl.elements = 1..m /\ DOMAIN new.elements = 1..(m + 1)
     /\ \A i \in 1..m : new.elements[i] = cl.elements[i]
     /\ new.elements[m + 1].name = name /\ new.elements[m + 1].type = type
     /\ End(new) \in Nat /\ Laid(new, End(new))

LEMMA AddElementLaid ==
  ASSUME TableType, NEW cl, IsClass(cl), NEW end \in Nat, Laid(cl, end), NEW type \in Types,
         NEW name \in (Classes \X Nat) \cup {VtableVar.name}
  PROVE  HasGrown(AddElement(cl, end, name, type), cl, name, type)
<1> DEFINE new == AddElement(cl, end, name, type)
           m == Len(cl.elements)
           place == MemAlign(end, Align(type))
           e == Element(name, type, place)
<1>1. place \in Nat /\ place >= end /\ place % Align(type) = 0 /\ place + Size(type) \in Nat
  BY PlacedBehind
<1>2. e \in ElementSet /\ e.name = name /\ e.type = type /\ e.offset = place
  <2> HIDE DEF place
  <2> QED BY <1>1 DEF ElementSet, Element
<1>3. /\ DOMAIN new = DOMAIN NewClass /\ new.parent = cl.parent /\ new.meta = cl.meta /\ new.parsed = cl.parsed
      /\ new.size = cl.size /\ new.align = cl.align /\ new.elements = Append(cl.elements, e)
  <2> HIDE DEF e
  <2>1. new = [cl EXCEPT !.elements = Append(@, e)]
    BY DEF AddElement, e
  <2> QED BY <2>1, NewClassFields DEF IsClass, Fields
<1>4. cl.elements \in Seq(ElementSet)
  BY DEF IsClass
<1>5. /\ Append(cl.elements, e) \in Seq(ElementSet) /\ Len(Append(cl.elements, e)) = m + 1
      /\ Append(cl.elements, e)[m + 1] = e /\ \A i \in 1..m : Append(cl.elements, e)[i] = cl.elements[i]
  <2> HIDE DEF e
  <2> QED BY <1>2, <1>4, AppendProperties
<1>6. m \in Nat /\ DOMAIN cl.elements = 1..m /\ DOMAIN new.elements = 1..(m + 1) /\ Len(new.elements) = m + 1
  <2> HIDE DEF e
  <2> QED BY <1>3, <1>4, <1>5, LenProperties
<1>7. IsClass(new)
  <2> HIDE DEF new, e
  <2> QED BY <1>3, <1>5 DEF IsClass
<1> HIDE DEF new, e, place
<1>8. End(new) = place + Size(type)
  BY <1>2, <1>3, <1>5, <1>6 DEF End, Final
<1>9. Laid(new, End(new))
  <2> SUFFICES ASSUME NEW i \in 1..(m + 1)
               PROVE  LET f == new.elements[i]
                      IN /\ f.offset % Align(f.type) = 0
                         /\ f.offset + Size(f.type) <= IF i < m + 1 THEN new.elements[i + 1].offset ELSE End(new)
    BY <1>6 DEF Laid
  <2>1. CASE i = m + 1
    BY <2>1, <1>1, <1>2, <1>3, <1>5, <1>6, <1>8
  <2>2. CASE i # m + 1
    <3>1. i \in 1..m /\ new.elements[i] = cl.elements[i] /\ cl.elements[i] \in ElementSet
      BY <2>2, <1>3, <1>4, <1>5, <1>6, ElementOfSeq
    <3>2. /\ cl.elements[i].offset % Align(cl.elements[i].type) = 0
          /\ cl.elements[i].offset + Size(cl.elements[i].type) <= IF i < m THEN cl.elements[i + 1].offset ELSE end
      BY <3>1, <1>6 DEF Laid
    <3>3. CASE i < m
      <4>1. i + 1 \in 1..m /\ new.elements[i + 1] = cl.elements[i + 1]
        BY <3>1, <3>3, <1>3, <1>5, <1>6
      <4> QED BY <3>1, <3>2, <3>3, <4>1, <1>6
    <3>4. CASE i = m
      <4>1. new.elements[i + 1].offset = place
        BY <3>4, <1>2, <1>3, <1>5
      <4>2. cl.elements[i].offset \in Nat /\ Size(cl.elements[i].type) \in Nat
        BY <3>1, KnownTypes DEF ElementSet
      <4> QED BY <3>1, <3>2, <3>4, <4>1, <4>2, <1>1, <1>6
    <3> QED BY <3>1, <3>3, <3>4, <1>6
  <2> QED BY <2>1, <2>2
<1> QED BY <1>2, <1>3, <1>5, <1>6, <1>7, <1>8, <1>1, <1>9 DEF HasGrown, new

(* A class takes the elements of its trait. *)
LEMMA TraitElementsAre ==
  ASSUME TableType, NEW cl, cl.size \in Nat, NEW trait, trait.elements \in Seq(ElementSet)
  PROVE  LET es == trait.elements
             end == TraitEnds(cl, trait)
             new == TraitElements(cl, trait)
         IN /\ new \in Seq(ElementSet) /\ Len(new) = Len(es)
            /\ \A i \in 1..Len(es) :
                  /\ new[i].name = es[i].name /\ new[i].type = es[i].type
                  /\ new[i].offset % Align(es[i].type) = 0
                  /\ new[i].offset >= end[i - 1]
                  /\ new[i].offset + Size(es[i].type) = end[i]
<1> DEFINE es == trait.elements
           end == TraitEnds(cl, trait)
           new == TraitElements(cl, trait)
           place(i) == MemAlign(end[i - 1], Align(es[i].type))
           made(i) == Element(es[i].name, es[i].type, place(i))
<1>1. Len(es) \in Nat /\ DOMAIN es = 1..Len(es)
  BY LenProperties
<1>2. new = [i \in 1..Len(es) |-> made(i)]
  BY <1>1 DEF TraitElements
<1>3. /\ \A i \in 0..Len(es) : end[i] \in Nat
      /\ \A i \in 1..Len(es) : end[i] = place(i) + Size(es[i].type)
  BY TraitEndsAre
<1>4. ASSUME NEW i \in 1..Len(es)
      PROVE  /\ made(i) \in ElementSet /\ made(i).name = es[i].name /\ made(i).type = es[i].type
             /\ made(i).offset = place(i) /\ place(i) % Align(es[i].type) = 0 /\ place(i) >= end[i - 1]
  <2>1. es[i] \in ElementSet /\ es[i].type \in Types
    BY <1>1, ElementFields
  <2>2. i - 1 \in 0..Len(es)
    BY <1>1
  <2>3. end[i - 1] \in Nat
    BY <2>2, <1>3
  <2>4. place(i) \in Nat /\ place(i) >= end[i - 1] /\ place(i) % Align(es[i].type) = 0
    <3> HIDE DEF end, es
    <3> QED BY <2>1, <2>3, PlacedBehind DEF place
  <2> HIDE DEF place, es
  <2> QED BY <2>1, <2>4 DEF made, Element, ElementSet
<1> HIDE DEF made, place
<1>5. new \in [1..Len(es) -> ElementSet]
  <2> HIDE DEF new
  <2> QED BY <1>2, <1>4
<1>6. new \in Seq(ElementSet) /\ Len(new) = Len(es)
  <2> HIDE DEF new, es
  <2> QED BY <1>1, <1>5
<1>7. ASSUME NEW i \in 1..Len(es)
      PROVE  /\ new[i].name = es[i].name /\ new[i].type = es[i].type
             /\ new[i].offset % Align(es[i].type) = 0
             /\ new[i].offset >= end[i - 1]
             /\ new[i].offset + Size(es[i].type) = end[i]
  <2>1. new[i] = made(i)
    BY <1>2
  <2> HIDE DEF new, end, es
  <2> QED BY <2>1, <1>3, <1>4
<1> QED BY <1>6, <1>7

HasTaken(new, cl, trait) ==
  LET m == Len(cl.elements)
      n == Len(trait.elements)
  IN /\ IsClass(new) /\ new.parent = cl.parent /\ new.meta = cl.meta /\ new.parsed = cl.parsed
     /\ m \in Nat /\ n \in Nat /\ DOMAIN cl.elements = 1..m /\ DOMAIN trait.elements = 1..n
     /\ DOMAIN new.elements = 1..(m + n)
     /\ \A i \in 1..m : new.elements[i] = cl.elements[i]
     /\ \A i \in 1..n : /\ new.elements[m + i].name = trait.elements[i].name
                        /\ new.elements[m + i].type = trait.elements[i].type
     /\ Laid(new, new.size)

LEMMA TraitLaid ==
  ASSUME TableType, NEW cl, IsClass(cl), Laid(cl, cl.size), NEW c, NEW trait, IsClass(trait)
  PROVE  HasTaken(ImplementTrait(cl, c, trait), cl, trait)
<1> DEFINE new == ImplementTrait(cl, c, trait)
           m == Len(cl.elements)
           n == Len(trait.elements)
           more == TraitElements(cl, trait)
           end == TraitEnds(cl, trait)
<1>0. /\ cl.elements \in Seq(ElementSet) /\ trait.elements \in Seq(ElementSet) /\ cl.size \in Nat
      /\ m \in Nat /\ n \in Nat /\ DOMAIN cl.elements = 1..m /\ DOMAIN trait.elements = 1..n
  BY LenProperties DEF IsClass
<1>1. /\ more \in Seq(ElementSet) /\ Len(more) = n
      /\ \A i \in 1..n :
            /\ more[i].name = trait.elements[i].name /\ more[i].type = trait.elements[i].type
            /\ more[i].offset % Align(trait.elements[i].type) = 0
            /\ more[i].offset >= end[i - 1]
            /\ more[i].offset + Size(trait.elements[i].type) = end[i]
  BY <1>0, TraitElementsAre
<1>2. (\A i \in 0..n : end[i] \in Nat) /\ end[0] = cl.size
  BY <1>0, TraitEndsAre
<1> HIDE DEF more, end
<1>3. /\ DOMAIN new = DOMAIN NewClass /\ new.parent = cl.parent /\ new.meta = cl.meta /\ new.parsed = cl.parsed
      /\ new.align = cl.align /\ new.size = end[n] /\ new.elements = cl.elements \o more
  BY NewClassFields DEF ImplementTrait, IsClass, Fields, more, end
<1>4. /\ cl.elements \o more \in Seq(ElementSet)
      /\ Len(cl.elements \o more) = m + n
      /\ \A i \in 1..m + n : (cl.elements \o more)[i] = IF i <= m THEN cl.elements[i] ELSE more[i - m]
  <2>1. /\ cl.elements \o more \in Seq(ElementSet)
        /\ Len(cl.elements \o more) = Len(cl.elements) + Len(more)
        /\ \A i \in 1..Len(cl.elements) + Len(more) :
              (cl.elements \o more)[i] = IF i <= Len(cl.elements) THEN cl.elements[i] ELSE more[i - Len(cl.elements)]
    <3> DEFINE es == cl.elements
    <3>1. es \in Seq(ElementSet) /\ more \in Seq(ElementSet)
      BY <1>0, <1>1
    <3> HIDE DEF es
    <3>2. /\ es \o more \in Seq(ElementSet)
          /\ Len(es \o more) = Len(es) + Len(more)
          /\ \A i \in 1..Len(es) + Len(more) : (es \o more)[i] = IF i <= Len(es) THEN es[i] ELSE more[i - Len(es)]
      BY <3>1, ConcatProperties
    <3> QED BY <3>2 DEF es
  <2> QED BY <2>1, <1>1
<1>5. IsClass(new)
  <2>1. end[n] \in Nat
    BY <1>0, <1>2
  <2> HIDE DEF new, n
  <2> QED BY <1>3, <1>4, <2>1 DEF IsClass
<1> HIDE DEF new, m, n
<1>6. DOMAIN new.elements = 1..(m + n) /\ Len(new.elements) = m + n
  BY <1>3, <1>4, LenProperties
<1>7. \A i \in 1..m : new.elements[i] = cl.elements[i]
  BY <1>0, <1>3, <1>4
<1>8. \A i \in 1..n : new.elements[m + i] = more[i]
  <2>1. ASSUME NEW i \in 1..n
        PROVE  new.elements[m + i] = more[i]
    <3>1. m + i \in 1..m + n /\ ~(m + i <= m) /\ (m + i) - m = i
      BY <1>0
    <3> QED BY <3>1, <1>3, <1>4
  <2> QED BY <2>1
<1>9. Laid(new, new.size)
  <2> SUFFICES ASSUME NEW i \in 1..(m + n)
               PROVE  LET f == new.elements[i]
                      IN /\ f.offset % Align(f.type) = 0
                         /\ f.offset + Size(f.type) <= IF i < m + n THEN new.elements[i + 1].offset ELSE end[n]
    BY <1>3, <1>6 DEF Laid
  <2>1. CASE i < m
    <3>1. i \in 1..m /\ i + 1 \in 1..m
      BY <2>1, <1>0
    <3>2. new.elements[i] = cl.elements[i] /\ new.elements[i + 1] = cl.elements[i + 1]
      BY <3>1, <1>7
    <3>3. /\ cl.elements[i].offset % Align(cl.elements[i].type) = 0
          /\ cl.elements[i].offset + Size(cl.elements[i].type) <= cl.elements[i + 1].offset
      BY <2>1, <3>1, <1>0 DEF Laid, m
    <3> QED BY <2>1, <3>2, <3>3, <1>0
  <2>2. CASE i = m
    <3>1. new.elements[i] = cl.elements[i] /\ i \in 1..m
      BY <2>2, <1>0, <1>7
    <3>2. /\ cl.elements[i].offset % Align(cl.elements[i].type) = 0
          /\ cl.elements[i].offset + Size(cl.elements[i].type) <= cl.size
      BY <2>2, <3>1, <1>0 DEF Laid, m
    <3>3. CASE n = 0
      BY <2>2, <3>1, <3>2, <3>3, <1>0, <1>2
    <3>4. CASE n # 0
      <4>1. 1 \in 1..n /\ 1 - 1 = 0
        BY <3>4, <1>0
      <4>2. more[1].offset >= cl.size /\ new.elements[m + 1] = more[1]
        BY <4>1, <1>1, <1>2, <1>8
      <4>3. more[1] \in ElementSet /\ cl.elements[i] \in ElementSet
        BY <4>1, <3>1, <1>0, <1>1, ElementOfSeq DEF m
      <4>4. cl.elements[i].offset \in Nat /\ Size(cl.elements[i].type) \in Nat /\ more[1].offset \in Nat
        BY <4>3, KnownTypes DEF ElementSet
      <4> QED BY <2>2, <3>1, <3>2, <3>4, <4>2, <4>4, <1>0
    <3> QED BY <3>3, <3>4
  <2>3. CASE i > m
    <3> DEFINE j == i - m
    <3>1. j \in 1..n /\ i = m + j
      BY <2>3, <1>0
    <3> HIDE DEF j
    <3>2. new.elements[i] = more[j]
      BY <3>1, <1>8
    <3>3. /\ more[j].type = trait.elements[j].type /\ more[j].offset % Align(more[j].type) = 0
          /\ more[j].offset + Size(more[j].type) = end[j]
      BY <3>1, <1>1
    <3>4. CASE j = n
      BY <3>1, <3>2, <3>3, <3>4, <1>0, <1>2
    <3>5. CASE j # n
      <4>1. j + 1 \in 1..n /\ (j + 1) - 1 = j /\ i + 1 = m + (j + 1) /\ i < m + n
        BY <3>1, <3>5, <1>0
      <4>2. more[j + 1].offset >= end[j] /\ new.elements[i + 1] = more[j + 1]
        <5> DEFINE k == j + 1
        <5>1. k \in 1..n /\ k - 1 = j /\ i + 1 = m + k
          BY <4>1
        <5> HIDE DEF k
        <5>2. more[k].offset >= end[k - 1] /\ new.elements[m + k] = more[k]
          BY <5>1, <1>1, <1>8
        <5> QED BY <5>1, <5>2 DEF k
      <4>3. more[j + 1] \in ElementSet
        BY <4>1, <1>1, ElementOfSeq
      <4>4. more[j + 1].offset \in Nat /\ end[j] \in Nat
        BY <4>3, <3>1, <1>0, <1>2 DEF ElementSet
      <4> QED BY <3>2, <3>3, <4>1, <4>2, <4>4
    <3> QED BY <3>4, <3>5
  <2> QED BY <2>1, <2>2, <2>3, <1>0
<1> QED BY <1>0, <1>1, <1>3, <1>5, <1>6, <1>7, <1>8, <1>9 DEF HasTaken, new, m, n

(* The prefix of a sequence, by its entries. *)
LEMMA PrefixByEntries ==
  ASSUME NEW S, NEW s \in Seq(S), NEW t \in Seq(S)
  PROVE  IsPrefix(s, t) <=> Len(s) <= Len(t) /\ \A i \in 1..Len(s) : t[i] = s[i]
<1>1. Len(s) \in Nat /\ Len(t) \in Nat
  BY LenProperties
<1>2. ASSUME Len(s) <= Len(t)
      PROVE  /\ SubSeq(s, 1, Len(s)) = s
             /\ SubSeq(t, 1, Len(s)) \in Seq(S) /\ Len(SubSeq(t, 1, Len(s))) = Len(s)
             /\ \A i \in 1..Len(s) : SubSeq(t, 1, Len(s))[i] = t[i]
  <2> DEFINE n == Len(s)
  <2>1. n \in Int /\ \A i \in 1..n : t[i] \in S
    BY <1>1, <1>2, ElementOfSeq
  <2>2. /\ SubSeq(t, 1, n) \in Seq(S)
        /\ Len(SubSeq(t, 1, n)) = IF 1 <= n THEN n - 1 + 1 ELSE 0
        /\ \A i \in 1..n - 1 + 1 : SubSeq(t, 1, n)[i] = t[1 + i - 1]
    <3> HIDE DEF n
    <3> QED BY <2>1, SubSeqProperties
  <2>3. SubSeq(s, 1, n) = s
    BY SubSeqFull
  <2>4. n \in Nat
    BY <1>1
  <2>5. n - 1 + 1 = n /\ Len(SubSeq(t, 1, n)) = n
    <3> HIDE DEF n
    <3> QED BY <2>2, <2>4
  <2>6. \A i \in 1..n : SubSeq(t, 1, n)[i] = t[i]
    <3> HIDE DEF n
    <3> QED BY <2>2, <2>4
  <2> QED BY <2>2, <2>3, <2>5, <2>6
<1>3. ASSUME IsPrefix(s, t)
      PROVE  Len(s) <= Len(t) /\ \A i \in 1..Len(s) : t[i] = s[i]
  BY <1>2, <1>3 DEF IsPrefix
<1>4. ASSUME Len(s) <= Len(t), \A i \in 1..Len(s) : t[i] = s[i]
      PROVE  IsPrefix(s, t)
  <2>1. SubSeq(t, 1, Len(s)) = s
    BY <1>2, <1>4, SeqEqual
  <2> QED BY <1>2, <1>4, <2>1 DEF IsPrefix
<1> QED BY <1>3, <1>4

(* What a new class begins with: nothing, or the elements of its parent. *)
Blank(meta) == [NewClass EXCEPT !.meta = meta]

LEMMA BlankFields ==
  ASSUME NEW meta
  PROVE  /\ IsClass(Blank(meta)) /\ Blank(meta).parent = Nobody /\ Blank(meta).meta = meta
         /\ Blank(meta).elements = <<>>
<1> DEFINE new == Blank(meta)
<1>1. /\ DOMAIN new = DOMAIN NewClass /\ new.parent = Nobody /\ new.meta = meta /\ new.elements = <<>> /\ new.size = 0
      /\ new.align = 1 /\ new.parsed = FALSE
  BY NewClassFields DEF NewClass, Fields, Blank
<1> HIDE DEF new
<1>2. new.align \in Alignments /\ new.elements \in Seq(ElementSet)
  <2>1. 1 \in Alignments /\ <<>> \in Seq(ElementSet)
    BY Powers, EmptySeq
  <2> QED BY <1>1, <2>1
<1>3. new.parsed \in BOOLEAN
  BY <1>1, Zenon
<1>4. new.size \in Nat /\ new.parent \in Classes \cup {Nobody}
  BY <1>1
<1>5. IsClass(new)
  BY <1>1, <1>2, <1>3, <1>4 DEF IsClass
<1> QED BY <1>1, <1>5 DEF new

HasDerived(cl, new, p) ==
  /\ DOMAIN cl = DOMAIN NewClass /\ cl.parent = p /\ cl.meta = new.meta
  /\ cl.elements = classes[p].elements /\ cl.size = classes[p].size
  /\ cl.align = new.align /\ cl.parsed = classes[p].parsed

LEMMA DerivedFields ==
  ASSUME NEW new, DOMAIN new = DOMAIN NewClass, NEW c, NEW p
  PROVE  HasDerived(DeriveFrom(new, c, p), new, p)
  BY NewClassFields DEF HasDerived, DeriveFrom, Fields

LEMMA HeaderNames ==
  ASSUME NEW h \in Headers
  PROVE  /\ h.extends = Nobody \/ h.extends \in Classes
         /\ h.trait = Nobody \/ h.trait \in Classes
         /\ h.extends # h.name /\ h.trait # h.name
         /\ Nobody \notin Classes
         /\ h.meta = "trait" => h.extends = Nobody /\ h.trait = Nobody
<1>1. {h.extends, h.trait} \subseteq (Classes \cup {Nobody}) \ {h.name}
  BY TableConstants DEF Classes, Nobody
<1>2. h.meta = "trait" => h.extends = Nobody /\ h.trait = Nobody
  BY TableConstants DEF Nobody
<1>3. Classes \cap (DOMAIN Basic \cup {Nobody}) = {}
  BY TableConstants DEF Classes, Nobody
<1> QED BY <1>1, <1>2, <1>3

(* The parents and traits that a header may name. *)
Finished(c) == c = Nobody \/ (c \in Classes /\ classes[c].parsed /\ ~IsOpen(c))

LEMMA FinalIsWhole ==
  ASSUME TableInv, NEW c \in Classes, ~IsOpen(c)
  PROVE  Whole(classes[c]) /\ IsClass(classes[c]) /\ classes[c].elements \in Seq(ElementSet)
  BY DEF TableInv, TableType, SoFar, InWork, IsOpen, IsClass

LEMMA RealizedIs ==
  ASSUME TableInv, NEW h \in Headers, Finished(h.extends), Finished(h.trait)
  PROVE  LET cl == Realized(h)
             from == IF h.extends = Nobody THEN 0 ELSE Len(classes[h.extends].elements)
             n == IF h.trait = Nobody THEN 0 ELSE Len(classes[h.trait].elements)
         IN /\ IsClass(cl) /\ cl.parent = h.extends /\ cl.meta = h.meta
            /\ from \in Nat /\ n \in Nat /\ DOMAIN cl.elements = 1..(from + n)
            /\ h.extends # Nobody => \A i \in 1..from : cl.elements[i] = classes[h.extends].elements[i]
            /\ h.trait # Nobody => \A i \in 1..n :
                  /\ cl.elements[from + i].name = classes[h.trait].elements[i].name
                  /\ cl.elements[from + i].type = classes[h.trait].elements[i].type
            /\ Laid(cl, cl.size)
<1> DEFINE new == Blank(h.meta)
           derived == IF h.extends = Nobody THEN new ELSE DeriveFrom(new, h.name, h.extends)
           from == IF h.extends = Nobody THEN 0 ELSE Len(classes[h.extends].elements)
           n == IF h.trait = Nobody THEN 0 ELSE Len(classes[h.trait].elements)
           cl == Realized(h)
<1>0. TableType
  BY DEF TableInv
<1>b. IsClass(new) /\ new.parent = Nobody /\ new.meta = h.meta /\ new.elements = <<>>
  BY BlankFields
<1>r. cl = IF h.trait = Nobody THEN derived ELSE ImplementTrait(derived, h.name, classes[h.trait])
  BY DEF Realized, Derived, Blank
<1> HIDE DEF new
<1>1. /\ IsClass(derived) /\ derived.parent = h.extends /\ derived.meta = h.meta
      /\ from \in Nat /\ DOMAIN derived.elements = 1..from
      /\ h.extends # Nobody => derived.elements = classes[h.extends].elements
      /\ Laid(derived, derived.size)
  <2>1. CASE h.extends = Nobody
    <3>1. derived = new
      BY <2>1
    <3> HIDE DEF derived
    <3>2. DOMAIN derived.elements = 1..0
      BY <1>b, <3>1
    <3> QED BY <1>b, <2>1, <3>1, <3>2 DEF Laid
  <2>2. CASE h.extends # Nobody
    <3> DEFINE p == h.extends
    <3>1. p \in Classes /\ ~IsOpen(p)
      BY <2>2 DEF Finished
    <3>2. Whole(classes[p]) /\ IsClass(classes[p])
      BY <3>1, FinalIsWhole
    <3>3. HasDerived(derived, new, p)
      BY <1>b, <2>2, DerivedFields DEF IsClass
    <3> HIDE DEF derived
    <3>4. IsClass(derived)
      <4>1. 1 \in Alignments
        BY Powers
      <4> QED BY <1>b, <3>1, <3>2, <3>3 DEF IsClass, HasDerived
    <3>5. Laid(derived, derived.size)
      <4>1. derived.elements = classes[p].elements /\ derived.size = classes[p].size
        BY <3>3 DEF HasDerived
      <4>2. Laid(classes[p], classes[p].size)
        BY <3>2 DEF Whole
      <4> QED BY <4>1, <4>2 DEF Laid
    <3>6. from \in Nat /\ DOMAIN derived.elements = 1..from
      BY <2>2, <3>2, <3>3, LenProperties DEF IsClass, HasDerived
    <3>7. derived.parent = h.extends /\ derived.meta = h.meta /\ derived.elements = classes[h.extends].elements
      BY <1>b, <3>3 DEF HasDerived
    <3> QED BY <2>2, <3>7, <3>4, <3>5, <3>6
  <2> QED BY <2>1, <2>2
<1>2. /\ IsClass(cl) /\ cl.parent = h.extends /\ cl.meta = h.meta
      /\ n \in Nat /\ DOMAIN cl.elements = 1..(from + n)
      /\ h.extends # Nobody => \A i \in 1..from : cl.elements[i] = classes[h.extends].elements[i]
      /\ h.trait # Nobody => \A i \in 1..n :
            /\ cl.elements[from + i].name = classes[h.trait].elements[i].name
            /\ cl.elements[from + i].type = classes[h.trait].elements[i].type
      /\ Laid(cl, cl.size)
  <2>1. CASE h.trait = Nobody
    <3>1. cl = derived /\ n = 0
      BY <2>1, <1>r
    <3> HIDE DEF cl, derived, from, n
    <3> QED BY <1>1, <2>1, <3>1
  <2>2. CASE h.trait # Nobody
    <3> DEFINE t == classes[h.trait]
               m == Len(derived.elements)
               k == Len(t.elements)
    <3>1. IsClass(t) /\ n = k
      BY <2>2, FinalIsWhole DEF Finished
    <3>2. cl = ImplementTrait(derived, h.name, t)
      BY <2>2, <1>r
    <3> HIDE DEF cl, derived, t, from, n
    <3>3. /\ IsClass(cl) /\ cl.parent = derived.parent /\ cl.meta = derived.meta
          /\ m \in Nat /\ k \in Nat /\ DOMAIN derived.elements = 1..m
          /\ DOMAIN cl.elements = 1..(m + k)
          /\ \A i \in 1..m : cl.elements[i] = derived.elements[i]
          /\ \A i \in 1..k : /\ cl.elements[m + i].name = t.elements[i].name
                             /\ cl.elements[m + i].type = t.elements[i].type
          /\ Laid(cl, cl.size)
      <4>1. IsClass(derived) /\ Laid(derived, derived.size) /\ derived.size \in Nat
        BY <1>1 DEF IsClass
      <4>2. HasTaken(cl, derived, t)
        BY <1>0, <4>1, <3>1, <3>2, TraitLaid
      <4> QED BY <4>2 DEF HasTaken
    <3> HIDE DEF m, k
    <3>4. m = from
      BY <1>1, <3>3
    <3> QED BY <1>1, <3>1, <3>3, <3>4 DEF t
  <2> QED BY <2>1, <2>2
<1> HIDE DEF derived
<1> QED BY <1>1, <1>2

-----------------------------------------------------------------------------
(* The end of a class: room for its table, its size and its alignment. *)
IsFirst(cl) == cl.vtable > 0 /\ cl.parent = Nobody
Moved(cl) == IF IsFirst(cl) THEN MoveBehindTable(cl) ELSE cl
Room(cl, end) == IF IsFirst(cl) THEN end + PointerSize ELSE end

HasMoved(new, cl, end) ==
  LET m == Len(cl.elements)
  IN /\ IsClass(new) /\ new.parent = cl.parent /\ new.meta = cl.meta /\ new.vtable = cl.vtable
     /\ m \in Nat /\ DOMAIN cl.elements = 1..m /\ Room(cl, end) \in Nat
     /\ ~IsFirst(cl) => new.elements = cl.elements
     /\ IsFirst(cl) => /\ DOMAIN new.elements = 1..(1 + m) /\ new.elements[1] = VtableVar
                       /\ \A i \in 1..m : /\ new.elements[1 + i].name = cl.elements[i].name
                                          /\ new.elements[1 + i].type = cl.elements[i].type
     /\ Laid(new, Room(cl, end))

LEMMA VtableVarFits ==
  /\ VtableVar \in ElementSet /\ VtableVar.offset = 0 /\ VtableVar.type = "pointer" /\ Hidden(VtableVar)
  /\ Size("pointer") = PointerSize /\ 0 % Align("pointer") = 0 /\ PointerSize \in Nat
<1>1. "pointer" \in DOMAIN Basic /\ Basic["pointer"].size = PointerSize /\ PointerSize \in Nat
      /\ Basic["pointer"].align \in Nat \ {0}
  BY TableConstants
<1>2. \A a \in Nat \ {0} : 0 % a = 0
  OBVIOUS
<1>3. VtableVar \in ElementSet /\ VtableVar.offset = 0 /\ VtableVar.type = "pointer" /\ Hidden(VtableVar)
  BY <1>1 DEF VtableVar, Element, ElementSet, Types, Hidden
<1> QED BY <1>1, <1>2, <1>3 DEF Size, Align, IsBasic

LEMMA MovedFields ==
  ASSUME NEW cl, IsClass(cl)
  PROVE  LET new == MoveBehindTable(cl)
             m == Len(cl.elements)
         IN /\ DOMAIN new = DOMAIN NewClass /\ new.parent = cl.parent /\ new.meta = cl.meta
            /\ new.vtable = cl.vtable /\ new.size = cl.size /\ new.align = cl.align /\ new.parsed = cl.parsed
            /\ m \in Nat /\ DOMAIN cl.elements = 1..m
            /\ new.elements \in Seq(ElementSet) /\ Len(new.elements) = 1 + m
            /\ new.elements[1] = VtableVar
            /\ \A i \in 1..m : /\ new.elements[1 + i].name = cl.elements[i].name
                               /\ new.elements[1 + i].type = cl.elements[i].type
                               /\ new.elements[1 + i].offset = cl.elements[i].offset + PointerSize
<1> DEFINE new == MoveBehindTable(cl)
           m == Len(cl.elements)
           shifted(e) == [e EXCEPT !.offset = @ + PointerSize]
           tail == [i \in DOMAIN cl.elements |-> shifted(cl.elements[i])]
<1>1. cl.elements \in Seq(ElementSet) /\ m \in Nat /\ DOMAIN cl.elements = 1..m
  BY LenProperties DEF IsClass
<1>2. /\ DOMAIN new = DOMAIN NewClass /\ new.parent = cl.parent /\ new.meta = cl.meta
      /\ new.vtable = cl.vtable /\ new.size = cl.size /\ new.align = cl.align /\ new.parsed = cl.parsed
      /\ new.elements = <<VtableVar>> \o tail
  <2> DEFINE es == <<VtableVar>> \o tail
             init == [i \in DOMAIN cl.initial |-> [cl.initial[i] EXCEPT !.element = @ + 1]]
  <2>1. new = [cl EXCEPT !.elements = es, !.initial = init]
    BY DEF MoveBehindTable
  <2> HIDE DEF new, es, init
  <2>2. DOMAIN cl = Fields
    BY NewClassFields DEF IsClass
  <2>3. new.elements = es /\ DOMAIN new = DOMAIN cl
    BY <2>1, <2>2 DEF Fields
  <2>4. /\ new.parent = cl.parent /\ new.meta = cl.meta /\ new.vtable = cl.vtable
        /\ new.size = cl.size /\ new.align = cl.align /\ new.parsed = cl.parsed
    BY <2>1, <2>2 DEF Fields
  <2> QED BY <2>2, <2>3, <2>4, NewClassFields DEF es
<1>3. ASSUME NEW i \in 1..m
      PROVE  /\ shifted(cl.elements[i]) \in ElementSet
             /\ shifted(cl.elements[i]).name = cl.elements[i].name
             /\ shifted(cl.elements[i]).type = cl.elements[i].type
             /\ shifted(cl.elements[i]).offset = cl.elements[i].offset + PointerSize
  <2>1. cl.elements[i] \in ElementSet /\ PointerSize \in Nat
    BY <1>1, ElementFields, VtableVarFits
  <2>2. cl.elements[i].offset + PointerSize \in Nat
    BY <2>1 DEF ElementSet
  <2> QED BY <2>1, <2>2 DEF ElementSet
<1> HIDE DEF shifted
<1>4. tail \in [1..m -> ElementSet] /\ tail \in Seq(ElementSet) /\ Len(tail) = m /\ \A i \in 1..m : tail[i] = shifted(cl.elements[i])
  <2> HIDE DEF m
  <2>1. tail = [i \in 1..m |-> shifted(cl.elements[i])]
    BY <1>1
  <2> HIDE DEF tail
  <2> QED BY <1>1, <1>3, <2>1
<1>5. /\ <<VtableVar>> \o tail \in Seq(ElementSet)
      /\ Len(<<VtableVar>> \o tail) = 1 + m
      /\ \A i \in 1..1 + m : (<<VtableVar>> \o tail)[i] = IF i <= 1 THEN VtableVar ELSE tail[i - 1]
  <2> DEFINE head == <<VtableVar>>
  <2>1. head \in Seq(ElementSet) /\ Len(head) = 1 /\ head[1] = VtableVar
    BY VtableVarFits
  <2> HIDE DEF head, tail
  <2>2. /\ head \o tail \in Seq(ElementSet) /\ Len(head \o tail) = Len(head) + Len(tail)
        /\ \A i \in 1..Len(head) + Len(tail) :
              (head \o tail)[i] = IF i <= Len(head) THEN head[i] ELSE tail[i - Len(head)]
    <3>1. head \in Seq(ElementSet) /\ tail \in Seq(ElementSet)
      BY <2>1, <1>4
    <3> QED BY <3>1, ConcatProperties, ZenonT(40)
  <2>3. \A i \in 1..1 + m : (head \o tail)[i] = IF i <= 1 THEN VtableVar ELSE tail[i - 1]
    <3> HIDE DEF m
    <3>1. ASSUME NEW i \in 1..1 + m
          PROVE  (head \o tail)[i] = IF i <= 1 THEN VtableVar ELSE tail[i - 1]
      <4>1. (head \o tail)[i] = IF i <= 1 THEN head[i] ELSE tail[i - 1]
        BY <2>1, <2>2, <1>4
      <4>2. i <= 1 => i = 1
        BY <1>1
      <4> QED BY <2>1, <4>1, <4>2
    <3> QED BY <3>1
  <2> HIDE DEF m
  <2> QED BY <1>1, <1>4, <2>1, <2>2, <2>3 DEF head
<1> HIDE DEF new, m, tail
<1>6. new.elements[1] = VtableVar
  BY <1>1, <1>2, <1>5
<1>7. ASSUME NEW i \in 1..m
      PROVE  new.elements[1 + i] = shifted(cl.elements[i])
  <2>1. 1 + i \in 1..1 + m /\ ~(1 + i <= 1) /\ (1 + i) - 1 = i
    BY <1>1
  <2> QED BY <2>1, <1>2, <1>4, <1>5
<1> QED BY <1>1, <1>2, <1>3, <1>5, <1>6, <1>7 DEF new, m

LEMMA MovedLaid ==
  ASSUME TableType, NEW cl, IsClass(cl), NEW end \in Nat, Laid(cl, end)
  PROVE  HasMoved(Moved(cl), cl, end)
<1> DEFINE new == Moved(cl)
           m == Len(cl.elements)
           room == Room(cl, end)
<1>0. /\ cl.elements \in Seq(ElementSet) /\ m \in Nat /\ DOMAIN cl.elements = 1..m
      /\ PointerSize \in Nat /\ room \in Nat
  BY VtableVarFits, LenProperties DEF IsClass, Room
<1>1. CASE ~IsFirst(cl)
  BY <1>0, <1>1 DEF HasMoved, Moved, Room
<1>2. CASE IsFirst(cl)
  <2>1. /\ DOMAIN new = DOMAIN NewClass /\ new.parent = cl.parent /\ new.meta = cl.meta
        /\ new.vtable = cl.vtable /\ new.size = cl.size /\ new.align = cl.align /\ new.parsed = cl.parsed
        /\ new.elements \in Seq(ElementSet) /\ Len(new.elements) = 1 + m
        /\ new.elements[1] = VtableVar
        /\ \A i \in 1..m : /\ new.elements[1 + i].name = cl.elements[i].name
                           /\ new.elements[1 + i].type = cl.elements[i].type
                           /\ new.elements[1 + i].offset = cl.elements[i].offset + PointerSize
    BY <1>2, MovedFields DEF Moved
  <2> HIDE DEF new, m
  <2>2. IsClass(new) /\ DOMAIN new.elements = 1..(1 + m)
    BY <1>0, <2>1, LenProperties DEF IsClass
  <2>3. room = end + PointerSize
    BY <1>2 DEF Room
  <2>4. ASSUME NEW i \in 1..m
        PROVE  /\ cl.elements[i].offset \in Nat /\ cl.elements[i].type \in Types
               /\ Size(cl.elements[i].type) \in Nat /\ Align(cl.elements[i].type) \in Alignments
               /\ Align(cl.elements[i].type) \in Nat /\ Align(cl.elements[i].type) > 0
               /\ cl.elements[i].offset % Align(cl.elements[i].type) = 0
               /\ cl.elements[i].offset + Size(cl.elements[i].type) <=
                     IF i < m THEN cl.elements[i + 1].offset ELSE end
    BY <1>0, ElementFields, KnownTypes DEF Laid, m
  <2>5. Laid(new, room)
    <3> SUFFICES ASSUME NEW i \in 1..(1 + m)
                 PROVE  LET f == new.elements[i]
                        IN /\ f.offset % Align(f.type) = 0
                           /\ f.offset + Size(f.type) <= IF i < 1 + m THEN new.elements[i + 1].offset ELSE room
      BY <2>1, <2>2 DEF Laid
    <3>1. CASE i = 1
      <4>1. new.elements[i].offset = 0 /\ Size(new.elements[i].type) = PointerSize
            /\ new.elements[i].offset % Align(new.elements[i].type) = 0
        BY <3>1, <2>1, VtableVarFits
      <4>2. CASE m = 0
        BY <3>1, <4>1, <4>2, <2>3, <1>0
      <4>3. CASE m # 0
        <5>1. new.elements[1 + 1].offset = cl.elements[1].offset + PointerSize /\ cl.elements[1].offset \in Nat
          BY <4>3, <1>0, <2>1, <2>4
        <5> QED BY <3>1, <4>1, <4>3, <5>1, <1>0
      <4> QED BY <4>2, <4>3
    <3>2. CASE i # 1
      <4> DEFINE j == i - 1
      <4>1. j \in 1..m /\ i = 1 + j
        BY <3>2, <1>0
      <4> HIDE DEF j
      <4>2. /\ new.elements[i].type = cl.elements[j].type
            /\ new.elements[i].offset = cl.elements[j].offset + PointerSize
        BY <4>1, <2>1
      <4>3. new.elements[i].offset % Align(new.elements[i].type) = 0
        <5>1. PointerSize % Align(cl.elements[j].type) = 0
          BY <4>1, <2>4, Powers
        <5>2. (cl.elements[j].offset + PointerSize) % Align(cl.elements[j].type) = 0
          BY <4>1, <5>1, <2>4, <1>0, SumIsMultiple
        <5> QED BY <4>2, <5>2
      <4>4. CASE j < m
        <5>1. j + 1 \in 1..m /\ i + 1 = 1 + (j + 1)
          BY <4>1, <4>4, <1>0
        <5>2. new.elements[i + 1].offset = cl.elements[j + 1].offset + PointerSize
          BY <5>1, <2>1
        <5>3. cl.elements[j + 1].offset \in Nat
          BY <5>1, <2>4
        <5>4. cl.elements[j].offset + Size(cl.elements[j].type) <= cl.elements[j + 1].offset
          BY <4>1, <4>4, <2>4
        <5>5. cl.elements[j].offset \in Nat /\ Size(cl.elements[j].type) \in Nat
          BY <4>1, <2>4
        <5>6. (cl.elements[j].offset + PointerSize) + Size(cl.elements[j].type) <= cl.elements[j + 1].offset + PointerSize
          <6>1. \A x, y, z, p \in Nat : x + y <= z => (x + p) + y <= z + p
            OBVIOUS
          <6> QED BY <6>1, <5>3, <5>4, <5>5, <1>0
        <5>7. i < 1 + m
          BY <4>1, <4>4, <1>0
        <5> QED BY <4>2, <4>3, <5>2, <5>6, <5>7
      <4>5. CASE j = m
        <5>1. cl.elements[j].offset + Size(cl.elements[j].type) <= end
          BY <4>1, <4>5, <2>4
        <5>2. cl.elements[j].offset \in Nat /\ Size(cl.elements[j].type) \in Nat
          BY <4>1, <2>4
        <5> QED BY <4>1, <4>2, <4>3, <4>5, <5>1, <5>2, <1>0, <2>3
      <4> QED BY <4>1, <4>4, <4>5, <1>0
    <3> QED BY <3>1, <3>2
  <2> QED BY <1>0, <1>2, <2>1, <2>2, <2>5 DEF HasMoved, m, new
<1> QED BY <1>1, <1>2

HasProcessed(new, cl) ==
  LET m == Len(cl.elements)
  IN /\ IsClass(new) /\ new.parent = cl.parent /\ new.meta = cl.meta /\ new.vtable = cl.vtable /\ new.parsed
     /\ m \in Nat /\ DOMAIN cl.elements = 1..m
     /\ ~IsFirst(cl) => new.elements = cl.elements
     /\ IsFirst(cl) => /\ DOMAIN new.elements = 1..(1 + m) /\ new.elements[1] = VtableVar
                       /\ \A i \in 1..m : /\ new.elements[1 + i].name = cl.elements[i].name
                                          /\ new.elements[1 + i].type = cl.elements[i].type
     /\ Laid(new, new.size) /\ new.size % new.align = 0
     /\ \A e \in ToSet(new.elements) : new.align % Align(e.type) = 0

LEMMA LaidUpTo ==
  ASSUME TableType, NEW cl, IsClass(cl), NEW end \in Nat, NEW more \in Nat, end <= more, Laid(cl, end)
  PROVE  Laid(cl, more)
<1>1. \A i \in DOMAIN cl.elements : cl.elements[i].offset \in Nat /\ Size(cl.elements[i].type) \in Nat
  BY ElementFields, KnownTypes DEF IsClass
<1> QED BY <1>1 DEF Laid

LEMMA Processed ==
  ASSUME TableType, NEW c \in Classes, NEW cl, IsClass(cl), NEW end \in Nat, Laid(cl, end)
  PROVE  HasProcessed(PostProcess(cl, c, end), cl)
<1> DEFINE new == PostProcess(cl, c, end)
           moved == Moved(cl)
           room == Room(cl, end)
           above == IF cl.parent = Nobody THEN 1 ELSE classes[cl.parent].align
           aligns == {above} \cup {Align(e.type) : e \in ToSet(moved.elements)}
           align == Strictest(aligns)
           base == [moved EXCEPT !.size = MemAlign(room, align), !.align = align]
           whole == AddMissingHeaders(base, c)
<1>1. HasMoved(moved, cl, end)
  BY MovedLaid
<1>2. new = [whole EXCEPT !.parsed = TRUE, !.chunk = CanMemcpy(whole), !.needs = NeedsConstructor(whole)]
  BY DEF PostProcess, Moved, Room, IsFirst
<1> HIDE DEF moved, room
<1>3. aligns \subseteq Alignments /\ aligns # {}
  <2>1. above \in Alignments
    BY Powers DEF TableType, IsClass
  <2>2. ASSUME NEW e \in ToSet(moved.elements)
        PROVE  Align(e.type) \in Alignments
    <3>1. PICK i \in DOMAIN moved.elements : e = moved.elements[i]
      BY DEF ToSet
    <3>2. e.type \in Types
      BY <1>1, <3>1, ElementFields DEF HasMoved, IsClass
    <3> QED BY <3>2, KnownTypes
  <2> HIDE DEF above
  <2> QED BY <2>1, <2>2
<1>4. align \in Alignments /\ align \in Nat /\ align > 0 /\ \A b \in aligns : align % b = 0
  <2>1. align \in aligns /\ \A b \in aligns : align % b = 0
    <3> HIDE DEF aligns
    <3> QED BY <1>3, StrictestIsMultiple
  <2> HIDE DEF aligns, align
  <2> QED BY <2>1, <1>3, Powers
<1>5. \A e \in ToSet(moved.elements) : align % Align(e.type) = 0
  <2> HIDE DEF align
  <2> QED BY <1>4
<1> HIDE DEF aligns, align, above
<1> DEFINE size == MemAlign(room, align)
<1>6. room \in Nat /\ size \in Nat /\ size >= room /\ size % align = 0
  <2>1. room \in Nat
    BY <1>1 DEF HasMoved, room
  <2> QED BY <2>1, <1>4, MemAligned
<1> HIDE DEF size
<1>7. /\ DOMAIN base = DOMAIN NewClass /\ base.parent = moved.parent /\ base.meta = moved.meta
      /\ base.vtable = moved.vtable /\ base.elements = moved.elements /\ base.size = size /\ base.align = align
  <2>1. DOMAIN moved = Fields
    BY <1>1, NewClassFields DEF HasMoved, IsClass
  <2>2. base = [moved EXCEPT !.size = size, !.align = align]
    BY DEF size
  <2> HIDE DEF base
  <2> QED BY <2>1, <2>2, NewClassFields DEF Fields
<1> HIDE DEF base
<1>8. SameLayout(base, whole)
  BY <1>7, MissingHeadersShape
<1> HIDE DEF whole
<1>9. /\ DOMAIN new = DOMAIN NewClass /\ new.parent = whole.parent /\ new.meta = whole.meta
      /\ new.vtable = whole.vtable /\ new.elements = whole.elements /\ new.size = whole.size
      /\ new.align = whole.align /\ new.parsed = TRUE
  <2>1. DOMAIN whole = Fields
    BY <1>8, NewClassFields DEF SameLayout, SameShape
  <2> DEFINE chunk == CanMemcpy(whole)
             needs == NeedsConstructor(whole)
  <2>2. new = [whole EXCEPT !.parsed = TRUE, !.chunk = chunk, !.needs = needs]
    BY <1>2
  <2> HIDE DEF new, chunk, needs
  <2> QED BY <2>1, <2>2, NewClassFields DEF Fields
<1> HIDE DEF new
<1>10. /\ new.parent = moved.parent /\ new.meta = moved.meta /\ new.vtable = moved.vtable
       /\ new.elements = moved.elements /\ new.size = size /\ new.align = align
  BY <1>7, <1>8, <1>9 DEF SameLayout, SameShape
<1>11. IsClass(new) /\ new.parsed
  BY <1>1, <1>4, <1>6, <1>9, <1>10 DEF HasMoved, IsClass
<1>12. Laid(new, new.size)
  <2>1. Laid(moved, room) /\ IsClass(moved)
    BY <1>1 DEF HasMoved, room
  <2>2. Laid(moved, size)
    BY <2>1, <1>6, LaidUpTo
  <2> QED BY <2>2, <1>10 DEF Laid
<1>13. new.size % new.align = 0 /\ \A e \in ToSet(new.elements) : new.align % Align(e.type) = 0
  BY <1>5, <1>6, <1>10
<1>14. /\ new.parent = cl.parent /\ new.meta = cl.meta /\ new.vtable = cl.vtable
       /\ Len(cl.elements) \in Nat /\ DOMAIN cl.elements = 1..Len(cl.elements)
  BY <1>1, <1>10 DEF HasMoved
<1>15. ~IsFirst(cl) => new.elements = cl.elements
  BY <1>1, <1>10 DEF HasMoved
<1>16. IsFirst(cl) => /\ DOMAIN new.elements = 1..(1 + Len(cl.elements)) /\ new.elements[1] = VtableVar
                      /\ \A i \in 1..Len(cl.elements) : /\ new.elements[1 + i].name = cl.elements[i].name
                                                        /\ new.elements[1 + i].type = cl.elements[i].type
  BY <1>1, <1>10 DEF HasMoved
<1> QED BY <1>11, <1>12, <1>13, <1>14, <1>15, <1>16 DEF HasProcessed, new

-----------------------------------------------------------------------------
(* One step: what has to be shown of the class that changes. *)
Good(c) ==
  /\ \A u \in UsedBy(c) : u # c /\ classes[u].parsed /\ ~IsOpen(u)
  /\ \A i \in DOMAIN open : open[i].class = c /\ ~open[i].closed => Laid(classes[c], open[i].end)
  /\ ~InWork(c) => Whole(classes[c])
  /\ Extends(c) /\ InOrder(c)
  /\ \A n \in DOMAIN text[c].lines : text[c].lines[n].k = "var" => text[c].lines[n].name = <<c, n>>
  /\ classes[c].meta = "trait" => Parent(c) = Nobody /\ text[c].header.trait = Nobody

(* All frames but those of c come from frames as they were, and none is lost. *)
Kept(c) ==
  /\ \A i \in DOMAIN open' : \/ open'[i].class = c
                             \/ \E j \in DOMAIN open : /\ open'[i].class = open[j].class
                                                       /\ open'[i].end = open[j].end
                                                       /\ open'[i].closed = open[j].closed
  /\ \A j \in DOMAIN open : open[j].class # c /\ ~open[j].closed =>
        \E i \in DOMAIN open' : open'[i].class = open[j].class /\ ~open'[i].closed

Changes(c, cl, t) ==
  /\ classes' = [classes EXCEPT ![c] = cl] /\ text' = [text EXCEPT ![c] = t]
  /\ IsClass(cl) /\ IsText(t)
  /\ \A d \in Classes : c \notin UsedBy(d)
  /\ open' \in Seq(FrameSet) /\ declared' \in 0..Len(Names) /\ Kept(c)

OrderMeans == \A c \in Classes : InOrder(c) <=> Ordered(classes[c].elements, FromParent(c), Written(c))
LEMMA OrderedClasses ==
  OrderMeans
BY InOrderIsOrdered DEF OrderMeans

InvMeans == TableInv <=> TableType /\ OpenOnce /\ Waiting /\ \A c \in Classes : Good(c)
LEMMA GoodIsInv ==
  InvMeans
<1>1. ASSUME TableInv
      PROVE  TableType /\ OpenOnce /\ Waiting /\ \A c \in Classes : Good(c)
  BY <1>1 DEF TableInv, UsersWait, SoFar, NamedAfterLine, TraitsArePlain, Good
<1>2. ASSUME TableType, OpenOnce, Waiting, \A c \in Classes : Good(c)
      PROVE  TableInv
  <2>1. ASSUME NEW i \in DOMAIN open
        PROVE  open[i].class \in Classes
    BY <1>2, StackFacts, FrameFields
  <2>2. SoFar
    BY <1>2, <2>1 DEF Good, SoFar
  <2>3. UsersWait /\ NamedAfterLine /\ TraitsArePlain
    BY <1>2 DEF Good, UsersWait, NamedAfterLine, TraitsArePlain
  <2> QED BY <1>2, <2>2, <2>3 DEF TableInv
<1> QED BY <1>1, <1>2 DEF InvMeans

LEMMA TextStays ==
  ASSUME TableType, NEW c \in Classes, NEW t, text' = [text EXCEPT ![c] = t]
  PROVE  text'[c] = t /\ \A d \in Classes : d # c => text'[d] = text[d]
BY DEF TableType

LEMMA WrittenStays ==
  ASSUME TableType, NEW c \in Classes, NEW t, text' = [text EXCEPT ![c] = t], NEW d \in Classes, d # c,
         c \notin UsedBy(d)
  PROVE  Written(d)' = Written(d)
<1>1. text'[d] = text[d]
  BY TextStays
<1>2. text[d].header.trait # c /\ text[d].header.trait \in Classes \cup {Nobody}
  BY UsedTypes DEF TableType, IsText
<1>3. text[d].header.trait # Nobody => text'[text[d].header.trait] = text[text[d].header.trait]
  BY <1>2, TextStays
<1> DEFINE trait == text[d].header.trait
<1>4. text'[d] = text[d] /\ (trait # Nobody => text'[trait] = text[trait])
  BY <1>1, <1>3
<1>5. Written(d) = (IF trait = Nobody THEN <<>> ELSE text[trait].lines) \o text[d].lines
  BY DEF Written
<1>6. Written(d)' = (IF text'[d].header.trait = Nobody THEN <<>> ELSE text'[text'[d].header.trait].lines) \o text'[d].lines
  BY DEF Written
<1>7. text'[d].header.trait = trait /\ text'[d].lines = text[d].lines
  BY <1>1
<1> HIDE DEF trait
<1>8. Written(d)' = (IF trait = Nobody THEN <<>> ELSE text'[trait].lines) \o text[d].lines
  BY <1>6, <1>7
<1>9. trait # Nobody => text'[trait].lines = text[trait].lines
  BY <1>4
<1>10. CASE trait = Nobody
  BY <1>5, <1>8, <1>10
<1>11. CASE trait # Nobody
  BY <1>5, <1>8, <1>9, <1>11
<1> QED BY <1>10, <1>11

LEMMA OthersGood ==
  ASSUME TableInv, NEW c \in Classes, NEW cl, NEW t, Changes(c, cl, t), NEW d \in Classes, d # c
  PROVE  Good(d)'
<1>0. TableType /\ Good(d)
  BY GoodIsInv DEF InvMeans
<1>1. classes' = [classes EXCEPT ![c] = cl] /\ text' = [text EXCEPT ![c] = t] /\ \A b \in Classes : c \notin UsedBy(b)
  BY DEF Changes
<1>2. /\ classes'[d] = classes[d] /\ text'[d] = text[d]
      /\ \A n \in Nat : Laid(classes[d], n) => Laid(classes[d], n)'
      /\ Whole(classes[d]) => Whole(classes[d])'
      /\ Extends(d) => Extends(d)'
      /\ FromParent(d)' = FromParent(d)
  BY <1>0, <1>1, OthersStay, TextStays
<1>3. Written(d)' = Written(d)
  BY <1>0, <1>1, WrittenStays
<1>4. UsedBy(d)' = UsedBy(d)
  BY <1>2 DEF UsedBy
<1>5. ASSUME NEW u \in UsedBy(d)'
      PROVE  u # d /\ (classes[u].parsed)' /\ ~IsOpen(u)'
  <2>1. u # c /\ u # d /\ classes[u].parsed /\ ~IsOpen(u) /\ u \in Classes
    BY <1>0, <1>1, <1>4 DEF Good, UsedBy
  <2>2. (classes[u].parsed)'
    BY <2>1, <1>0, <1>1, TypesStay
  <2>3. ~IsOpen(u)'
    BY <2>1 DEF IsOpen, Changes, Kept
  <2> QED BY <2>1, <2>2, <2>3
<1>6. ASSUME NEW i \in (DOMAIN open)', (open[i].class = d /\ ~open[i].closed)'
      PROVE  Laid(classes[d], open[i].end)'
  <2>1. PICK j \in DOMAIN open : open'[i].class = open[j].class /\ open'[i].end = open[j].end
                                 /\ open'[i].closed = open[j].closed
    BY <1>6 DEF Changes, Kept
  <2>2. Laid(classes[d], open[j].end)
    BY <1>0, <1>6, <2>1 DEF Good
  <2>3. open[j].end \in Nat
    BY <1>0, StackFacts, FrameFields
  <2>4. \A n \in Nat : Laid(classes[d], n) => Laid(classes[d], n)'
    BY <1>2
  <2> DEFINE n == open[j].end
  <2>5. n \in Nat /\ Laid(classes[d], n) /\ n = open'[i].end
    BY <2>1, <2>2, <2>3
  <2> HIDE DEF n
  <2>6. PICK k \in Nat : k = open'[i].end /\ Laid(classes[d], k)
    BY <2>5
  <2>7. Laid(classes[d], k)'
    BY <2>4, <2>6
  <2> QED BY <2>6, <2>7 DEF Laid
<1>7. ASSUME ~InWork(d)'
      PROVE  Whole(classes[d])'
  <2>1. ~InWork(d)
    BY <1>7 DEF InWork, Changes, Kept
  <2> QED BY <2>1, <1>0, <1>2 DEF Good
<1>8. Extends(d)' /\ InOrder(d)'
  <2>1. InOrder(d) /\ Extends(d)
    BY <1>0 DEF Good
  <2>2. Ordered(classes[d].elements, FromParent(d), Written(d))
    BY <2>1, InOrderIsOrdered
  <2>3. Ordered(classes'[d].elements, FromParent(d)', Written(d)')
    BY <1>2, <1>3, <2>2
  <2>4. InOrder(d)' <=> Ordered(classes[d].elements, FromParent(d), Written(d))'
    <3>1. OrderMeans'
      BY OrderedClasses, PTL
    <3> QED BY <3>1 DEF OrderMeans
  <2>5. Ordered(classes[d].elements, FromParent(d), Written(d))'
    BY <2>3 DEF Ordered, ShownBehind, VariablesOf, Hidden
  <2> QED BY <2>1, <2>4, <2>5, <1>2
<1>9. (\A n \in DOMAIN text[d].lines : text[d].lines[n].k = "var" => text[d].lines[n].name = <<d, n>>)'
  BY <1>0, <1>2 DEF Good
<1>10. (classes[d].meta = "trait" => Parent(d) = Nobody /\ text[d].header.trait = Nobody)'
  BY <1>0, <1>2 DEF Good, Parent
<1> QED BY <1>5, <1>6, <1>7, <1>8, <1>9, <1>10 DEF Good

LEMMA OneChanges ==
  ASSUME TableInv, NEW c \in Classes, NEW cl, NEW t, Changes(c, cl, t), OpenOnce', Waiting', Good(c)'
  PROVE  TableInv'
<1>1. \A d \in Classes : Good(d)'
  BY OthersGood
<1>2. TableType'
  <2>1. TableType
    BY DEF TableInv
  <2>2. /\ classes'[c] = cl /\ \A d \in Classes : d # c => classes'[d] = classes[d]
        /\ text'[c] = t /\ \A d \in Classes : d # c => text'[d] = text[d]
    BY <2>1, TypesStay, TextStays DEF Changes
  <2>3. \A d \in Classes : IsClass(classes'[d]) /\ IsText(text'[d])
    BY <2>1, <2>2 DEF Changes, TableType
  <2>4. DOMAIN classes' = Classes /\ DOMAIN text' = Classes
    BY <2>1 DEF TableType, Changes
  <2> QED BY <2>3, <2>4 DEF TableType, Changes, IsClass, IsText
<1>3. InvMeans'
  BY GoodIsInv, PTL
<1> QED BY <1>1, <1>2, <1>3 DEF InvMeans

(* What waits goes on waiting: in each frame, the headers from some place on. *)
LaterKept(c) ==
  \A i \in DOMAIN open' :
     /\ open'[i].closed => open'[i].later # <<>>
     /\ \/ open'[i].later = <<>>
        \/ /\ i \in DOMAIN open /\ \A j \in 1..i : open'[j].class = open[j].class
           /\ \E s \in Nat : \A k \in DOMAIN open'[i].later :
                 /\ k + s \in DOMAIN open[i].later /\ open'[i].later[k] = open[i].later[k + s]
                 /\ open'[i].later[k].name # c

LEMMA UndeclaredAre ==
  ASSUME declared \in 0..Len(Names)
  PROVE  /\ Undeclared \subseteq Classes
         /\ declared < Len(Names) => /\ Names[declared + 1] \in Undeclared
                                     /\ Undeclared' \subseteq Undeclared \/ declared' # declared + 1
                                     /\ Names[declared + 1] \notin Undeclared' \/ declared' # declared + 1
<1>1. Names \in Seq(Classes) /\ DOMAIN Names = 1..Len(Names) /\ Len(Names) \in Nat
  BY TableConstants, LenProperties DEF Classes
<1>2. \A n \in 1..Len(Names) : Names[n] \in Classes
  BY <1>1 DEF Classes, ToSet
<1>3. \A m, n \in 1..Len(Names) : Names[m] = Names[n] => m = n
  BY <1>1, TableConstants DEF IsInjective
<1>4. Undeclared \subseteq Classes
  BY <1>1, <1>2 DEF Undeclared
<1>5. ASSUME declared < Len(Names)
      PROVE  /\ Names[declared + 1] \in Undeclared
             /\ Undeclared' \subseteq Undeclared \/ declared' # declared + 1
             /\ Names[declared + 1] \notin Undeclared' \/ declared' # declared + 1
  <2>1. Names[declared + 1] \in Undeclared
    BY <1>1, <1>5 DEF Undeclared
  <2>2. ASSUME declared' = declared + 1
        PROVE  Undeclared' \subseteq Undeclared /\ Names[declared + 1] \notin Undeclared'
    <3>1. Undeclared' = {Names[n] : n \in declared + 2 .. Len(Names)}
      BY <1>1, <2>2 DEF Undeclared
    <3>2. \A n \in declared + 2 .. Len(Names) : Names[n] # Names[declared + 1]
      BY <1>1, <1>3
    <3>3. Undeclared' \subseteq Undeclared
      <4>1. declared + 2 .. Len(Names) \subseteq declared + 1 .. Len(Names)
        BY <1>1
      <4> QED BY <3>1, <4>1 DEF Undeclared
    <3> QED BY <3>1, <3>2, <3>3
  <2> QED BY <2>1, <2>2
<1> QED BY <1>4, <1>5

LEMMA UntouchedStays ==
  ASSUME TableInv, NEW c \in Classes, NEW cl, NEW t, Changes(c, cl, t), NEW d \in Classes, d # c, Untouched(d)
  PROVE  Untouched(d)'
<1>1. classes'[d] = classes[d] /\ text'[d] = text[d]
  BY TypesStay, TextStays DEF TableInv, Changes
<1>2. ~IsOpen(d)'
  BY DEF Changes, Kept, IsOpen, Untouched
<1> QED BY <1>1, <1>2 DEF Untouched

LEMMA WaitingStays ==
  ASSUME TableInv, NEW c \in Classes, NEW cl, NEW t, Changes(c, cl, t),
         c \notin Undeclared', Undeclared' \subseteq Undeclared, LaterKept(c)
  PROVE  Waiting'
<1>0. TableType /\ Waiting /\ declared \in 0..Len(Names)
  BY DEF TableInv, TableType
<1>1. ASSUME NEW d \in Undeclared'
      PROVE  Untouched(d)'
  <2>1. d \in Classes /\ d # c /\ Untouched(d)
    BY <1>0, UndeclaredAre DEF Waiting
  <2> QED BY <2>1, UntouchedStays
<1>2. ASSUME NEW i \in (DOMAIN open)', NEW k \in (DOMAIN open[i].later)'
      PROVE  /\ i \in DOMAIN open /\ \A j \in 1..i : open'[j].class = open[j].class
             /\ \E s \in Nat : \A l \in DOMAIN open'[i].later :
                   /\ l + s \in DOMAIN open[i].later /\ open'[i].later[l] = open[i].later[l + s]
                   /\ open'[i].later[l].name # c
  <2>1. open'[i].later # <<>>
    BY <1>2
  <2> QED BY <2>1 DEF LaterKept
<1>3. ASSUME NEW i \in (DOMAIN open)', NEW k \in (DOMAIN open[i].later)'
      PROVE  (LET h == open[i].later[k]
              IN /\ h.name \in Classes \ Undeclared /\ Untouched(h.name)
                 /\ \A j \in 1..i : open[j].class \notin {h.extends, h.trait})'
  <2>1. PICK s \in Nat : \A l \in DOMAIN open'[i].later :
                   /\ l + s \in DOMAIN open[i].later /\ open'[i].later[l] = open[i].later[l + s]
                   /\ open'[i].later[l].name # c
    BY <1>2
  <2>2. i \in DOMAIN open /\ \A j \in 1..i : open'[j].class = open[j].class
    BY <1>2
  <2>3. PICK h : h = open'[i].later[k]
    OBVIOUS
  <2>4. h = open[i].later[k + s] /\ k + s \in DOMAIN open[i].later /\ h.name # c
    BY <2>1, <2>3
  <2>5. h.name \in Classes \ Undeclared /\ Untouched(h.name) /\ \A j \in 1..i : open[j].class \notin {h.extends, h.trait}
    BY <1>0, <2>2, <2>4 DEF Waiting
  <2>6. PICK d \in Classes : d = h.name
    BY <2>5
  <2>7. Untouched(d)'
    BY <2>4, <2>5, <2>6, UntouchedStays
  <2> QED BY <2>2, <2>3, <2>5, <2>6, <2>7
<1>4. ASSUME NEW i \in (DOMAIN open)', NEW j \in (DOMAIN open)',
             NEW k \in (DOMAIN open[i].later)', NEW l \in (DOMAIN open[j].later)',
             open'[i].later[k].name = open'[j].later[l].name
      PROVE  i = j /\ k = l
  <2>1. PICK s \in Nat : \A x \in DOMAIN open'[i].later :
                   x + s \in DOMAIN open[i].later /\ open'[i].later[x] = open[i].later[x + s]
    BY <1>2
  <2>2. PICK r \in Nat : \A x \in DOMAIN open'[j].later :
                   x + r \in DOMAIN open[j].later /\ open'[j].later[x] = open[j].later[x + r]
    BY <1>2
  <2>3. i \in DOMAIN open /\ j \in DOMAIN open
    BY <1>2
  <2>4. \A x \in DOMAIN open[i].later : \A y \in DOMAIN open[j].later :
           open[i].later[x].name = open[j].later[y].name => i = j /\ x = y
    BY <1>0, <2>3 DEF Waiting
  <2>5. i = j
    BY <2>1, <2>2, <2>4, <1>4
  <2>6. k + s = l + s
    BY <2>1, <2>4, <2>5, <1>4
  <2>7. k \in Nat /\ l \in Nat
    <3>1. open' \in Seq(FrameSet)
      BY DEF Changes
    <3>2. open'[i] \in FrameSet
      BY <3>1, ElementOfSeq, LenProperties
    <3>3. DOMAIN open'[i].later = 1..Len(open'[i].later)
      BY <3>2, FrameFields, LenProperties
    <3> QED BY <3>3, <2>5
  <2> QED BY <2>5, <2>6, <2>7
<1>5. \A i \in (DOMAIN open)' : (open[i].closed => open[i].later # <<>>)'
  BY DEF LaterKept
<1> QED BY <1>1, <1>3, <1>4, <1>5 DEF Waiting

-----------------------------------------------------------------------------
(* One more line of the class on top of the stack. *)
LEMMA SeqOfItself ==
  ASSUME NEW S, NEW s \in Seq(S)
  PROVE  s \in Seq(ToSet(s)) /\ \A x \in ToSet(s) : x \in S
<1>1. DOMAIN s = 1..Len(s) /\ Len(s) \in Nat /\ \A i \in 1..Len(s) : s[i] \in S
  BY LenProperties, ElementOfSeq
<1>2. s = [i \in 1..Len(s) |-> s[i]]
  BY <1>1, LenProperties
<1>3. s \in [1..Len(s) -> ToSet(s)]
  BY <1>1, <1>2 DEF ToSet
<1>4. s \in Seq(ToSet(s))
  BY <1>1, <1>3
<1> QED BY <1>1, <1>4 DEF ToSet

LEMMA ConcatAppend ==
  ASSUME NEW S, NEW a \in Seq(S), NEW b \in Seq(S), NEW x \in S
  PROVE  LET s == a \o b
             r == a \o Append(b, x)
             n == Len(a) + Len(b)
         IN /\ n \in Nat /\ DOMAIN s = 1..n /\ DOMAIN r = 1..(n + 1)
            /\ \A k \in 1..n : r[k] = s[k]
            /\ r[n + 1] = x
<1> DEFINE s == a \o b
           c == Append(b, x)
           r == a \o c
           n == Len(a) + Len(b)
<1>1. Len(a) \in Nat /\ Len(b) \in Nat
  BY LenProperties
<1>2. /\ s \in Seq(S) /\ Len(s) = n
      /\ \A i \in 1..n : s[i] = IF i <= Len(a) THEN a[i] ELSE b[i - Len(a)]
  BY ConcatProperties
<1>3. c \in Seq(S) /\ Len(c) = Len(b) + 1 /\ c[Len(b) + 1] = x /\ \A i \in 1..Len(b) : c[i] = b[i]
  BY AppendProperties
<1> HIDE DEF c
<1>4. /\ r \in Seq(S) /\ Len(r) = n + 1
      /\ \A i \in 1..n + 1 : r[i] = IF i <= Len(a) THEN a[i] ELSE c[i - Len(a)]
  <2>1. /\ r \in Seq(S) /\ Len(r) = Len(a) + Len(c)
        /\ \A i \in 1..Len(a) + Len(c) : r[i] = IF i <= Len(a) THEN a[i] ELSE c[i - Len(a)]
    BY <1>3, ConcatProperties
  <2>2. Len(a) + Len(c) = n + 1
    BY <1>1, <1>3
  <2> QED BY <2>1, <2>2
<1> HIDE DEF s, r
<1>5. DOMAIN s = 1..n /\ DOMAIN r = 1..(n + 1) /\ n \in Nat
  BY <1>1, <1>2, <1>4, LenProperties
<1>6. ASSUME NEW k \in 1..n
      PROVE  r[k] = s[k]
  <2>1. k \in 1..n + 1
    BY <1>1
  <2>2. ~(k <= Len(a)) => k - Len(a) \in 1..Len(b)
    BY <1>1
  <2> QED BY <2>1, <2>2, <1>2, <1>3, <1>4
<1>7. r[n + 1] = x
  <2>1. n + 1 \in 1..n + 1 /\ ~(n + 1 <= Len(a)) /\ (n + 1) - Len(a) = Len(b) + 1
    BY <1>1
  <2> QED BY <2>1, <1>3, <1>4
<1> QED BY <1>5, <1>6, <1>7 DEF s, r, c

LinesOf(c) == IF c = Nobody THEN <<>> ELSE text[c].lines

LEMMA WrittenIs ==
  ASSUME TableInv, NEW c \in Classes
  PROVE  /\ Written(c) = LinesOf(text[c].header.trait) \o text[c].lines
         /\ LinesOf(text[c].header.trait) \in Seq(ToSet(LinesOf(text[c].header.trait)))
         /\ text[c].lines \in Seq(ToSet(text[c].lines))
         /\ \A k \in DOMAIN text[c].lines : text[c].lines[k].k = "var" =>
               text[c].lines[k].name = <<c, k>> /\ k \in 1..Len(text[c].lines)
         /\ \A k \in DOMAIN LinesOf(text[c].header.trait) : LinesOf(text[c].header.trait)[k].k = "var" =>
               LinesOf(text[c].header.trait)[k].name = <<text[c].header.trait, k>>
<1> DEFINE trait == text[c].header.trait
<1>1. trait \in Classes \cup {Nobody} /\ text[c].lines \in Seq(ToSet(text[c].lines))
  BY DEF TableInv, TableType, IsText
<1>2. LinesOf(trait) \in Seq(ToSet(LinesOf(trait)))
  <2>1. CASE trait = Nobody
    <3>1. <<>> \in Seq(ToSet(<<>>))
      BY EmptySeq
    <3> QED BY <2>1, <3>1 DEF LinesOf
  <2>2. CASE trait # Nobody
    BY <2>2, <1>1 DEF LinesOf, TableInv, TableType, IsText
  <2> QED BY <2>1, <2>2
<1>3. \A k \in DOMAIN text[c].lines : text[c].lines[k].k = "var" =>
         text[c].lines[k].name = <<c, k>> /\ k \in 1..Len(text[c].lines)
  BY <1>1, LenProperties DEF TableInv, NamedAfterLine
<1>4. \A k \in DOMAIN LinesOf(trait) : LinesOf(trait)[k].k = "var" => LinesOf(trait)[k].name = <<trait, k>>
  <2>1. CASE trait = Nobody
    <3>1. DOMAIN <<>> = {}
      BY EmptySeq
    <3> QED BY <2>1, <3>1 DEF LinesOf
  <2>2. CASE trait # Nobody
    BY <2>2, <1>1 DEF LinesOf, TableInv, NamedAfterLine
  <2> QED BY <2>1, <2>2
<1>5. Written(c) = LinesOf(trait) \o text[c].lines
  BY DEF Written, LinesOf
<1> QED BY <1>1, <1>2, <1>3, <1>4, <1>5

HasOneMore(lines, more, line) ==
  \E n \in Nat : /\ DOMAIN lines = 1..n /\ DOMAIN more = 1..(n + 1)
                 /\ \A k \in 1..n : more[k] = lines[k]
                 /\ more[n + 1] = line

LEMMA WrittenGrows ==
  ASSUME TableInv, NEW c \in Classes, c \notin UsedBy(c), NEW line,
         text' = [text EXCEPT ![c].lines = Append(@, line)]
  PROVE  /\ HasOneMore(Written(c), Written(c)', line)
         /\ \A k \in VariablesOf(Written(c)) : Written(c)[k].name # <<c, Len(text[c].lines) + 1>>
         /\ text'[c].header = text[c].header /\ DOMAIN text'[c] = DOMAIN NoText
         /\ text'[c].lines = Append(text[c].lines, line)
         /\ \A d \in Classes : d # c => text'[d] = text[d]
         /\ text' = [text EXCEPT ![c] = [text[c] EXCEPT !.lines = Append(@, line)]]
<1> DEFINE trait == text[c].header.trait
           a == LinesOf(trait)
           b == text[c].lines
           S == ToSet(a) \cup ToSet(b) \cup {line}
           n == Len(a) + Len(b)
<1>0. TableType /\ DOMAIN text = Classes /\ IsText(text[c])
  BY DEF TableInv, TableType
<1>1. /\ text'[c].header = text[c].header /\ DOMAIN text'[c] = DOMAIN NoText
      /\ text'[c].lines = Append(text[c].lines, line)
      /\ \A d \in Classes : d # c => text'[d] = text[d]
  BY <1>0 DEF IsText, NoText
<1>2. trait # c /\ trait \in Classes \cup {Nobody}
  BY <1>0, UsedTypes DEF IsText
<1>3. /\ Written(c) = a \o b /\ a \in Seq(ToSet(a)) /\ b \in Seq(ToSet(b))
      /\ \A k \in DOMAIN b : b[k].k = "var" => b[k].name = <<c, k>> /\ k \in 1..Len(b)
      /\ \A k \in DOMAIN a : a[k].k = "var" => a[k].name = <<trait, k>>
  BY WrittenIs
<1>4. Written(c)' = a \o Append(b, line)
  <2>1. Written(c)' = (IF text'[c].header.trait = Nobody THEN <<>> ELSE text'[text'[c].header.trait].lines) \o text'[c].lines
    BY DEF Written
  <2>2. text'[c].header.trait = trait /\ text'[c].lines = Append(b, line)
    BY <1>1
  <2>3. trait # Nobody => text'[trait].lines = text[trait].lines
    BY <1>1, <1>2
  <2> HIDE DEF trait, b
  <2>4. CASE trait = Nobody
    BY <2>1, <2>2, <2>4 DEF LinesOf
  <2>5. CASE trait # Nobody
    BY <2>1, <2>2, <2>3, <2>5 DEF LinesOf
  <2> QED BY <2>4, <2>5
<1> HIDE DEF a, b
<1>5. a \in Seq(S) /\ b \in Seq(S) /\ line \in S
  <2> DEFINE A == ToSet(a)
             B == ToSet(b)
  <2>1. a \in Seq(A) /\ b \in Seq(B)
    BY <1>3
  <2> HIDE DEF A, B
  <2>2. a \in Seq(A \cup B \cup {line}) /\ b \in Seq(A \cup B \cup {line})
    BY <2>1
  <2> QED BY <2>2 DEF A, B
<1> HIDE DEF S
<1>6. /\ n \in Nat /\ DOMAIN (a \o b) = 1..n /\ DOMAIN (a \o Append(b, line)) = 1..(n + 1)
      /\ \A k \in 1..n : (a \o Append(b, line))[k] = (a \o b)[k]
      /\ (a \o Append(b, line))[n + 1] = line
  BY <1>5, ConcatAppend
<1>7. HasOneMore(Written(c), Written(c)', line)
  BY <1>3, <1>4, <1>6 DEF HasOneMore
<1>8. ASSUME NEW k \in VariablesOf(Written(c))
      PROVE  Written(c)[k].name # <<c, Len(b) + 1>>
  <2>1. /\ Len(a) \in Nat /\ Len(b) \in Nat /\ DOMAIN a = 1..Len(a) /\ DOMAIN b = 1..Len(b)
        /\ \A i \in 1..Len(a) + Len(b) : (a \o b)[i] = IF i <= Len(a) THEN a[i] ELSE b[i - Len(a)]
    BY <1>5, LenProperties, ConcatProperties
  <2>2. k \in 1..n /\ Written(c)[k].k = "var"
    BY <1>3, <1>6 DEF VariablesOf
  <2>3. CASE k <= Len(a)
    <3>1. k \in DOMAIN a /\ Written(c)[k] = a[k]
      BY <2>1, <2>2, <2>3, <1>3
    <3> QED BY <3>1, <2>2, <1>2, <1>3
  <2>4. CASE ~(k <= Len(a))
    <3> DEFINE i == k - Len(a)
    <3>1. i \in 1..Len(b) /\ Written(c)[k] = b[i]
      BY <2>1, <2>2, <2>4, <1>3
    <3> HIDE DEF i
    <3>2. Written(c)[k].name = <<c, i>>
      BY <3>1, <2>1, <2>2, <1>3
    <3>3. i # Len(b) + 1
      BY <3>1, <2>1
    <3> QED BY <3>2, <3>3
  <2> QED BY <2>3, <2>4
<1>9. text' = [text EXCEPT ![c] = [text[c] EXCEPT !.lines = Append(@, line)]]
  OBVIOUS
<1> QED BY <1>1, <1>7, <1>8, <1>9 DEF b

LEMMA TopIs ==
  ASSUME TableInv, open # <<>>
  PROVE  LET top == Final(open)
         IN /\ top \in FrameSet /\ top = open[Len(open)] /\ Len(open) \in DOMAIN open
            /\ top.class \in Classes /\ top.end \in Nat /\ top.later \in Seq(Headers) /\ top.stage \in Nat
            /\ IsOpen(top.class) /\ \A d \in Classes : top.class \notin UsedBy(d)
            /\ Good(top.class) /\ IsClass(classes[top.class]) /\ IsText(text[top.class])
            /\ ~top.closed => Laid(classes[top.class], top.end)
<1> DEFINE top == Final(open)
<1>0. TableType
  BY DEF TableInv
<1>1. top \in FrameSet /\ top = open[Len(open)] /\ Len(open) \in DOMAIN open
  BY <1>0, StackFacts
<1> HIDE DEF top
<1>2. top.class \in Classes /\ top.end \in Nat /\ top.later \in Seq(Headers) /\ top.stage \in Nat
  BY <1>1, FrameFields
<1>3. IsOpen(top.class)
  BY <1>1 DEF IsOpen
<1>4. \A d \in Classes : top.class \notin UsedBy(d)
  BY <1>2, <1>3, NobodyUses
<1>5. Good(top.class)
  BY <1>2, GoodIsInv DEF InvMeans
<1>6. IsClass(classes[top.class]) /\ IsText(text[top.class])
  BY <1>0, <1>2 DEF TableType
<1>7. ~top.closed => Laid(classes[top.class], top.end)
  BY <1>1, <1>5 DEF Good
<1> QED BY <1>1, <1>2, <1>3, <1>4, <1>5, <1>6, <1>7 DEF top

(* The frame on top changes, but it is of the same class and waits for the same headers. *)
LEMMA TopChanges ==
  ASSUME TableInv, open # <<>>, NEW f \in FrameSet, f.class = Final(open).class, f.later = Final(open).later,
         f.closed => f.later # <<>>, open' = Replace(f), declared' = declared
  PROVE  /\ open' \in Seq(FrameSet) /\ DOMAIN open' = DOMAIN open
         /\ open'[Len(open)] = f /\ \A i \in DOMAIN open : i # Len(open) => open'[i] = open[i]
         /\ \A i \in DOMAIN open : open'[i].class = open[i].class
         /\ \A i \in DOMAIN open : open[i].class = f.class => i = Len(open)
         /\ Kept(f.class) /\ OpenOnce' /\ LaterKept(f.class)
         /\ Undeclared' = Undeclared /\ f.class \notin Undeclared
<1>0. TableType /\ OpenOnce /\ Waiting
  BY DEF TableInv
<1>1. /\ open' \in Seq(FrameSet) /\ DOMAIN open' = DOMAIN open
      /\ open'[Len(open)] = f /\ \A i \in DOMAIN open : i # Len(open) => open'[i] = open[i]
  BY <1>0, Replaced
<1>2. Final(open) = open[Len(open)] /\ Len(open) \in DOMAIN open
  BY TopIs
<1>3. \A i \in DOMAIN open : open'[i].class = open[i].class /\ open'[i].later = open[i].later
  BY <1>1, <1>2
<1>4. \A i \in DOMAIN open : open[i].class = f.class => i = Len(open)
  BY <1>0, <1>2 DEF OpenOnce
<1>5. Kept(f.class)
  BY <1>1, <1>2, <1>4 DEF Kept
<1>6. OpenOnce'
  BY <1>0, <1>1, <1>3 DEF OpenOnce
<1>7. Undeclared' = Undeclared
  BY DEF Undeclared
<1>8. IsOpen(f.class) /\ f.class \notin Undeclared
  BY <1>0, <1>2 DEF IsOpen, Waiting, Untouched
<1>9. LaterKept(f.class)
  <2>1. ASSUME NEW i \in DOMAIN open'
        PROVE  open'[i].closed => open'[i].later # <<>>
    <3>1. CASE i = Len(open)
      BY <3>1, <1>1
    <3>2. CASE i # Len(open)
      BY <3>2, <1>0, <1>1 DEF Waiting
    <3> QED BY <3>1, <3>2
  <2>2. ASSUME NEW i \in DOMAIN open'
        PROVE  /\ i \in DOMAIN open /\ \A j \in 1..i : open'[j].class = open[j].class
               /\ \E s \in Nat : \A k \in DOMAIN open'[i].later :
                    /\ k + s \in DOMAIN open[i].later /\ open'[i].later[k] = open[i].later[k + s]
                    /\ open'[i].later[k].name # f.class
    <3>1. i \in DOMAIN open /\ DOMAIN open = 1..Len(open) /\ Len(open) \in Nat /\ open[i] \in FrameSet
      BY <1>0, <1>1, StackFacts
    <3>2. \A j \in 1..i : open'[j].class = open[j].class
      BY <3>1, <1>3
    <3>3. ASSUME NEW k \in DOMAIN open'[i].later
          PROVE  /\ k + 0 \in DOMAIN open[i].later /\ open'[i].later[k] = open[i].later[k + 0]
                 /\ open'[i].later[k].name # f.class
      <4>1. k \in DOMAIN open[i].later /\ open'[i].later[k] = open[i].later[k]
        BY <3>1, <1>3
      <4>2. k \in Nat
        BY <3>1, <4>1, FrameFields, LenProperties
      <4>3. ~IsOpen(open[i].later[k].name)
        BY <3>1, <4>1, <1>0 DEF Waiting, Untouched
      <4> QED BY <4>1, <4>2, <4>3, <1>8
    <3> QED BY <3>1, <3>2, <3>3
  <2> QED BY <2>1, <2>2 DEF LaterKept
<1> QED BY <1>1, <1>3, <1>4, <1>5, <1>6, <1>7, <1>8, <1>9

ReadsFits(line, cl, end) ==
  LET c == Final(open).class
      old == classes[c]
  IN /\ IsClass(cl) /\ cl.parent = old.parent /\ cl.meta = old.meta /\ cl.parsed = old.parsed
     /\ \/ cl.elements = old.elements /\ line.k # "var" /\ end = Final(open).end
        \/ /\ line.k = "var" /\ line.name = <<c, Len(text[c].lines) + 1>>
           /\ \E type \in Types : /\ HasGrown(cl, old, line.name, type) /\ End(cl) = end
                                  /\ type # c
                                  /\ type \in Classes => classes[type].parsed /\ ~IsOpen(type)

(* Where the parent's elements end. *)
LEMMA ParentIs ==
  ASSUME TableInv, NEW c \in Classes
  PROVE  /\ Parent(c) = Nobody \/ Parent(c) \in UsedBy(c)
         /\ FromParent(c) \in Nat /\ FromParent(c) <= Len(classes[c].elements)
         /\ classes[c].elements \in Seq(ElementSet)
         /\ Parent(c) # Nobody => /\ classes[Parent(c)].elements \in Seq(ElementSet)
                                  /\ Len(classes[Parent(c)].elements) = FromParent(c)
                                  /\ \A i \in 1..FromParent(c) : classes[c].elements[i] = classes[Parent(c)].elements[i]
<1> DEFINE p == Parent(c)
<1>1. /\ p \in Classes \cup {Nobody} /\ IsClass(classes[c])
      /\ p # Nobody => IsClass(classes[p])
  BY DEF TableInv, TableType, IsClass, Parent
<1>2. p = Nobody \/ p \in UsedBy(c)
  BY <1>1 DEF UsedBy, Parent
<1>3. classes[c].elements \in Seq(ElementSet) /\ Len(classes[c].elements) \in Nat
  BY <1>1, LenProperties DEF IsClass
<1>4. CASE p = Nobody
  BY <1>2, <1>3, <1>4 DEF FromParent
<1>5. CASE p # Nobody
  <2>1. classes[p].elements \in Seq(ElementSet) /\ FromParent(c) = Len(classes[p].elements)
        /\ Len(classes[p].elements) \in Nat
    BY <1>1, <1>5, LenProperties DEF IsClass, FromParent
  <2>2. IsPrefix(classes[p].elements, classes[c].elements)
    BY <1>5 DEF TableInv, SoFar, Extends
  <2>3. /\ Len(classes[p].elements) <= Len(classes[c].elements)
        /\ \A i \in 1..Len(classes[p].elements) : classes[c].elements[i] = classes[p].elements[i]
    BY <1>3, <2>1, <2>2, PrefixByEntries
  <2> QED BY <1>2, <1>3, <2>1, <2>3
<1> QED BY <1>4, <1>5

LEMMA ElementTypes ==
  ASSUME TableInv, NEW c \in Classes, c \notin UsedBy(c), NEW es \in Seq(ElementSet),
         NEW m \in Nat, DOMAIN classes[c].elements = 1..m, DOMAIN es = 1..(m + 1),
         \A i \in 1..m : es[i].type = classes[c].elements[i].type
  PROVE  \A e \in ToSet(es) : /\ e.type \in Types
                              /\ e.type = es[m + 1].type \/ \E d \in ToSet(classes[c].elements) : e.type = d.type
<1> SUFFICES ASSUME NEW e \in ToSet(es)
             PROVE  /\ e.type \in Types
                    /\ e.type = es[m + 1].type \/ \E d \in ToSet(classes[c].elements) : e.type = d.type
  OBVIOUS
<1>1. PICK i \in DOMAIN es : e = es[i]
  BY DEF ToSet
<1>2. e.type \in Types
  BY <1>1, ElementFields
<1>3. i = m + 1 \/ i \in 1..m
  BY <1>1
<1>4. \A k \in 1..m : classes[c].elements[k] \in ToSet(classes[c].elements)
  BY DEF ToSet
<1> QED BY <1>1, <1>2, <1>3, <1>4

LEMMA ReadsKeeps ==
  ASSUME TableInv, Inside, NEW line, NEW cl, NEW end \in Nat, NEW stage \in Nat,
         Reads(line, cl, end, stage), ReadsFits(line, cl, end)
  PROVE  TableInv'
<1> PICK c : c = Final(open).class
  OBVIOUS
<1> PICK f : f = [Final(open) EXCEPT !.end = end, !.stage = stage]
  OBVIOUS
<1> DEFINE t == [text[c] EXCEPT !.lines = Append(@, line)]
<1>0. /\ open # <<>> /\ ~Final(open).closed /\ TableType
      /\ c \in Classes /\ IsOpen(c) /\ \A d \in Classes : c \notin UsedBy(d)
      /\ Good(c) /\ IsClass(classes[c]) /\ IsText(text[c]) /\ Laid(classes[c], Final(open).end)
      /\ Final(open) \in FrameSet /\ Final(open) = open[Len(open)] /\ Len(open) \in DOMAIN open
  BY TopIs DEF Inside, TableInv
<1>1. f \in FrameSet /\ f.class = c /\ f.later = Final(open).later /\ ~f.closed /\ f.end = end
  BY <1>0 DEF FrameSet
<1>2. /\ classes' = [classes EXCEPT ![c] = cl] /\ open' = Replace(f)
      /\ text' = [text EXCEPT ![c].lines = Append(@, line)] /\ declared' = declared
  BY DEF Reads
<1>3. /\ open' \in Seq(FrameSet) /\ DOMAIN open' = DOMAIN open
      /\ open'[Len(open)] = f /\ \A i \in DOMAIN open : open'[i].class = open[i].class
      /\ \A i \in DOMAIN open : open[i].class = c => i = Len(open)
      /\ Kept(c) /\ OpenOnce' /\ LaterKept(c) /\ Undeclared' = Undeclared /\ c \notin Undeclared
  <2>1. f.class = Final(open).class
    BY <1>1
  <2> QED BY <1>0, <1>1, <1>2, <2>1, TopChanges
<1>4. /\ HasOneMore(Written(c), Written(c)', line)
      /\ \A k \in VariablesOf(Written(c)) : Written(c)[k].name # <<c, Len(text[c].lines) + 1>>
      /\ text'[c].header = text[c].header
      /\ text'[c].lines = Append(text[c].lines, line) /\ text' = [text EXCEPT ![c] = t]
  BY <1>0, <1>2, WrittenGrows
<1>5. IsClass(cl) /\ cl.parent = classes[c].parent /\ cl.meta = classes[c].meta /\ cl.parsed = classes[c].parsed
  BY DEF ReadsFits
<1>6. IsText(t) /\ text[c].lines \in Seq(ToSet(text[c].lines))
  <2>1. DOMAIN t = DOMAIN NoText /\ t.header = text[c].header /\ t.lines = Append(text[c].lines, line)
    BY <1>0 DEF IsText, NoText
  <2> DEFINE S == ToSet(text[c].lines)
  <2>2. text[c].lines \in Seq(S)
    BY <1>0 DEF IsText
  <2> HIDE DEF S, t
  <2>3. text[c].lines \in Seq(S \cup {line})
    BY <2>2
  <2>4. t.lines \in Seq(S \cup {line})
    BY <2>1, <2>3, AppendProperties
  <2>5. t.lines \in Seq(ToSet(t.lines))
    BY <2>4, SeqOfItself
  <2> QED BY <1>0, <2>1, <2>2, <2>5 DEF IsText, S
<1> HIDE DEF t
<1>7. Changes(c, cl, t)
  BY <1>0, <1>2, <1>3, <1>4, <1>5, <1>6 DEF Changes, TableType
<1>8. Waiting'
  BY <1>0, <1>3, <1>7, WaitingStays
<1>9. /\ classes'[c] = cl /\ \A d \in Classes : d # c => classes'[d] = classes[d]
      /\ \A d \in Classes : IsOpen(d)' <=> IsOpen(d)
  <2>1. \A d \in Classes : IsOpen(d)' <=> IsOpen(d)
    BY <1>3 DEF IsOpen
  <2> QED BY <1>0, <1>2, <2>1, TypesStay, ZenonT(40)
(* What it is made of now. *)
<1>10. /\ Laid(cl, end)
       /\ \A e \in ToSet(cl.elements) : e.type \in Types /\ e.type # c
       /\ UsedBy(c)' \subseteq Classes
       /\ \A u \in UsedBy(c)' : u # c /\ classes[u].parsed /\ ~IsOpen(u)
  <2>0. \A u \in UsedBy(c) : u # c /\ classes[u].parsed /\ ~IsOpen(u)
    BY <1>0 DEF Good
  <2>1. UsedBy(c)' = Classes \cap ({cl.parent, text[c].header.trait} \cup {e.type : e \in ToSet(cl.elements)})
    BY <1>4, <1>9 DEF UsedBy
  <2>2. CASE cl.elements = classes[c].elements /\ end = Final(open).end
    <3>1. Laid(cl, end)
      BY <1>0, <2>2 DEF Laid
    <3>2. UsedBy(c)' = UsedBy(c)
      BY <2>1, <2>2, <1>5 DEF UsedBy
    <3>3. \A e \in ToSet(cl.elements) : e.type \in Types /\ e.type # c
      BY <1>0, <2>2, UsedTypes
    <3> QED BY <2>0, <3>1, <3>2, <3>3 DEF UsedBy
  <2>3. ASSUME NEW type \in Types, HasGrown(cl, classes[c], line.name, type), End(cl) = end, type # c,
               type \in Classes => classes[type].parsed /\ ~IsOpen(type)
        PROVE  /\ Laid(cl, end)
               /\ \A e \in ToSet(cl.elements) : e.type \in Types /\ e.type # c
               /\ UsedBy(c)' \subseteq Classes
               /\ \A u \in UsedBy(c)' : u # c /\ classes[u].parsed /\ ~IsOpen(u)
    <3> DEFINE m == Len(classes[c].elements)
    <3>1. /\ m \in Nat /\ DOMAIN classes[c].elements = 1..m /\ DOMAIN cl.elements = 1..(m + 1)
          /\ \A i \in 1..m : cl.elements[i].type = classes[c].elements[i].type
          /\ cl.elements[m + 1].type = type /\ Laid(cl, end)
      BY <2>3 DEF HasGrown
    <3> HIDE DEF m
    <3>2. \A e \in ToSet(cl.elements) : /\ e.type \in Types
                                        /\ e.type = type \/ \E d \in ToSet(classes[c].elements) : e.type = d.type
      <4>1. cl.elements \in Seq(ElementSet)
        BY <1>5 DEF IsClass
      <4>2. \A e \in ToSet(cl.elements) :
               /\ e.type \in Types
               /\ e.type = cl.elements[m + 1].type \/ \E d \in ToSet(classes[c].elements) : e.type = d.type
        BY <1>0, <3>1, <4>1, ElementTypes
      <4> QED BY <3>1, <4>2
    <3>3. \A d \in ToSet(classes[c].elements) : d.type # c
      BY <1>0, UsedTypes
    <3>4. UsedBy(c)' \subseteq UsedBy(c) \cup {type}
      BY <2>1, <3>2, <1>5 DEF UsedBy
    <3>5. UsedBy(c)' \subseteq Classes
      BY <2>1
    <3> QED BY <2>0, <2>3, <3>1, <3>2, <3>3, <3>4, <3>5
  <2> QED BY <2>2, <2>3 DEF ReadsFits
<1>11. Laid(cl, end)'
  BY <1>0, <1>2, <1>10, LaidStays
<1>12. Extends(c)' /\ FromParent(c)' = FromParent(c) /\ FromParent(c) \in Nat /\ FromParent(c) <= Len(classes[c].elements)
  <2>1. /\ Parent(c) = Nobody \/ Parent(c) \in UsedBy(c)
        /\ FromParent(c) \in Nat /\ FromParent(c) <= Len(classes[c].elements)
        /\ classes[c].elements \in Seq(ElementSet)
        /\ Parent(c) # Nobody => /\ classes[Parent(c)].elements \in Seq(ElementSet)
                                 /\ Len(classes[Parent(c)].elements) = FromParent(c)
                                 /\ \A i \in 1..FromParent(c) : classes[c].elements[i] = classes[Parent(c)].elements[i]
    BY <1>0, ParentIs
  <2>2. Parent(c)' = Parent(c)
    BY <1>5, <1>9 DEF Parent
  <2>3. Parent(c) # Nobody => Parent(c) \in Classes /\ Parent(c) # c
    BY <2>1, <1>0 DEF UsedBy
  <2>4. FromParent(c)' = FromParent(c)
    BY <2>2, <2>3, <1>9 DEF FromParent
  <2>5. Extends(c)'
    <3> SUFFICES ASSUME Parent(c) # Nobody
                 PROVE  IsPrefix(classes[Parent(c)].elements, cl.elements)
      BY <2>2, <2>3, <1>9 DEF Extends
    <3>1. IsPrefix(classes[Parent(c)].elements, classes[c].elements)
      BY <1>0 DEF Good, Extends
    <3>2. CASE cl.elements = classes[c].elements
      BY <3>1, <3>2
    <3>3. ASSUME NEW type \in Types, HasGrown(cl, classes[c], line.name, type)
          PROVE  IsPrefix(classes[Parent(c)].elements, cl.elements)
      <4> DEFINE m == Len(classes[c].elements)
      <4>1. /\ m \in Nat /\ DOMAIN cl.elements = 1..(m + 1)
            /\ \A i \in 1..m : cl.elements[i] = classes[c].elements[i]
        BY <3>3 DEF HasGrown
      <4>2. cl.elements \in Seq(ElementSet) /\ Len(cl.elements) = m + 1
        <5>1. cl.elements \in Seq(ElementSet)
          BY <1>5 DEF IsClass
        <5> HIDE DEF m
        <5> QED BY <4>1, <5>1, LenProperties
      <4>3. /\ FromParent(c) <= m + 1
            /\ \A i \in 1..FromParent(c) : cl.elements[i] = classes[Parent(c)].elements[i]
        BY <2>1, <4>1
      <4> QED BY <2>1, <4>2, <4>3, PrefixByEntries, SMTT(40)
    <3> QED BY <3>2, <3>3 DEF ReadsFits
  <2> QED BY <2>1, <2>4, <2>5
<1>13. Ordered(cl.elements, FromParent(c), Written(c)')
  <2> DEFINE lines == Written(c)
             more == Written(c)'
             from == FromParent(c)
  <2>1. Ordered(classes[c].elements, from, lines)
    BY <1>0, InOrderIsOrdered DEF Good
  <2>2. PICK n \in Nat : /\ DOMAIN lines = 1..n /\ DOMAIN more = 1..(n + 1)
                         /\ \A k \in 1..n : more[k] = lines[k]
                         /\ more[n + 1] = line
    BY <1>4 DEF HasOneMore
  <2>3. from \in Nat /\ from <= Len(classes[c].elements)
    BY <1>12
  <2>4. \A k \in VariablesOf(lines) : lines[k].name # <<c, Len(text[c].lines) + 1>>
    BY <1>4
  <2> HIDE DEF lines, more, from
  <2>5. CASE cl.elements = classes[c].elements /\ line.k # "var"
    <3>1. Ordered(classes[c].elements, from, more)
      BY <2>1, <2>2, <2>5, OrderedSkips
    <3> QED BY <2>5, <3>1 DEF more, from
  <2>6. ASSUME NEW type \in Types, HasGrown(cl, classes[c], line.name, type), line.k = "var",
               line.name = <<c, Len(text[c].lines) + 1>>
        PROVE  Ordered(cl.elements, from, more)
    <3> DEFINE m == Len(classes[c].elements)
               es == classes[c].elements
               es2 == cl.elements
    <3>1. /\ m \in Nat /\ DOMAIN es = 1..m /\ DOMAIN es2 = 1..(m + 1)
          /\ \A i \in 1..m : es2[i] = es[i]
          /\ es2[m + 1].name = line.name
      BY <2>6 DEF HasGrown
    <3>2. line.name # VtableVar.name
      <4>1. Len(text[c].lines) \in Nat
        BY <1>6, LenProperties
      <4>2. VtableVar.name = <<"-vtable-", 0>>
        BY DEF VtableVar, Element
      <4> QED BY <4>1, <4>2, <2>6
    <3>3. ~Hidden(es2[m + 1])
      BY <3>1, <3>2 DEF Hidden
    <3>4. from <= m
      BY <2>3
    <3>5. Ordered(es, from, lines)
      BY <2>1
    <3> HIDE DEF m, es, es2
    <3>6. /\ more[n + 1].k = "var" /\ es2[m + 1].name = more[n + 1].name
          /\ \A k \in VariablesOf(lines) : lines[k].name # more[n + 1].name
      BY <3>1, <2>2, <2>4, <2>6
    <3>7. Ordered(es2, from, more)
      BY <3>1, <3>3, <3>4, <3>5, <3>6, <2>2, <2>3, OrderedGrows
    <3> QED BY <3>7 DEF es2
  <2> QED BY <2>5, <2>6 DEF ReadsFits, more, from
<1>14. InOrder(c)'
  <2>1. OrderMeans'
    BY OrderedClasses, PTL
  <2>2. Ordered(classes[c].elements, FromParent(c), Written(c))'
    BY <1>9, <1>12, <1>13 DEF Ordered, ShownBehind, VariablesOf, Hidden
  <2> QED BY <1>0, <2>1, <2>2 DEF OrderMeans
<1>15. Good(c)'
  <2>1. ASSUME NEW u \in UsedBy(c)'
        PROVE  u # c /\ (classes[u].parsed)' /\ ~IsOpen(u)'
    BY <1>9, <1>10
  <2>2. ASSUME NEW i \in (DOMAIN open)', (open[i].class = c)'
        PROVE  Laid(classes[c], open[i].end)'
    <3>1. i = Len(open) /\ open'[i].end = end /\ classes'[c] = cl
      BY <2>2, <1>1, <1>3, <1>9
    <3> QED BY <3>1, <1>11 DEF Laid
  <2>3. InWork(c)'
    BY <1>0, <1>1, <1>3 DEF InWork
  <2>4. ASSUME NEW n \in (DOMAIN text[c].lines)', (text[c].lines[n].k = "var")'
        PROVE  (text[c].lines[n].name = <<c, n>>)'
    <3> DEFINE b == text[c].lines
               m == Len(text[c].lines)
               S == ToSet(b) \cup {line}
    <3>1. b \in Seq(S) /\ line \in S
      <4> DEFINE B == ToSet(b)
      <4>1. b \in Seq(B)
        BY <1>6
      <4> HIDE DEF B
      <4>2. b \in Seq(B \cup {line})
        BY <4>1
      <4> QED BY <4>2 DEF B
    <3>2. b \in Seq(S) /\ m \in Nat /\ DOMAIN b = 1..m /\ DOMAIN Append(b, line) = 1..m + 1
          /\ Append(b, line)[m + 1] = line /\ \A i \in 1..m : Append(b, line)[i] = b[i]
      <4> HIDE DEF S, b
      <4>1. /\ Append(b, line) \in Seq(S) /\ Len(Append(b, line)) = Len(b) + 1 /\ Append(b, line)[Len(b) + 1] = line
            /\ \A i \in 1..Len(b) : Append(b, line)[i] = b[i]
        BY <3>1, AppendProperties
      <4> QED BY <3>1, <4>1, LenProperties DEF b
    <3>3. text'[c].lines = Append(b, line)
      BY <1>4
    <3>4. \A k \in DOMAIN b : b[k].k = "var" => b[k].name = <<c, k>>
      BY <1>0 DEF Good
    <3>5. line.k = "var" => line.name = <<c, m + 1>>
      BY DEF ReadsFits
    <3> HIDE DEF b, m, S
    <3>6. n \in 1..m + 1
      BY <3>2, <3>3, <2>4
    <3>7. CASE n = m + 1
      BY <3>2, <3>3, <3>5, <3>7, <2>4
    <3>8. CASE n \in 1..m
      BY <3>2, <3>3, <3>4, <3>8, <2>4
    <3> QED BY <3>2, <3>6, <3>7, <3>8
  <2>5. (classes[c].meta = "trait" => Parent(c) = Nobody /\ text[c].header.trait = Nobody)'
    BY <1>0, <1>4, <1>5, <1>9 DEF Good, Parent
  <2> QED BY <1>12, <1>14, <2>1, <2>2, <2>3, <2>4, <2>5 DEF Good
<1> QED BY <1>0, <1>3, <1>7, <1>8, <1>15, OneChanges

-----------------------------------------------------------------------------
(* Nothing is read yet, or everything is forgotten. *)
Empty == /\ classes = [c \in Classes |-> NewClass] /\ text = [c \in Classes |-> NoText]
         /\ open = <<>> /\ declared \in 0..Len(Names)
EmptyMeans == Empty => TableInv

LEMMA EmptyIsFine ==
  EmptyMeans
<1> SUFFICES ASSUME Empty
             PROVE  TableInv
  BY DEF EmptyMeans
<1>1. /\ \A c \in Classes : classes[c] = NewClass /\ text[c] = NoText
      /\ DOMAIN classes = Classes /\ DOMAIN text = Classes /\ open = <<>> /\ declared \in 0..Len(Names)
  BY DEF Empty
<1>2. /\ NewClass.parent = Nobody /\ NewClass.elements = <<>> /\ NewClass.size = 0 /\ NewClass.align = 1
      /\ NewClass.vtable = 0 /\ NewClass.parsed = FALSE /\ NewClass.meta = "class"
  BY DEF NewClass
<1>3. NoText.lines = <<>> /\ NoText.header.trait = Nobody
  BY DEF NoText, Header
<1>4. /\ <<>> \in Seq(ElementSet) /\ <<>> \in Seq(FrameSet) /\ <<>> \in Seq(ToSet(<<>>)) /\ 1 \in Alignments
      /\ DOMAIN <<>> = {} /\ ToSet(<<>>) = {}
  BY Powers, EmptySeq DEF ToSet
<1>5. IsClass(NewClass) /\ IsText(NoText)
  <2>1. NewClass.elements \in Seq(ElementSet) /\ NewClass.align \in Alignments /\ NewClass.parent \in Classes \cup {Nobody}
    BY <1>2, <1>4
  <2>2. NewClass.parsed \in BOOLEAN
    BY <1>2, Zenon
  <2>3. NewClass.size \in Nat
    BY <1>2
  <2>4. NoText.lines \in Seq(ToSet(NoText.lines)) /\ NoText.header.trait \in Classes \cup {Nobody}
    BY <1>3, <1>4
  <2> QED BY <2>1, <2>2, <2>3, <2>4 DEF IsClass, IsText
<1>6. TableType
  <2>1. open \in Seq(FrameSet)
    BY <1>1, <1>4
  <2>2. text = [c \in Classes |-> text[c]]
    BY DEF Empty
  <2>3. classes = [c \in Classes |-> classes[c]]
    BY DEF Empty
  <2> QED BY <1>1, <1>5, <2>1, <2>2, <2>3 DEF TableType
<1>7. DOMAIN open = {}
  BY <1>1, <1>4
<1>8. OpenOnce
  BY <1>7 DEF OpenOnce
<1>9. Waiting
  <2>1. \A c \in Undeclared : c \in Classes
    BY <1>1, UndeclaredAre
  <2>2. \A c \in Classes : Untouched(c)
    BY <1>1, <1>2, <1>7 DEF Untouched, IsOpen
  <2> QED BY <2>1, <2>2, <1>7 DEF Waiting
<1>10. ASSUME NEW c \in Classes
       PROVE  Good(c)
  <2>1. UsedBy(c) = {}
    <3>1. ToSet(classes[c].elements) = {} /\ classes[c].parent = Nobody /\ text[c].header.trait = Nobody
      BY <1>1, <1>2, <1>3, <1>4
    <3>2. Nobody \notin Classes
      BY TableConstants DEF Classes, Nobody
    <3> QED BY <3>1, <3>2 DEF UsedBy
  <2>2. Whole(classes[c])
    <3>1. 0 % 1 = 0
      OBVIOUS
    <3>2. ToSet(NewClass.elements) = {} /\ DOMAIN NewClass.elements = {}
      BY <1>2, <1>4
    <3> QED BY <1>1, <1>2, <3>1, <3>2 DEF Whole, Laid
  <2>3. Parent(c) = Nobody /\ Extends(c)
    BY <1>1, <1>2 DEF Parent, Extends
  <2>4. InOrder(c)
    <3>1. Written(c) = <<>>
      <4>1. Written(c) = <<>> \o <<>>
        BY <1>1, <1>3 DEF Written
      <4>2. <<>> \o <<>> = <<>>
        BY <1>4, EmptySeq, ConcatProperties
      <4> QED BY <4>1, <4>2
    <3>2. Variables(c) = {} /\ Shown(c) = {}
      BY <1>1, <1>2, <1>4, <3>1 DEF Variables, Shown, Own
    <3> QED BY <3>2 DEF InOrder
  <2>5. DOMAIN text[c].lines = {}
    BY <1>1, <1>3, <1>4
  <2>6. classes[c].meta # "trait"
    BY <1>1, <1>2
  <2> QED BY <1>7, <2>1, <2>2, <2>3, <2>4, <2>5, <2>6 DEF Good
<1> QED BY <1>6, <1>8, <1>9, <1>10, GoodIsInv DEF InvMeans

LEMMA RejectKeeps ==
  ASSUME Reject
  PROVE  TableInv'
<1>1. Empty'
  <2>1. Len(Names) \in Nat
    BY TableConstants, LenProperties
  <2> QED BY <2>1 DEF Reject, Empty
<1>2. EmptyMeans'
  BY EmptyIsFine, PTL
<1> QED BY <1>1, <1>2 DEF EmptyMeans

(* A program does not use a class before it is complete, except as a parent, and
   adds nothing to one that another class is made of. *)
WithinLimits == {"use of a class that is still open", "override of a class in use"} \cap Defects = {}

LEMMA SettledMeans ==
  ASSUME WithinLimits, NEW c, Settled(c)
  PROVE  c = Nobody \/ ~IsOpen(c)
BY DEF WithinLimits, Settled, Allowed

LEMMA GrownStays ==
  ASSUME NEW cl, NEW new, NEW old, NEW name, NEW type, HasGrown(new, old, name, type), SameLayout(new, cl)
  PROVE  HasGrown(cl, old, name, type) /\ End(cl) = End(new) /\ cl.elements = new.elements
<1>1. /\ cl.elements = new.elements /\ cl.parent = new.parent /\ cl.meta = new.meta /\ cl.size = new.size
      /\ cl.align = new.align /\ cl.parsed = new.parsed /\ DOMAIN cl = DOMAIN NewClass
  BY DEF SameLayout, SameShape
<1>2. End(cl) = End(new)
  BY <1>1 DEF End, Final
<1>3. IsClass(cl)
  BY <1>1 DEF HasGrown, IsClass
<1>4. Laid(cl, End(cl))
  BY <1>1, <1>2 DEF HasGrown, Laid
<1> QED BY <1>1, <1>2, <1>3, <1>4 DEF HasGrown

LEMMA AddVariableKeeps ==
  ASSUME TableInv, WithinLimits, NEW v \in VariableLines, AddVariable(v[1], v[2])
  PROVE  TableInv'
<1> DEFINE type == v[1]
           how == v[2]
           c == Final(open).class
           name == <<c, Len(text[c].lines) + 1>>
           new == AddElement(classes[c], Final(open).end, name, type)
           cl == Initialize(new, name, how)
           line == Variable(name, type, how)
<1>1. Inside /\ Settled(type) /\ IF SizeKnown(type) THEN Reads(line, cl, End(new), 1) ELSE Reject
  BY DEF AddVariable, ReadsVariable
<1>2. /\ c \in Classes /\ IsOpen(c) /\ IsClass(classes[c]) /\ IsText(text[c])
      /\ Laid(classes[c], Final(open).end) /\ Final(open).end \in Nat /\ TableType
  BY <1>1, TopIs DEF Inside, TableInv
<1>3. type \in Types /\ name \in (Classes \X Nat)
  <2>1. type \in Types
    BY TableConstants DEF Types, Classes
  <2>2. Len(text[c].lines) + 1 \in Nat
    BY <1>2, LenProperties DEF IsText
  <2> QED BY <2>1, <2>2, <1>2
<1>4. HasGrown(new, classes[c], name, type)
  <2> HIDE DEF type, c, name
  <2> QED BY <1>2, <1>3, AddElementLaid
<1> HIDE DEF new
<1>5. SameLayout(new, cl)
  BY <1>4, InitializeShape DEF HasGrown, IsClass
<1> HIDE DEF cl
<1>6. /\ HasGrown(cl, classes[c], name, type) /\ End(cl) = End(new)
      /\ IsClass(cl) /\ cl.parent = classes[c].parent /\ cl.meta = classes[c].meta /\ cl.parsed = classes[c].parsed
      /\ End(new) \in Nat
  <2>1. HasGrown(cl, classes[c], name, type) /\ End(cl) = End(new)
    BY <1>4, <1>5, GrownStays
  <2> QED BY <2>1, <1>4 DEF HasGrown
<1>7. line.k = "var" /\ line.name = name
  BY DEF Variable
<1>8. CASE SizeKnown(type)
  <2>1. type \in Classes => classes[type].parsed /\ ~IsOpen(type)
    <3> SUFFICES ASSUME type \in Classes
                 PROVE  classes[type].parsed /\ ~IsOpen(type)
      OBVIOUS
    <3>1. type \notin DOMAIN Basic /\ type # Nobody
      BY TableConstants DEF Classes, Nobody
    <3>2. classes[type].parsed
      BY <3>1, <1>8 DEF SizeKnown, IsBasic
    <3> QED BY <3>1, <3>2, <1>1, SettledMeans
  <2>2. type # c
    BY <2>1, <1>2
  <2>3. ReadsFits(line, cl, End(new))
    <3>1. line.k = "var" /\ line.name = <<Final(open).class, Len(text[Final(open).class].lines) + 1>>
      BY <1>7
    <3> QED BY <1>3, <1>6, <3>1, <2>1, <2>2 DEF ReadsFits
  <2>4. Reads(line, cl, End(new), 1)
    BY <1>1, <1>8
  <2> HIDE DEF line, type
  <2> QED BY <1>1, <1>6, <2>3, <2>4, ReadsKeeps
<1>9. CASE ~SizeKnown(type)
  BY <1>1, <1>9, RejectKeeps
<1> QED BY <1>8, <1>9

LEMMA AddOtherVariableKeeps ==
  ASSUME TableInv, NEW how, AddOtherVariable(how)
  PROVE  TableInv'
<1> DEFINE c == Final(open).class
<1>1. /\ Inside
      /\ \E name : Reads([Variable(name, "pointer", how) EXCEPT !.k = "other"],
                         Initialize(classes[c], name, how), Final(open).end, 1)
  BY DEF AddOtherVariable, ReadsVariable
<1>2. PICK name : Reads([Variable(name, "pointer", how) EXCEPT !.k = "other"],
                         Initialize(classes[c], name, how), Final(open).end, 1)
  BY <1>1
<1> DEFINE line == [Variable(name, "pointer", how) EXCEPT !.k = "other"]
           cl == Initialize(classes[c], name, how)
<1>3. c \in Classes /\ IsClass(classes[c]) /\ Final(open).end \in Nat
  BY <1>1, TopIs DEF Inside, TableInv
<1>4. SameLayout(classes[c], cl)
  BY <1>3, InitializeShape DEF IsClass
<1>5. line.k = "other"
  BY DEF Variable
<1> HIDE DEF cl, line
<1>6. ReadsFits(line, cl, Final(open).end)
  <2>1. IsClass(cl)
    BY <1>3, <1>4 DEF IsClass, SameLayout, SameShape
  <2> QED BY <1>4, <1>5, <2>1 DEF ReadsFits, SameLayout, SameShape
<1> QED BY <1>1, <1>2, <1>3, <1>6, ReadsKeeps DEF cl, line

LEMMA AddLineKeeps ==
  ASSUME TableInv, NEW n \in DOMAIN FunctionLines, AddLine(n)
  PROVE  TableInv'
<1> DEFINE given == FunctionLines[n]
           c == Final(open).class
           f == [Function(given.name, given.params, c, "user") EXCEPT !.super = given.super, !.flags = given.flags]
           line == [k |-> "func", f |-> f]
           cl == AddFunction(classes[c], f, IsVirtual(f), IsOverride(f))
<1>1. Inside /\ (Reads(line, cl, Final(open).end, n + 1) \/ Reject)
  BY DEF AddLine
<1>2. c \in Classes /\ IsClass(classes[c]) /\ Final(open).end \in Nat
  BY <1>1, TopIs DEF Inside, TableInv
<1>3. n + 1 \in Nat
  <2>1. FunctionLines \in Seq(ToSet(FunctionLines))
    BY TableConstants
  <2>2. n \in Nat
    BY <2>1, LenProperties
  <2> QED BY <2>2
<1>4. line.k = "func"
  OBVIOUS
<1>5. SameShape(classes[c], cl)
  <2> HIDE DEF f
  <2> QED BY <1>2, AddFunctionShape DEF IsClass
<1> HIDE DEF cl, line
<1>6. ReadsFits(line, cl, Final(open).end)
  <2>1. IsClass(cl)
    BY <1>2, <1>5 DEF IsClass, SameShape
  <2> QED BY <1>4, <1>5, <2>1 DEF ReadsFits, SameShape
<1> DEFINE stage == n + 1
<1>7. stage \in Nat /\ (Reads(line, cl, Final(open).end, stage) \/ Reject)
  BY <1>1, <1>3
<1> HIDE DEF stage
<1> QED BY <1>1, <1>2, <1>6, <1>7, ReadsKeeps, RejectKeeps

-----------------------------------------------------------------------------
(* The end of a body. *)
LEMMA TopLeaves ==
  ASSUME TableInv, open # <<>>, open' = Front(open), declared' = declared
  PROVE  LET c == Final(open).class
         IN /\ open' \in Seq(FrameSet)
            /\ \A i \in DOMAIN open' : open'[i].class # c
            /\ \A i \in DOMAIN open' : i \in DOMAIN open /\ open'[i] = open[i]
            /\ Kept(c) /\ OpenOnce' /\ LaterKept(c)
            /\ Undeclared' = Undeclared /\ c \notin Undeclared
<1> DEFINE c == Final(open).class
<1>0. TableType /\ OpenOnce /\ Waiting
  BY DEF TableInv
<1>1. /\ open' \in Seq(FrameSet) /\ Len(open') = Len(open) - 1 /\ DOMAIN open' = 1..(Len(open) - 1)
      /\ \A i \in 1..(Len(open) - 1) : open'[i] = open[i]
  BY <1>0, Popped
<1>2. /\ Len(open) \in DOMAIN open /\ Final(open) = open[Len(open)] /\ IsOpen(c)
      /\ DOMAIN open = 1..Len(open) /\ Len(open) \in Nat
  BY <1>0, TopIs, StackFacts
<1>3. \A i \in DOMAIN open' : i \in DOMAIN open /\ open'[i] = open[i] /\ i # Len(open)
  BY <1>1, <1>2
<1>4. \A i \in DOMAIN open' : open'[i].class # c
  BY <1>0, <1>2, <1>3 DEF OpenOnce
<1>5. \A j \in DOMAIN open : open[j].class # c => j \in DOMAIN open'
  BY <1>1, <1>2
<1>6. Kept(c)
  BY <1>3, <1>5 DEF Kept
<1>7. OpenOnce'
  BY <1>0, <1>3 DEF OpenOnce
<1>8. Undeclared' = Undeclared /\ c \notin Undeclared
  BY <1>0, <1>2 DEF Undeclared, Waiting, Untouched
<1>9. LaterKept(c)
  <2>1. ASSUME NEW i \in DOMAIN open'
        PROVE  open'[i].closed => open'[i].later # <<>>
    BY <1>0, <1>3 DEF Waiting
  <2>2. ASSUME NEW i \in DOMAIN open'
        PROVE  /\ i \in DOMAIN open /\ \A j \in 1..i : open'[j].class = open[j].class
               /\ \E s \in Nat : \A k \in DOMAIN open'[i].later :
                    /\ k + s \in DOMAIN open[i].later /\ open'[i].later[k] = open[i].later[k + s]
                    /\ open'[i].later[k].name # c
    <3>1. i \in DOMAIN open /\ open[i] \in FrameSet /\ open'[i] = open[i]
      BY <1>0, <1>3, StackFacts
    <3>2. \A j \in 1..i : open'[j].class = open[j].class
      BY <1>1, <1>2
    <3>3. ASSUME NEW k \in DOMAIN open'[i].later
          PROVE  /\ k + 0 \in DOMAIN open[i].later /\ open'[i].later[k] = open[i].later[k + 0]
                 /\ open'[i].later[k].name # c
      <4>1. k \in DOMAIN open[i].later /\ k \in Nat
        BY <3>1, FrameFields, LenProperties
      <4>2. ~IsOpen(open[i].later[k].name)
        BY <3>1, <4>1, <1>0 DEF Waiting, Untouched
      <4> QED BY <3>1, <4>1, <4>2, <1>2
    <3> QED BY <3>1, <3>2, <3>3
  <2> QED BY <2>1, <2>2 DEF LaterKept
<1> QED BY <1>1, <1>3, <1>4, <1>6, <1>7, <1>8, <1>9

(* The class under the name c is complete. *)
LEMMA ProcessedGood ==
  ASSUME TableInv, NEW c \in Classes, IsOpen(c), NEW new, HasProcessed(new, classes[c]), ~NoTableAbove(classes[c]),
         classes' = [classes EXCEPT ![c] = new], text' = text,
         \A u \in Classes : IsOpen(u)' => IsOpen(u), ~InWork(c)'
  PROVE  Good(c)'
<1> DEFINE cl == classes[c]
           m == Len(cl.elements)
           first == IsFirst(cl)
<1>0. TableType /\ Good(c) /\ IsClass(cl) /\ IsText(text[c]) /\ \A d \in Classes : c \notin UsedBy(d)
  BY NobodyUses, GoodIsInv DEF InvMeans, TableInv, TableType
<1>1. classes'[c] = new /\ \A d \in Classes : d # c => classes'[d] = classes[d]
  BY <1>0, TypesStay
<1>2. /\ IsClass(new) /\ new.parent = cl.parent /\ new.meta = cl.meta /\ new.vtable = cl.vtable /\ new.parsed
      /\ m \in Nat /\ DOMAIN cl.elements = 1..m
      /\ ~first => new.elements = cl.elements
      /\ first => /\ DOMAIN new.elements = 1..(1 + m) /\ new.elements[1] = VtableVar
                  /\ \A i \in 1..m : /\ new.elements[1 + i].name = cl.elements[i].name
                                     /\ new.elements[1 + i].type = cl.elements[i].type
      /\ Laid(new, new.size) /\ new.size % new.align = 0
      /\ \A e \in ToSet(new.elements) : new.align % Align(e.type) = 0
  BY DEF HasProcessed
<1> HIDE DEF m
<1>3. \A e \in ToSet(new.elements) : e.type \in Types /\ (e.type = "pointer" \/ \E d \in ToSet(cl.elements) : e.type = d.type)
  <2> SUFFICES ASSUME NEW e \in ToSet(new.elements)
               PROVE  e.type \in Types /\ (e.type = "pointer" \/ \E d \in ToSet(cl.elements) : e.type = d.type)
    OBVIOUS
  <2>1. PICK i \in DOMAIN new.elements : e = new.elements[i]
    BY DEF ToSet
  <2>2. e.type \in Types
    BY <1>2, <2>1, ElementFields DEF IsClass
  <2>3. CASE ~first
    BY <2>1, <2>2, <2>3, <1>2 DEF ToSet
  <2>4. CASE first
    <3>1. CASE i = 1
      BY <2>1, <2>2, <2>4, <3>1, <1>2, VtableVarFits
    <3>2. CASE i # 1
      <4> DEFINE j == i - 1
      <4>1. j \in 1..m /\ i = 1 + j
        BY <2>1, <2>4, <3>2, <1>2
      <4> HIDE DEF j
      <4>2. e.type = cl.elements[j].type /\ cl.elements[j] \in ToSet(cl.elements)
        BY <2>1, <2>4, <4>1, <1>2 DEF ToSet
      <4> QED BY <2>2, <4>2
    <3> QED BY <3>1, <3>2
  <2> QED BY <2>3, <2>4
<1>4. \A d \in ToSet(cl.elements) : d.type # c
  BY <1>0, UsedTypes
<1>5. "pointer" \notin Classes
  BY TableConstants DEF Classes
<1>6. \A e \in ToSet(new.elements) : e.type \in Types /\ e.type # c
  BY <1>3, <1>4, <1>5
<1>7. UsedBy(c)' \subseteq UsedBy(c)
  <2>1. UsedBy(c)' = Classes \cap ({new.parent, text[c].header.trait} \cup {e.type : e \in ToSet(new.elements)})
    BY <1>1 DEF UsedBy
  <2> QED BY <2>1, <1>2, <1>3, <1>5 DEF UsedBy
<1>8. ASSUME NEW u \in UsedBy(c)'
      PROVE  u # c /\ (classes[u].parsed)' /\ ~IsOpen(u)'
  <2>1. u \in Classes /\ u # c /\ classes[u].parsed /\ ~IsOpen(u)
    BY <1>0, <1>7 DEF Good, UsedBy
  <2> QED BY <2>1, <1>1
<1>9. /\ FromParent(c) \in Nat /\ FromParent(c) <= Len(cl.elements)
      /\ cl.elements \in Seq(ElementSet)
      /\ Parent(c) = Nobody \/ Parent(c) \in UsedBy(c)
      /\ Parent(c) # Nobody => /\ classes[Parent(c)].elements \in Seq(ElementSet)
                               /\ Len(classes[Parent(c)].elements) = FromParent(c)
                               /\ \A i \in 1..FromParent(c) : cl.elements[i] = classes[Parent(c)].elements[i]
  BY ParentIs
<1>10. /\ Parent(c)' = Parent(c) /\ FromParent(c)' = FromParent(c)
       /\ Parent(c) # Nobody => Parent(c) \in Classes /\ classes'[Parent(c)] = classes[Parent(c)]
  <2>1. Parent(c)' = Parent(c)
    BY <1>1, <1>2 DEF Parent
  <2>2. Parent(c) # Nobody => Parent(c) \in Classes /\ Parent(c) # c
    BY <1>0, <1>9 DEF UsedBy
  <2> QED BY <2>1, <2>2, <1>1 DEF FromParent
<1>11. Whole(new)
  <2>1. ASSUME new.vtable > 0
        PROVE  new.elements # <<>> /\ new.elements[1] = VtableVar
    <3>1. CASE first
      <4>1. 1 \in DOMAIN new.elements /\ new.elements[1] = VtableVar
        BY <3>1, <1>2
      <4> QED BY <4>1, EmptySeq
    <3>2. CASE ~first
      <4> DEFINE p == Parent(c)
      <4>1. p # Nobody /\ p = cl.parent
        BY <2>1, <3>2, <1>2 DEF IsFirst, Parent
      <4>2. classes[p].vtable > 0
        BY <2>1, <4>1, <1>2 DEF NoTableAbove
      <4>3. p \in Classes /\ ~IsOpen(p)
        BY <4>1, <1>0, <1>9 DEF UsedBy, Good
      <4>4. Whole(classes[p]) /\ classes[p].elements \in Seq(ElementSet)
        BY <4>3, FinalIsWhole
      <4>5. classes[p].elements # <<>> /\ classes[p].elements[1] = VtableVar
        BY <4>2, <4>4 DEF Whole
      <4>6. 1 \in 1..FromParent(c)
        BY <4>1, <4>4, <4>5, <1>9, EmptySeq
      <4>7. cl.elements[1] = VtableVar /\ 1 \in 1..Len(cl.elements)
        BY <4>1, <4>5, <4>6, <1>9
      <4> QED BY <3>2, <4>7, <1>2, EmptySeq
    <3> QED BY <3>1, <3>2
  <2> QED BY <2>1, <1>2 DEF Whole
<1>12. Whole(classes[c])'
  <2>1. Whole(new)'
    BY <1>0, <1>6, <1>11, LaidStays
  <2> QED BY <2>1, <1>1 DEF Whole, Laid
<1>13. Extends(c)'
  <2>1. CASE first
    BY <2>1, <1>10 DEF IsFirst, Extends, Parent
  <2>2. CASE ~first
    <3>1. IsPrefix(classes[Parent(c)].elements, cl.elements) \/ Parent(c) = Nobody
      BY <1>0 DEF Good, Extends
    <3>2. new.elements = cl.elements
      BY <2>2, <1>2
    <3> QED BY <3>1, <3>2, <1>1, <1>10 DEF Extends
  <2> QED BY <2>1, <2>2
<1>14. Written(c)' = Written(c)
  BY DEF Written
<1>15. Ordered(new.elements, FromParent(c), Written(c))
  <2>1. Ordered(cl.elements, FromParent(c), Written(c))
    BY <1>0, InOrderIsOrdered DEF Good
  <2>2. CASE ~first
    BY <2>1, <2>2, <1>2
  <2>3. CASE first
    <3> DEFINE es == cl.elements
               es2 == new.elements
               lines == Written(c)
    <3>1. FromParent(c) = 0
      BY <2>3 DEF IsFirst, FromParent, Parent
    <3>2. /\ DOMAIN es = 1..m /\ DOMAIN es2 = 1..(1 + m)
          /\ \A i \in 1..m : es2[1 + i].name = es[i].name
          /\ Hidden(es2[1])
      BY <2>3, <1>2, VtableVarFits
    <3>3. VariablesOf(lines) \subseteq Nat
      <4> DEFINE a == LinesOf(text[c].header.trait)
                 b == text[c].lines
      <4>1. lines = a \o b /\ a \in Seq(ToSet(a)) /\ b \in Seq(ToSet(b))
        BY WrittenIs
      <4> HIDE DEF a, b, lines
      <4>2. DOMAIN lines = 1..Len(a) + Len(b)
        <5> DEFINE A == ToSet(a)
                   B == ToSet(b)
        <5>1. a \in Seq(A) /\ b \in Seq(B)
          BY <4>1
        <5> HIDE DEF A, B
        <5>2. a \in Seq(A \cup B) /\ b \in Seq(A \cup B)
          BY <5>1
        <5>3. a \o b \in Seq(A \cup B) /\ Len(a \o b) = Len(a) + Len(b)
          BY <5>2, ConcatProperties
        <5> QED BY <5>3, <4>1, LenProperties
      <4>3. 1..Len(a) + Len(b) \subseteq Nat
        BY <4>1, LenProperties
      <4> QED BY <4>2, <4>3 DEF VariablesOf
    <3>4. Ordered(es, 0, lines)
      BY <2>1, <3>1
    <3> HIDE DEF es, es2, lines
    <3>5. \A i \in 1..1 : i > 0 => Hidden(es2[i])
      BY <3>2
    <3>6. Ordered(es2, 0, lines)
      BY <3>2, <3>3, <3>4, <3>5, <1>2, OrderedShifts
    <3> QED BY <3>1, <3>6 DEF es2, lines
  <2> QED BY <2>2, <2>3
<1>16. InOrder(c)'
  <2>1. OrderMeans'
    BY OrderedClasses, PTL
  <2>2. Ordered(classes[c].elements, FromParent(c), Written(c))'
    BY <1>1, <1>10, <1>14, <1>15, SMTT(40) DEF Ordered, ShownBehind, VariablesOf, Hidden
  <2> QED BY <2>1, <2>2 DEF OrderMeans
<1>17. (\A i \in DOMAIN open : open[i].class = c /\ ~open[i].closed => Laid(classes[c], open[i].end))'
  BY DEF InWork
<1>18. (\A n \in DOMAIN text[c].lines : text[c].lines[n].k = "var" => text[c].lines[n].name = <<c, n>>)'
  BY <1>0 DEF Good
<1>19. (classes[c].meta = "trait" => Parent(c) = Nobody /\ text[c].header.trait = Nobody)'
  BY <1>0, <1>1, <1>2, <1>10 DEF Good
<1> QED BY <1>8, <1>12, <1>13, <1>16, <1>17, <1>18, <1>19 DEF Good

LEMMA CloseClassKeeps ==
  ASSUME TableInv, CloseClass
  PROVE  TableInv'
<1> PICK top : top = Final(open)
  OBVIOUS
<1> PICK c : c = top.class
  OBVIOUS
<1>1. open # <<>> /\ ~top.closed
  BY DEF CloseClass, Inside
<1>2. /\ c \in Classes /\ IsOpen(c) /\ IsClass(classes[c]) /\ IsText(text[c]) /\ Laid(classes[c], top.end)
      /\ top.end \in Nat /\ TableType /\ top \in FrameSet /\ Len(open) \in DOMAIN open
      /\ \A d \in Classes : c \notin UsedBy(d)
  BY <1>1, TopIs DEF TableInv
<1> PICK new : new = PostProcess(classes[c], c, top.end)
  OBVIOUS
<1>3. HasProcessed(new, classes[c])
  BY <1>2, Processed
<1>4. CASE NoTableAbove(classes[c])
  <2>1. Reject
    BY <1>4 DEF CloseClass
  <2> QED BY <2>1, RejectKeeps
<1>5. CASE ~NoTableAbove(classes[c])
  <2>1. /\ classes' = [classes EXCEPT ![c] = new] /\ declared' = declared /\ text' = text
        /\ open' = IF top.later = <<>> THEN Front(open) ELSE Replace([top EXCEPT !.closed = TRUE])
    BY <1>5 DEF CloseClass
  <2>2. /\ open' \in Seq(FrameSet) /\ Kept(c) /\ OpenOnce' /\ LaterKept(c)
        /\ Undeclared' = Undeclared /\ c \notin Undeclared
        /\ \A u \in Classes : IsOpen(u)' => IsOpen(u)
        /\ ~InWork(c)'
    <3>1. CASE top.later = <<>>
      <4>1. open' = Front(open)
        BY <2>1, <3>1
      <4>2. /\ open' \in Seq(FrameSet)
            /\ \A i \in DOMAIN open' : open'[i].class # c
            /\ \A i \in DOMAIN open' : i \in DOMAIN open /\ open'[i] = open[i]
            /\ Kept(c) /\ OpenOnce' /\ LaterKept(c)
            /\ Undeclared' = Undeclared /\ c \notin Undeclared
        BY <1>1, <2>1, <4>1, TopLeaves
      <4> QED BY <4>2 DEF IsOpen, InWork
    <3>2. CASE top.later # <<>>
      <4> PICK f : f = [top EXCEPT !.closed = TRUE]
        OBVIOUS
      <4>1. f \in FrameSet /\ f.class = c /\ f.later = top.later /\ f.closed
        BY <1>2 DEF FrameSet
      <4>2. open' = Replace(f)
        BY <2>1, <3>2
      <4>3. /\ open' \in Seq(FrameSet) /\ DOMAIN open' = DOMAIN open
            /\ open'[Len(open)] = f
            /\ \A i \in DOMAIN open : open'[i].class = open[i].class
            /\ \A i \in DOMAIN open : open[i].class = c => i = Len(open)
            /\ Kept(c) /\ OpenOnce' /\ LaterKept(c)
            /\ Undeclared' = Undeclared /\ c \notin Undeclared
        BY <1>1, <2>1, <3>2, <4>1, <4>2, TopChanges
      <4> QED BY <4>1, <4>3 DEF IsOpen, InWork
    <3> QED BY <3>1, <3>2
  <2>3. Good(c)'
    BY <1>2, <1>3, <1>5, <2>1, <2>2, ProcessedGood
  <2>4. Changes(c, new, text[c])
    <3>1. text' = [text EXCEPT ![c] = text[c]]
      BY <1>2, <2>1 DEF TableType
    <3> QED BY <1>2, <1>3, <2>1, <2>2, <3>1 DEF Changes, HasProcessed, TableType
  <2>5. Waiting'
    BY <1>2, <2>2, <2>4, WaitingStays
  <2> QED BY <1>2, <2>2, <2>3, <2>4, <2>5, OneChanges
<1> QED BY <1>4, <1>5

-----------------------------------------------------------------------------
(* A class that changes nothing but what the file says of classes "override". *)
LEMMA NewFrame ==
  ASSUME NEW c \in Classes, NEW end \in Nat
  PROVE  LET f == Frame(c, end)
         IN f \in FrameSet /\ f.class = c /\ f.end = end /\ f.later = <<>> /\ ~f.closed
<1> DEFINE f == Frame(c, end)
<1>1. <<>> \in Seq(Headers)
  BY EmptySeq
<1>2. f = [class |-> c, end |-> end, later |-> <<>>, closed |-> FALSE, stage |-> 0]
  BY DEF Frame
<1>3. FALSE \in BOOLEAN
  OBVIOUS
<1> HIDE DEF f
<1>4. f \in FrameSet
  BY <1>1, <1>2, <1>3 DEF FrameSet
<1>5. ~f.closed
  BY <1>2, Zenon
<1>6. f.class = c /\ f.end = end /\ f.later = <<>>
  BY <1>2
<1> QED BY <1>4, <1>5, <1>6 DEF f

LEMMA OverrideKeeps ==
  ASSUME TableInv, WithinLimits, NEW c \in Classes, OverrideClass(c)
  PROVE  TableInv'
<1> DEFINE line == [k |-> "override"]
           t == [text[c] EXCEPT !.lines = Append(@, line)]
           f == [Frame(c, classes[c].size) EXCEPT !.stage = 1]
           cl == classes[c]
<1>0. TableType /\ Good(c) /\ IsClass(cl) /\ IsText(text[c])
  BY GoodIsInv DEF InvMeans, TableInv, TableType
<1>1. /\ open = <<>> /\ cl.parsed /\ ~Used(c)
      /\ open' = <<f>> /\ text' = [text EXCEPT ![c].lines = Append(@, line)]
      /\ classes' = classes /\ declared' = declared
  BY DEF OverrideClass, WithinLimits, Allowed
<1>2. DOMAIN open = {}
  BY <1>1, EmptySeq
<1>3. \A d \in Classes : c \notin UsedBy(d)
  <2>1. c \notin UsedBy(c)
    BY <1>0 DEF Good
  <2>2. ASSUME NEW d \in Classes, d # c
        PROVE  c \notin UsedBy(d)
    BY <1>1, <2>2 DEF Used, UsedBy
  <2> QED BY <2>1, <2>2
<1>4. /\ HasOneMore(Written(c), Written(c)', line)
      /\ text'[c].header = text[c].header
      /\ text'[c].lines = Append(text[c].lines, line)
      /\ \A d \in Classes : d # c => text'[d] = text[d]
      /\ text' = [text EXCEPT ![c] = t]
  BY <1>1, <1>3, WrittenGrows
<1>5. f \in FrameSet /\ f.class = c /\ f.end = cl.size /\ f.later = <<>> /\ ~f.closed
  <2>1. cl.size \in Nat
    BY <1>0 DEF IsClass
  <2> PICK g : g = Frame(c, cl.size)
    OBVIOUS
  <2>2. g \in FrameSet /\ g.class = c /\ g.end = cl.size /\ g.later = <<>> /\ ~g.closed
    BY <2>1, NewFrame
  <2>3. f = [g EXCEPT !.stage = 1]
    OBVIOUS
  <2> HIDE DEF f, cl
  <2> QED BY <2>2, <2>3 DEF FrameSet
<1> HIDE DEF f
<1>6. open' \in Seq(FrameSet) /\ DOMAIN open' = {1} /\ open'[1] = f
  <2>1. <<f>> \in Seq(FrameSet) /\ DOMAIN <<f>> = 1..1 /\ <<f>>[1] = f
    BY <1>5
  <2> QED BY <1>1, <2>1
<1>7. IsText(t) /\ text[c].lines \in Seq(ToSet(text[c].lines))
  <2>1. DOMAIN t = DOMAIN NoText /\ t.header = text[c].header /\ t.lines = Append(text[c].lines, line)
    BY <1>0 DEF IsText, NoText
  <2> DEFINE S == ToSet(text[c].lines)
  <2>2. text[c].lines \in Seq(S)
    BY <1>0 DEF IsText
  <2> HIDE DEF S, t, line
  <2>3. text[c].lines \in Seq(S \cup {line})
    BY <2>2
  <2>4. t.lines \in Seq(S \cup {line})
    BY <2>1, <2>3, AppendProperties
  <2>5. t.lines \in Seq(ToSet(t.lines))
    BY <2>4, SeqOfItself
  <2> QED BY <1>0, <2>1, <2>2, <2>5 DEF IsText, S
<1> HIDE DEF t
<1>8. Kept(c) /\ OpenOnce' /\ LaterKept(c) /\ Undeclared' = Undeclared /\ c \notin Undeclared
  <2>1. Kept(c)
    BY <1>2, <1>5, <1>6 DEF Kept
  <2>2. OpenOnce'
    BY <1>6 DEF OpenOnce
  <2>3. LaterKept(c)
    BY <1>5, <1>6 DEF LaterKept
  <2>4. Undeclared' = Undeclared
    BY <1>1 DEF Undeclared
  <2>5. c \notin Undeclared
    BY <1>1 DEF TableInv, Waiting, Untouched
  <2> QED BY <2>1, <2>2, <2>3, <2>4, <2>5
<1>9. Changes(c, cl, t)
  <2>1. classes' = [classes EXCEPT ![c] = cl]
    BY <1>0, <1>1 DEF TableType
  <2> QED BY <1>0, <1>1, <1>3, <1>4, <1>6, <1>7, <1>8, <2>1 DEF Changes, TableType
<1>10. Waiting'
  BY <1>8, <1>9, WaitingStays
<1>11. Good(c)'
  <2>1. UsedBy(c)' = UsedBy(c)
    BY <1>1, <1>4 DEF UsedBy
  <2>2. ASSUME NEW u \in UsedBy(c)'
        PROVE  u # c /\ (classes[u].parsed)' /\ ~IsOpen(u)'
    BY <2>1, <2>2, <1>0, <1>1, <1>5, <1>6 DEF Good, IsOpen
  <2>3. ASSUME NEW i \in (DOMAIN open)'
        PROVE  Laid(classes[c], open[i].end)'
    <3>1. ~InWork(c)
      BY <1>2 DEF InWork
    <3>2. Laid(cl, cl.size)
      BY <3>1, <1>0 DEF Good, Whole
    <3>3. classes' = classes /\ open'[i].end = cl.size
      BY <1>1, <1>5, <1>6
    <3> QED BY <3>2, <3>3 DEF Laid, Align, Size
  <2>4. InWork(c)'
    BY <1>5, <1>6 DEF InWork
  <2>5. Extends(c)' /\ FromParent(c)' = FromParent(c)
    BY <1>0, <1>1 DEF Good, Extends, Parent, FromParent
  <2>6. InOrder(c)'
    <3>1. Ordered(cl.elements, FromParent(c), Written(c))
      BY <1>0, InOrderIsOrdered DEF Good
    <3> DEFINE lines == Written(c)
               more == Written(c)'
               from == FromParent(c)
    <3>2. PICK n \in Nat : /\ DOMAIN lines = 1..n /\ DOMAIN more = 1..(n + 1)
                           /\ \A k \in 1..n : more[k] = lines[k]
                           /\ more[n + 1] = line
      BY <1>4 DEF HasOneMore
    <3>3. line.k # "var"
      OBVIOUS
    <3>4. Ordered(cl.elements, from, more)
      <4> HIDE DEF lines, more, from, line, cl
      <4>1. more[n + 1].k # "var"
        BY <3>2, <3>3
      <4>2. Ordered(cl.elements, from, lines)
        BY <3>1 DEF from, lines
      <4> QED BY <3>2, <4>1, <4>2, OrderedSkips
    <3>5. OrderMeans'
      BY OrderedClasses, PTL
    <3>6. Ordered(classes[c].elements, FromParent(c), Written(c))'
      BY <1>1, <2>5, <3>4 DEF Ordered, ShownBehind, VariablesOf, Hidden
    <3> QED BY <3>5, <3>6 DEF OrderMeans
  <2>7. ASSUME NEW n \in (DOMAIN text[c].lines)', (text[c].lines[n].k = "var")'
        PROVE  (text[c].lines[n].name = <<c, n>>)'
    <3> DEFINE b == text[c].lines
               m == Len(text[c].lines)
               S == ToSet(b) \cup {line}
    <3>1. b \in Seq(S) /\ line \in S
      <4> DEFINE B == ToSet(b)
      <4>1. b \in Seq(B)
        BY <1>7
      <4> HIDE DEF B
      <4>2. b \in Seq(B \cup {line})
        BY <4>1
      <4> QED BY <4>2 DEF B
    <3>2. m \in Nat /\ DOMAIN b = 1..m /\ DOMAIN Append(b, line) = 1..m + 1
          /\ Append(b, line)[m + 1] = line /\ \A i \in 1..m : Append(b, line)[i] = b[i]
      <4> HIDE DEF S, b
      <4>1. /\ Append(b, line) \in Seq(S) /\ Len(Append(b, line)) = Len(b) + 1 /\ Append(b, line)[Len(b) + 1] = line
            /\ \A i \in 1..Len(b) : Append(b, line)[i] = b[i]
        BY <3>1, AppendProperties
      <4> QED BY <3>1, <4>1, LenProperties DEF b
    <3>3. text'[c].lines = Append(b, line)
      BY <1>4
    <3>4. \A k \in DOMAIN b : b[k].k = "var" => b[k].name = <<c, k>>
      BY <1>0 DEF Good
    <3>5. line.k # "var"
      OBVIOUS
    <3> HIDE DEF b, m, S, line
    <3> QED BY <3>2, <3>3, <3>4, <3>5, <2>7
  <2>8. (classes[c].meta = "trait" => Parent(c) = Nobody /\ text[c].header.trait = Nobody)'
    BY <1>0, <1>1, <1>4 DEF Good, Parent
  <2> QED BY <2>2, <2>3, <2>4, <2>5, <2>6, <2>7, <2>8 DEF Good
<1> QED BY <1>8, <1>9, <1>10, <1>11, OneChanges

-----------------------------------------------------------------------------
(* A class begins: with what it has from its parent and its trait. *)
LEMMA TypesFrom ==
  ASSUME TableInv, NEW h \in Headers, Finished(h.extends), Finished(h.trait)
  PROVE  \A e \in ToSet(Realized(h).elements) :
            /\ e.type \in Types
            /\ \E d \in {h.extends, h.trait} \cap Classes : e.type \in {b.type : b \in ToSet(classes[d].elements)}
<1> DEFINE cl == Realized(h)
           from == IF h.extends = Nobody THEN 0 ELSE Len(classes[h.extends].elements)
           n == IF h.trait = Nobody THEN 0 ELSE Len(classes[h.trait].elements)
<1>1. /\ IsClass(cl)
      /\ from \in Nat /\ n \in Nat /\ DOMAIN cl.elements = 1..(from + n)
      /\ h.extends # Nobody => \A i \in 1..from : cl.elements[i] = classes[h.extends].elements[i]
      /\ h.trait # Nobody => \A i \in 1..n :
            /\ cl.elements[from + i].name = classes[h.trait].elements[i].name
            /\ cl.elements[from + i].type = classes[h.trait].elements[i].type
  BY RealizedIs
<1>2. /\ h.extends # Nobody => h.extends \in Classes /\ DOMAIN classes[h.extends].elements = 1..from
      /\ h.trait # Nobody => h.trait \in Classes /\ DOMAIN classes[h.trait].elements = 1..n
  <2>1. ASSUME NEW d \in Classes
        PROVE  DOMAIN classes[d].elements = 1..Len(classes[d].elements)
    <3>1. classes[d].elements \in Seq(ElementSet)
      BY DEF TableInv, TableType, IsClass
    <3> QED BY <3>1, LenProperties
  <2> QED BY <2>1 DEF Finished
<1>3. (h.extends = Nobody => from = 0) /\ (h.trait = Nobody => n = 0)
  OBVIOUS
<1> HIDE DEF cl, from, n
<1> SUFFICES ASSUME NEW e \in ToSet(cl.elements)
             PROVE  /\ e.type \in Types
                    /\ \E d \in {h.extends, h.trait} \cap Classes : e.type \in {b.type : b \in ToSet(classes[d].elements)}
  BY DEF cl
<1>4. PICK i \in 1..(from + n) : e = cl.elements[i]
  BY <1>1 DEF ToSet
<1>5. e.type \in Types
  BY <1>1, <1>4, ElementFields DEF IsClass
<1>6. CASE i <= from
  <2>1. h.extends # Nobody /\ i \in 1..from
    BY <1>1, <1>3, <1>6
  <2>2. e = classes[h.extends].elements[i] /\ h.extends \in Classes /\ e \in ToSet(classes[h.extends].elements)
    BY <1>1, <1>2, <1>4, <2>1 DEF ToSet
  <2> QED BY <1>5, <2>2
<1>7. CASE i > from
  <2> DEFINE j == i - from
  <2>1. j \in 1..n /\ i = from + j
    BY <1>1, <1>7
  <2> HIDE DEF j
  <2>2. h.trait # Nobody
    BY <2>1, <1>1, <1>3
  <2>3. /\ e.type = classes[h.trait].elements[j].type /\ h.trait \in Classes
        /\ classes[h.trait].elements[j] \in ToSet(classes[h.trait].elements)
    BY <1>1, <1>2, <1>4, <2>1, <2>2 DEF ToSet
  <2> QED BY <1>5, <2>3
<1> QED BY <1>1, <1>6, <1>7

LEMMA RealizedGood ==
  ASSUME TableInv, NEW h \in Headers, NEW c \in Classes, c = h.name, Untouched(c),
         Finished(h.extends), Finished(h.trait), HeaderFits(h),
         NEW cl, cl = Realized(h), classes' = [classes EXCEPT ![c] = cl], text' = [text EXCEPT ![c].header = h],
         \A u \in Classes : IsOpen(u)' => IsOpen(u) \/ u = c,
         \A i \in DOMAIN open' : open'[i].class = c => open'[i].end = cl.size, InWork(c)'
  PROVE  Good(c)'
<1> DEFINE from == IF h.extends = Nobody THEN 0 ELSE Len(classes[h.extends].elements)
           n == IF h.trait = Nobody THEN 0 ELSE Len(classes[h.trait].elements)
<1>0. TableType /\ ~classes[c].parsed /\ ~IsOpen(c) /\ text[c] = NoText /\ \A d \in Classes : c \notin UsedBy(d)
  BY NobodyUses DEF TableInv, Untouched
<1>1. /\ IsClass(cl) /\ cl.parent = h.extends /\ cl.meta = h.meta
      /\ from \in Nat /\ n \in Nat /\ DOMAIN cl.elements = 1..(from + n)
      /\ h.extends # Nobody => \A i \in 1..from : cl.elements[i] = classes[h.extends].elements[i]
      /\ h.trait # Nobody => \A i \in 1..n :
            /\ cl.elements[from + i].name = classes[h.trait].elements[i].name
            /\ cl.elements[from + i].type = classes[h.trait].elements[i].type
      /\ Laid(cl, cl.size)
  BY RealizedIs
<1>2. classes'[c] = cl /\ \A d \in Classes : d # c => classes'[d] = classes[d]
  <2>1. classes = [d \in Classes |-> classes[d]]
    BY <1>0 DEF TableType
  <2> QED BY <2>1, Zenon
<1>3. /\ text'[c].header = h /\ text'[c].lines = <<>> /\ \A d \in Classes : d # c => text'[d] = text[d]
  BY <1>0 DEF TableType, NoText
<1>4. /\ h.extends # c /\ h.trait # c /\ Nobody \notin Classes
      /\ h.meta = "trait" => h.extends = Nobody /\ h.trait = Nobody
  BY HeaderNames
<1>5. \A u \in {h.extends, h.trait} \cap Classes : classes[u].parsed /\ ~IsOpen(u) /\ u # c
  BY <1>4 DEF Finished
<1>6. \A e \in ToSet(cl.elements) :
            /\ e.type \in Types
            /\ \E d \in {h.extends, h.trait} \cap Classes : e.type \in {b.type : b \in ToSet(classes[d].elements)}
  BY TypesFrom
<1>7. \A d \in Classes : \A b \in ToSet(classes[d].elements) : b.type # c
  BY <1>0, UsedTypes
<1>8. \A e \in ToSet(cl.elements) : e.type \in Types /\ e.type # c
  BY <1>6, <1>7
<1>9. ASSUME NEW u \in UsedBy(c)'
      PROVE  u # c /\ (classes[u].parsed)' /\ ~IsOpen(u)'
  <2>1. UsedBy(c)' = Classes \cap ({h.extends, h.trait} \cup {e.type : e \in ToSet(cl.elements)})
    BY <1>1, <1>2, <1>3 DEF UsedBy
  <2>2. u \in Classes /\ u # c /\ classes[u].parsed /\ ~IsOpen(u)
    <3>1. CASE u \in {h.extends, h.trait}
      BY <2>1, <3>1, <1>5
    <3>2. CASE u \notin {h.extends, h.trait}
      <4>1. PICK e \in ToSet(cl.elements) : u = e.type
        BY <2>1, <3>2
      <4>2. PICK d \in {h.extends, h.trait} \cap Classes : u \in {b.type : b \in ToSet(classes[d].elements)}
        BY <4>1, <1>6
      <4>3. u \in UsedBy(d)
        BY <2>1, <4>2 DEF UsedBy
      <4>4. classes[u].parsed /\ ~IsOpen(u)
        BY <4>2, <4>3 DEF TableInv, UsersWait
      <4> QED BY <2>1, <4>1, <4>4, <1>8
    <3> QED BY <3>1, <3>2
  <2> QED BY <2>2, <1>2
<1>10. Laid(cl, cl.size)'
  BY <1>0, <1>1, <1>8, LaidStays
<1>11. ASSUME NEW i \in (DOMAIN open)', (open[i].class = c)'
       PROVE  Laid(classes[c], open[i].end)'
  BY <1>2, <1>10, <1>11 DEF Laid
<1>12. /\ Parent(c)' = h.extends /\ FromParent(c)' = from
       /\ h.extends # Nobody => h.extends \in Classes /\ classes'[h.extends] = classes[h.extends]
  <2>1. h.extends # Nobody => h.extends \in Classes /\ classes'[h.extends] = classes[h.extends]
    BY <1>2, <1>4 DEF Finished
  <2>2. Parent(c)' = h.extends
    BY <1>1, <1>2 DEF Parent
  <2> QED BY <2>1, <2>2 DEF FromParent
<1>13. Extends(c)'
  <2> SUFFICES ASSUME h.extends # Nobody
               PROVE  IsPrefix(classes[h.extends].elements, cl.elements)
    BY <1>2, <1>12 DEF Extends
  <2>1. h.extends \in Classes /\ from = Len(classes[h.extends].elements)
    BY <1>12
  <2>2. classes[h.extends].elements \in Seq(ElementSet) /\ cl.elements \in Seq(ElementSet)
    BY <1>0, <1>1, <2>1 DEF TableType, IsClass
  <2> HIDE DEF from, n
  <2>3. Len(cl.elements) = from + n
    <3>1. DOMAIN cl.elements = 1..(from + n) /\ from + n \in Nat
      BY <1>1
    <3>2. DOMAIN cl.elements = 1..Len(cl.elements) /\ Len(cl.elements) \in Nat
      BY <2>2, LenProperties
    <3> DEFINE a == from + n
               b == Len(cl.elements)
    <3>3. a \in Nat /\ b \in Nat /\ 1..a = 1..b
      BY <3>1, <3>2
    <3> HIDE DEF a, b
    <3>4. a = b
      BY <3>3
    <3> QED BY <3>4 DEF a, b
  <2>4. from <= from + n
    BY <1>1
  <2>5. /\ Len(classes[h.extends].elements) <= Len(cl.elements)
        /\ \A i \in 1..Len(classes[h.extends].elements) : cl.elements[i] = classes[h.extends].elements[i]
    BY <1>1, <2>1, <2>3, <2>4
  <2> QED BY <2>2, <2>5, PrefixByEntries
<1>14. Written(c)' = IF h.trait = Nobody THEN <<>> ELSE text[h.trait].lines
  <2>1. Written(c)' = (IF h.trait = Nobody THEN <<>> ELSE text'[h.trait].lines) \o <<>>
    <3>1. Written(c)' = (IF text'[c].header.trait = Nobody THEN <<>> ELSE text'[text'[c].header.trait].lines) \o text'[c].lines
      BY DEF Written
    <3>2. text'[c].header.trait = h.trait /\ text'[c].lines = <<>>
      BY <1>3
    <3> QED BY <3>1, <3>2
  <2>2. CASE h.trait = Nobody
    <3>1. <<>> \o <<>> = <<>>
      BY EmptySeq, ConcatProperties
    <3> QED BY <2>1, <2>2, <3>1
  <2>3. CASE h.trait # Nobody
    <3>1. h.trait \in Classes /\ text'[h.trait] = text[h.trait]
      BY <2>3, <1>3, <1>4 DEF Finished
    <3> DEFINE s == text[h.trait].lines
               S == ToSet(s)
    <3>2. s \in Seq(S)
      BY <3>1, <1>0 DEF TableType, IsText
    <3> HIDE DEF s, S
    <3>3. s \o <<>> = s
      BY <3>2, ConcatEmptySeq
    <3> QED BY <2>1, <2>3, <3>1, <3>3 DEF s
  <2> QED BY <2>2, <2>3
<1>15. Ordered(cl.elements, from, Written(c)')
  <2>1. CASE h.trait = Nobody
    <3>1. Written(c)' = <<>> /\ n = 0
      BY <2>1, <1>14
    <3>2. VariablesOf(<<>>) = {}
      BY EmptySeq DEF VariablesOf
    <3>3. ShownBehind(cl.elements, from) = {}
      <4> HIDE DEF from, n
      <4> QED BY <3>1, <1>1 DEF ShownBehind
    <3> QED BY <3>1, <3>2, <3>3 DEF Ordered
  <2>2. CASE h.trait # Nobody
    <3> DEFINE d == h.trait
               es == classes[d].elements
               es2 == cl.elements
               lines == text[d].lines
    <3>1. d \in Classes /\ classes[d].meta = "trait"
      BY <2>2 DEF Finished, HeaderFits
    <3>2. Parent(d) = Nobody /\ text[d].header.trait = Nobody /\ InOrder(d)
      BY <3>1 DEF TableInv, TraitsArePlain, SoFar
    <3>3. IsClass(classes[d]) /\ IsText(text[d])
      BY <3>1, <1>0 DEF TableType
    <3>4. es \in Seq(ElementSet) /\ DOMAIN es = 1..n
      BY <2>2, <3>3, LenProperties DEF IsClass
    <3>5. Written(d) = lines /\ FromParent(d) = 0
      <4>1. Written(d) = <<>> \o lines
        BY <3>2 DEF Written
      <4> DEFINE S == ToSet(lines)
      <4>2. lines \in Seq(S)
        BY <3>3 DEF IsText
      <4>3. <<>> \o lines = lines
        <5> HIDE DEF S, lines
        <5> QED BY <4>2, ConcatEmptySeq
      <4> QED BY <4>1, <4>3, <3>2 DEF FromParent
    <3>6. Ordered(es, 0, lines)
      BY <3>1, <3>2, <3>5, InOrderIsOrdered
    <3>7. VariablesOf(lines) \subseteq Nat
      <4>1. DOMAIN lines = 1..Len(lines) /\ Len(lines) \in Nat
        BY <3>3, LenProperties DEF IsText
      <4> QED BY <4>1 DEF VariablesOf
    <3>8. \A i \in 1..n : es2[from + i].name = es[i].name
      BY <2>2, <1>1
    <3>9. Written(c)' = lines
      BY <2>2, <1>14
    <3>10. DOMAIN es2 = 1..(from + n) /\ from \in Nat /\ n \in Nat
      BY <1>1
    <3> HIDE DEF es, es2, lines, from, n
    <3>11. from >= from /\ \A i \in 1..from : i > from => Hidden(es2[i])
      BY <3>10
    <3>12. Ordered(es2, from, lines)
      BY <3>4, <3>6, <3>7, <3>8, <3>10, <3>11, OrderedShifts
    <3> QED BY <3>9, <3>12 DEF es2
  <2> QED BY <2>1, <2>2
<1> HIDE DEF from, n
<1>16. InOrder(c)'
  <2>1. OrderMeans'
    BY OrderedClasses, PTL
  <2>2. Ordered(classes[c].elements, FromParent(c), Written(c))'
    BY <1>2, <1>12, <1>15, SMTT(40) DEF Ordered, ShownBehind, VariablesOf, Hidden
  <2> QED BY <2>1, <2>2 DEF OrderMeans
<1>17. (DOMAIN text[c].lines = {})'
  BY <1>3, EmptySeq
<1>18. (classes[c].meta = "trait" => Parent(c) = Nobody /\ text[c].header.trait = Nobody)'
  BY <1>1, <1>2, <1>3, <1>4, <1>12
<1> QED BY <1>9, <1>11, <1>13, <1>16, <1>17, <1>18 DEF Good

(* What is left of the stack below the new class: the frames as they were, but
   for headers that no longer wait, and closed frames that wait for none. *)
Below(frames, c) ==
  /\ \A i \in DOMAIN frames :
        /\ i \in DOMAIN open /\ frames[i].class = open[i].class
        /\ frames[i].end = open[i].end /\ frames[i].closed = open[i].closed
        /\ frames[i].closed => frames[i].later # <<>>
        /\ \E s \in Nat : \A k \in DOMAIN frames[i].later :
              /\ k + s \in DOMAIN open[i].later /\ frames[i].later[k] = open[i].later[k + s]
              /\ frames[i].later[k].name # c
  /\ \A j \in DOMAIN open : ~open[j].closed => j \in DOMAIN frames

LEMMA BeginKeeps ==
  ASSUME TableInv, NEW h \in Headers, h.name \in Classes, Untouched(h.name),
         Finished(h.extends), Finished(h.trait), NEW frames \in Seq(FrameSet), Below(frames, h.name),
         Realize(h, frames), Begins(h), declared' \in 0..Len(Names),
         Undeclared' \subseteq Undeclared, h.name \notin Undeclared'
  PROVE  TableInv'
<1> PICK c \in Classes : c = h.name
  OBVIOUS
<1> PICK cl : cl = Realized(h)
  OBVIOUS
<1> PICK f : f = Frame(c, cl.size)
  OBVIOUS
<1> DEFINE N == Len(frames)
           t == [text[c] EXCEPT !.header = h]
<1>0. TableType /\ OpenOnce /\ ~IsOpen(c) /\ text[c] = NoText /\ \A d \in Classes : c \notin UsedBy(d)
  BY NobodyUses DEF TableInv, Untouched
<1>1. IsClass(cl) /\ cl.size \in Nat
  BY RealizedIs DEF IsClass
<1>2. f \in FrameSet /\ f.class = c /\ f.end = cl.size /\ f.later = <<>> /\ ~f.closed
  BY <1>1, NewFrame
<1>3. /\ HeaderFits(h) /\ classes' = [classes EXCEPT ![c] = cl] /\ open' = Append(frames, f)
      /\ text' = [text EXCEPT ![c].header = h]
  BY DEF Realize, Begins
<1>4. /\ open' \in Seq(FrameSet) /\ DOMAIN frames = 1..N /\ N \in Nat /\ DOMAIN open' = 1..(N + 1)
      /\ open'[N + 1] = f /\ \A i \in 1..N : open'[i] = frames[i]
  BY <1>2, <1>3, Pushed
<1> HIDE DEF N
<1>5. \A i \in 1..N : /\ i \in DOMAIN open /\ open'[i].class = open[i].class
                      /\ open'[i].end = open[i].end /\ open'[i].closed = open[i].closed
                      /\ open'[i].class # c
  BY <1>0, <1>4 DEF Below, IsOpen
<1>6. \A i \in 1..(N + 1) : i \in 1..N \/ i = N + 1
  BY <1>4
<1>7. Kept(c)
  <2>1. \A i \in DOMAIN open' : \/ open'[i].class = c
                                \/ \E j \in DOMAIN open : /\ open'[i].class = open[j].class
                                                          /\ open'[i].end = open[j].end
                                                          /\ open'[i].closed = open[j].closed
    BY <1>2, <1>4, <1>5, <1>6
  <2>2. ASSUME NEW j \in DOMAIN open, ~open[j].closed
        PROVE  \E i \in DOMAIN open' : open'[i].class = open[j].class /\ ~open'[i].closed
    <3>1. j \in 1..N /\ j \in 1..(N + 1)
      BY <2>2, <1>4 DEF Below
    <3> QED BY <3>1, <2>2, <1>4, <1>5
  <2> QED BY <2>1, <2>2 DEF Kept
<1>8. OpenOnce'
  <2>1. ASSUME NEW i \in DOMAIN open', NEW j \in DOMAIN open', open'[i].class = open'[j].class
        PROVE  i = j
    <3>1. CASE i \in 1..N /\ j \in 1..N
      BY <2>1, <3>1, <1>0, <1>5 DEF OpenOnce
    <3>2. CASE i = N + 1 \/ j = N + 1
      BY <2>1, <3>2, <1>2, <1>4, <1>5, <1>6
    <3> QED BY <3>1, <3>2, <1>4, <1>6
  <2> QED BY <2>1 DEF OpenOnce
<1>9. LaterKept(c)
  <2>1. ASSUME NEW i \in DOMAIN open', i \in 1..N
        PROVE  /\ open'[i].closed => open'[i].later # <<>>
               /\ i \in DOMAIN open /\ \A j \in 1..i : open'[j].class = open[j].class
               /\ \E s \in Nat : \A k \in DOMAIN open'[i].later :
                     /\ k + s \in DOMAIN open[i].later /\ open'[i].later[k] = open[i].later[k + s]
                     /\ open'[i].later[k].name # c
    <3>1. open'[i] = frames[i] /\ i \in DOMAIN frames
      BY <2>1, <1>4
    <3>2. \A j \in 1..i : j \in 1..N
      BY <2>1, <1>4
    <3> QED BY <3>1, <3>2, <1>5 DEF Below
  <2> QED BY <2>1, <1>2, <1>4, <1>6 DEF LaterKept
<1>10. Changes(c, cl, t)
  <2>1. IsText(t)
    <3>1. /\ DOMAIN t = DOMAIN NoText /\ t.header = h /\ t.lines = <<>>
      BY <1>0 DEF NoText
    <3> HIDE DEF t
    <3>2. t.lines \in Seq(ToSet(t.lines))
      BY <3>1, EmptySeq
    <3>3. h.trait \in Classes \cup {Nobody}
      BY HeaderNames
    <3> QED BY <3>1, <3>2, <3>3 DEF IsText
  <2>2. text' = [text EXCEPT ![c] = t]
    BY <1>0, <1>3
  <2> HIDE DEF t
  <2> QED BY <2>1, <2>2, <1>0, <1>1, <1>3, <1>4, <1>7 DEF Changes
<1>11. Waiting'
  BY <1>9, <1>10, WaitingStays
<1>12. Good(c)'
  <2>1. \A u \in Classes : IsOpen(u)' => IsOpen(u) \/ u = c
    BY <1>2, <1>4, <1>5, <1>6 DEF IsOpen
  <2>2. \A i \in DOMAIN open' : open'[i].class = c => open'[i].end = cl.size
    BY <1>2, <1>4, <1>5, <1>6
  <2>3. InWork(c)'
    <3>1. N + 1 \in DOMAIN open'
      BY <1>4
    <3> QED BY <3>1, <1>2, <1>4 DEF InWork
  <2> QED BY <2>1, <2>2, <2>3, <1>3, RealizedGood
<1> QED BY <1>8, <1>10, <1>11, <1>12, OneChanges

LEMMA NextName ==
  ASSUME TableInv, declared < Len(Names), NEW c, c = Names[declared + 1]
  PROVE  /\ c \in Undeclared /\ c \in Classes /\ Untouched(c) /\ declared + 1 \in 0..Len(Names)
         /\ declared' = declared + 1 => Undeclared' \subseteq Undeclared /\ c \notin Undeclared'
<1>1. declared \in 0..Len(Names) /\ Len(Names) \in Nat
  <2>1. Len(Names) \in Nat
    BY TableConstants, LenProperties
  <2> QED BY <2>1 DEF TableInv, TableType
<1>2. c \in Undeclared /\ Undeclared \subseteq Classes
  BY <1>1, UndeclaredAre
<1>3. Untouched(c)
  BY <1>2 DEF TableInv, Waiting
<1>4. declared' = declared + 1 => Undeclared' \subseteq Undeclared /\ c \notin Undeclared'
  <2> SUFFICES ASSUME declared' = declared + 1
               PROVE  Undeclared' \subseteq Undeclared /\ c \notin Undeclared'
    OBVIOUS
  <2>1. Undeclared' \subseteq Undeclared \/ declared' # declared + 1
    BY <1>1, UndeclaredAre
  <2>2. Names[declared + 1] \notin Undeclared' \/ declared' # declared + 1
    BY <1>1, UndeclaredAre
  <2> QED BY <2>1, <2>2
<1> QED BY <1>1, <1>2, <1>3, <1>4

(* What holds when a class is begun, on top of the given frames. *)
Starts(h, frames) ==
  /\ frames \in Seq(FrameSet) /\ Below(frames, h.name)
  /\ h.name \in Classes /\ Untouched(h.name) /\ Finished(h.extends) /\ Finished(h.trait)
  /\ Realize(h, frames) /\ Begins(h) /\ declared' \in 0..Len(Names)
  /\ Undeclared' \subseteq Undeclared /\ h.name \notin Undeclared'

LEMMA DeclareClassStarts ==
  ASSUME TableInv, WithinLimits, NEW h \in Headers, DeclareClass(h)
  PROVE  Starts(h, open)
<1>1. /\ declared < Len(Names) /\ h.name = Names[declared + 1] /\ Settled(h.extends) /\ Settled(h.trait)
      /\ ~Waits(h) /\ Realize(h, open) /\ Begins(h) /\ declared' = declared + 1
  BY DEF DeclareClass, Declares, HasRead
<1>2. /\ h.name \in Undeclared /\ h.name \in Classes /\ Untouched(h.name) /\ declared' \in 0..Len(Names)
      /\ Undeclared' \subseteq Undeclared /\ h.name \notin Undeclared'
  BY <1>1, NextName
<1>3. Finished(h.extends) /\ Finished(h.trait)
  BY <1>1, SettledMeans, HeaderNames DEF Finished, Waits, Realize, HeaderFits
<1>4. open \in Seq(FrameSet) /\ \A i \in DOMAIN open : open[i] \in FrameSet
  BY StackFacts DEF TableInv
<1>5. Below(open, h.name)
  <2>1. ASSUME NEW i \in DOMAIN open
        PROVE  /\ open[i].closed => open[i].later # <<>>
               /\ \E s \in Nat : \A k \in DOMAIN open[i].later :
                     /\ k + s \in DOMAIN open[i].later /\ open[i].later[k] = open[i].later[k + s]
                     /\ open[i].later[k].name # h.name
    <3>1. open[i].closed => open[i].later # <<>>
      BY DEF TableInv, Waiting
    <3>2. ASSUME NEW k \in DOMAIN open[i].later
          PROVE  /\ k + 0 \in DOMAIN open[i].later /\ open[i].later[k] = open[i].later[k + 0]
                 /\ open[i].later[k].name # h.name
      <4>1. k \in Nat
        BY <1>4, FrameFields, LenProperties
      <4>2. open[i].later[k].name \notin Undeclared
        BY DEF TableInv, Waiting
      <4> QED BY <4>1, <4>2, <1>2
    <3> QED BY <3>1, <3>2
  <2> QED BY <2>1 DEF Below
<1> QED BY <1>1, <1>2, <1>3, <1>4, <1>5 DEF Starts

LEMMA StartKeeps ==
  ASSUME TableInv, NEW h \in Headers, NEW frames, Starts(h, frames)
  PROVE  TableInv'
  BY BeginKeeps DEF Starts

(* The top frame, closed, is taken away, or keeps some of the headers it has. *)
Stays(i, c) ==
  /\ open[i].closed => open[i].later # <<>>
  /\ \E s \in Nat : \A k \in DOMAIN open[i].later :
        /\ k + s \in DOMAIN open[i].later /\ open[i].later[k] = open[i].later[k + s]
        /\ open[i].later[k].name # c

LEMMA FrontBelow ==
  ASSUME TableType, open # <<>>, open[Len(open)].closed, NEW c,
         \A i \in DOMAIN open : i # Len(open) => Stays(i, c)
  PROVE  Front(open) \in Seq(FrameSet) /\ Below(Front(open), c)
<1> PICK N : N = Len(open)
  OBVIOUS
<1> PICK frames : frames = Front(open)
  OBVIOUS
<1>1. /\ frames \in Seq(FrameSet) /\ DOMAIN frames = 1..(N - 1)
      /\ \A i \in 1..(N - 1) : frames[i] = open[i]
  BY Popped
<1>2. DOMAIN open = 1..N /\ N \in Nat
  BY StackFacts
<1>3. /\ \A i \in 1..(N - 1) : i \in 1..N /\ i # N
      /\ \A j \in 1..N : j # N => j \in 1..(N - 1)
  BY <1>2
<1>4. open[N].closed /\ \A i \in DOMAIN open : i # N => Stays(i, c)
  OBVIOUS
<1>5. ASSUME NEW i \in DOMAIN frames
      PROVE  /\ i \in DOMAIN open /\ frames[i].class = open[i].class
             /\ frames[i].end = open[i].end /\ frames[i].closed = open[i].closed
             /\ frames[i].closed => frames[i].later # <<>>
             /\ \E s \in Nat : \A k \in DOMAIN frames[i].later :
                   /\ k + s \in DOMAIN open[i].later /\ frames[i].later[k] = open[i].later[k + s]
                   /\ frames[i].later[k].name # c
  <2>1. i \in DOMAIN open /\ frames[i] = open[i] /\ Stays(i, c)
    BY <1>1, <1>2, <1>3, <1>4
  <2> QED BY <2>1 DEF Stays
<1>6. \A j \in DOMAIN open : ~open[j].closed => j \in DOMAIN frames
  BY <1>1, <1>2, <1>3, <1>4
<1>7. Below(frames, c)
  BY <1>5, <1>6 DEF Below
<1> QED BY <1>1, <1>7

LEMMA ReplacedBelow ==
  ASSUME TableType, open # <<>>, open[Len(open)].closed, NEW c,
         \A i \in DOMAIN open : i # Len(open) => Stays(i, c),
         NEW rest \in FrameSet, rest.later # <<>>,
         rest.class = open[Len(open)].class, rest.end = open[Len(open)].end,
         rest.closed = open[Len(open)].closed,
         \E s \in Nat : \A k \in DOMAIN rest.later :
            /\ k + s \in DOMAIN open[Len(open)].later /\ rest.later[k] = open[Len(open)].later[k + s]
            /\ rest.later[k].name # c
  PROVE  Replace(rest) \in Seq(FrameSet) /\ Below(Replace(rest), c)
<1> PICK N : N = Len(open)
  OBVIOUS
<1> PICK frames : frames = Replace(rest)
  OBVIOUS
<1>1. /\ frames \in Seq(FrameSet) /\ DOMAIN frames = DOMAIN open /\ frames[N] = rest
      /\ \A i \in DOMAIN open : i # N => frames[i] = open[i]
  BY Replaced
<1>2. \A i \in DOMAIN open : i # N => Stays(i, c)
  OBVIOUS
<1>3. /\ N \in DOMAIN open /\ rest.class = open[N].class /\ rest.end = open[N].end
      /\ rest.closed = open[N].closed /\ rest.later # <<>>
      /\ \E s \in Nat : \A k \in DOMAIN rest.later :
            /\ k + s \in DOMAIN open[N].later /\ rest.later[k] = open[N].later[k + s]
            /\ rest.later[k].name # c
  BY StackFacts
<1>4. ASSUME NEW i \in DOMAIN frames
      PROVE  /\ i \in DOMAIN open /\ frames[i].class = open[i].class
             /\ frames[i].end = open[i].end /\ frames[i].closed = open[i].closed
             /\ frames[i].closed => frames[i].later # <<>>
             /\ \E s \in Nat : \A k \in DOMAIN frames[i].later :
                   /\ k + s \in DOMAIN open[i].later /\ frames[i].later[k] = open[i].later[k + s]
                   /\ frames[i].later[k].name # c
  <2>1. CASE i = N
    BY <1>1, <1>3, <2>1
  <2>2. CASE i # N
    <3>1. frames[i] = open[i] /\ Stays(i, c) /\ i \in DOMAIN open
      BY <1>1, <1>2, <2>2
    <3> QED BY <3>1 DEF Stays
  <2> QED BY <2>1, <2>2
<1>5. Below(frames, c)
  BY <1>1, <1>4 DEF Below
<1> QED BY <1>1, <1>5

LEMMA RetryClassStarts ==
  ASSUME TableInv, RetryClass
  PROVE  Reject \/ \E h \in Headers : \E frames : Starts(h, frames)
<1> PICK outer : outer = Final(open)
  OBVIOUS
<1> PICK h : h = Head(outer.later)
  OBVIOUS
<1> PICK rest : rest = [outer EXCEPT !.later = Tail(@)]
  OBVIOUS
<1> PICK frames : frames = IF rest.later = <<>> THEN Front(open) ELSE Replace(rest)
  OBVIOUS
<1>1. /\ open # <<>> /\ outer.closed
      /\ \/ ~Waits(h) /\ Realize(h, frames) /\ Begins(h) /\ declared' = declared
         \/ Reject
  BY DEF RetryClass
<1>2. CASE Reject
  BY <1>2
<1>3. CASE ~Waits(h) /\ Realize(h, frames) /\ Begins(h) /\ declared' = declared
  <2>0. /\ outer \in FrameSet /\ outer = open[Len(open)] /\ Len(open) \in DOMAIN open /\ TableType
        /\ DOMAIN open = 1..Len(open) /\ Len(open) \in Nat /\ outer.later \in Seq(Headers)
        /\ declared \in 0..Len(Names)
    BY <1>1, TopIs, StackFacts, FrameFields DEF TableInv, TableType
  <2>1. outer.later # <<>>
    BY <1>1, <2>0 DEF TableInv, Waiting
  <2>2. /\ h = outer.later[1] /\ 1 \in DOMAIN outer.later /\ h \in Headers
        /\ Tail(outer.later) \in Seq(Headers) /\ Len(Tail(outer.later)) = Len(outer.later) - 1
        /\ \A k \in 1..Len(Tail(outer.later)) : Tail(outer.later)[k] = outer.later[k + 1]
        /\ DOMAIN outer.later = 1..Len(outer.later) /\ Len(outer.later) \in Nat
    <3> DEFINE s == outer.later
    <3>1. s \in Seq(Headers) /\ s # <<>>
      BY <2>0, <2>1
    <3> HIDE DEF s
    <3>2. Len(s) \in Nat /\ Len(s) # 0 /\ DOMAIN s = 1..Len(s)
      BY <3>1, LenProperties, EmptySeq
    <3>3. Head(s) = s[1] /\ 1 \in DOMAIN s /\ s[1] \in Headers
      BY <3>1, <3>2, ElementOfSeq
    <3>4. /\ Tail(s) \in Seq(Headers) /\ Len(Tail(s)) = Len(s) - 1
          /\ \A k \in 1..Len(Tail(s)) : Tail(s)[k] = s[k + 1]
      BY <3>1, HeadTailProperties
    <3> QED BY <3>2, <3>3, <3>4 DEF s
  <2>3. /\ h.name \in Classes \ Undeclared /\ Untouched(h.name)
        /\ \A j \in 1..Len(open) : open[j].class \notin {h.extends, h.trait}
    BY <2>0, <2>2, SMTT(40) DEF TableInv, Waiting
  <2>4. Finished(h.extends) /\ Finished(h.trait)
    <3>1. ~IsOpen(h.extends) /\ ~IsOpen(h.trait)
      BY <2>0, <2>3 DEF IsOpen
    <3> QED BY <3>1, <1>3, <2>2, HeaderNames DEF Finished, Waits, Realize, HeaderFits
  <2>5. Undeclared' = Undeclared
    BY <1>3 DEF Undeclared
  <2>6. /\ rest \in FrameSet /\ rest.class = outer.class /\ rest.end = outer.end /\ rest.closed = outer.closed
        /\ rest.later = Tail(outer.later)
    <3> DEFINE s == Tail(outer.later)
    <3>1. s \in Seq(Headers) /\ rest = [outer EXCEPT !.later = s]
      BY <2>2
    <3> HIDE DEF s
    <3>2. rest \in FrameSet
      BY <2>0, <3>1 DEF FrameSet
    <3>3. rest.class = outer.class /\ rest.end = outer.end /\ rest.closed = outer.closed /\ rest.later = s
      BY <2>0, <3>1 DEF FrameSet
    <3> QED BY <3>2, <3>3 DEF s
  <2>7. ASSUME NEW i \in DOMAIN open, i # Len(open)
        PROVE  Stays(i, h.name)
    <3>1. open[i].closed => open[i].later # <<>>
      BY DEF TableInv, Waiting
    <3>2. ASSUME NEW k \in DOMAIN open[i].later
          PROVE  /\ k + 0 \in DOMAIN open[i].later /\ open[i].later[k] = open[i].later[k + 0]
                 /\ open[i].later[k].name # h.name
      <4>1. k \in Nat
        BY <2>0, StackFacts, FrameFields, LenProperties
      <4>2. \A a, b \in DOMAIN open : \A x \in DOMAIN open[a].later : \A y \in DOMAIN open[b].later :
               open[a].later[x].name = open[b].later[y].name => a = b /\ x = y
        BY DEF TableInv, Waiting
      <4>3. open[i].later[k].name # open[Len(open)].later[1].name
        BY <4>2, <2>0, <2>2, <2>7
      <4> QED BY <4>1, <4>3, <2>0, <2>2
    <3> QED BY <3>1, <3>2 DEF Stays
  <2>8. open[Len(open)].closed /\ TableType /\ open # <<>>
    BY <1>1, <2>0
  <2>9. frames \in Seq(FrameSet) /\ Below(frames, h.name)
    <3>1. CASE rest.later = <<>>
      <4>1. frames = Front(open)
        BY <3>1
      <4> QED BY <4>1, <2>7, <2>8, FrontBelow
    <3>2. CASE rest.later # <<>>
      <4>1. frames = Replace(rest)
        BY <3>2
      <4>2. ASSUME NEW k \in DOMAIN rest.later
            PROVE  /\ k + 1 \in DOMAIN outer.later /\ rest.later[k] = outer.later[k + 1]
                   /\ rest.later[k].name # h.name
        <5>1. k \in 1..Len(Tail(outer.later))
          BY <2>2, <2>6, LenProperties
        <5>2. k + 1 \in DOMAIN outer.later /\ rest.later[k] = outer.later[k + 1] /\ k + 1 # 1
          BY <5>1, <2>2, <2>6
        <5>3. \A x, y \in DOMAIN outer.later : outer.later[x].name = outer.later[y].name => x = y
          BY <2>0, SMTT(40) DEF TableInv, Waiting
        <5> QED BY <5>2, <5>3, <2>2
      <4>3. /\ rest.class = open[Len(open)].class /\ rest.end = open[Len(open)].end
            /\ rest.closed = open[Len(open)].closed
        BY <2>0, <2>6
      <4>4. \E s \in Nat : \A k \in DOMAIN rest.later :
               /\ k + s \in DOMAIN open[Len(open)].later /\ rest.later[k] = open[Len(open)].later[k + s]
               /\ rest.later[k].name # h.name
        BY <4>2, <2>0
      <4> QED BY <3>2, <4>1, <4>3, <4>4, <2>6, <2>7, <2>8, ReplacedBelow
    <3> QED BY <3>1, <3>2
  <2>10. Starts(h, frames)
    BY <1>3, <2>0, <2>3, <2>4, <2>5, <2>9 DEF Starts
  <2> QED BY <2>2, <2>10
<1> QED BY <1>1, <1>2, <1>3

(* Only the headers that wait may change. *)
FramesStay ==
  /\ DOMAIN open' = DOMAIN open
  /\ \A i \in DOMAIN open : /\ open'[i].class = open[i].class /\ open'[i].end = open[i].end
                            /\ open'[i].closed = open[i].closed

LEMMA AllStayGood ==
  ASSUME UNCHANGED <<classes, text>>, FramesStay, NEW d \in Classes, Good(d)
  PROVE  Good(d)'
<1>1. classes' = classes /\ text' = text
  OBVIOUS
<1>2. \A t : Align(t)' = Align(t) /\ Size(t)' = Size(t)
  BY <1>1 DEF Align, Size, IsBasic
<1>3. \A n : Laid(classes[d], n) => Laid(classes[d], n)'
  BY <1>1, <1>2 DEF Laid
<1>4. Whole(classes[d]) => Whole(classes[d])'
  <2>1. Laid(classes[d], classes[d].size) => Laid(classes[d], classes[d].size)'
    BY <1>1, <1>2 DEF Laid
  <2> QED BY <1>1, <1>2, <2>1 DEF Whole
<1>5. FromParent(d)' = FromParent(d) /\ Written(d)' = Written(d) /\ UsedBy(d)' = UsedBy(d)
  BY <1>1 DEF FromParent, Parent, Written, UsedBy
<1>6. Extends(d)'
  BY <1>1 DEF Good, Extends, Parent
<1>7. InOrder(d)'
  <2>1. Ordered(classes[d].elements, FromParent(d), Written(d))
    BY InOrderIsOrdered DEF Good
  <2>2. Ordered(classes[d].elements, FromParent(d), Written(d))'
    BY <1>1, <1>5, <2>1 DEF Ordered, ShownBehind, VariablesOf, Hidden
  <2>3. OrderMeans'
    BY OrderedClasses, PTL
  <2> QED BY <2>2, <2>3 DEF OrderMeans
<1>8. \A u : IsOpen(u)' => IsOpen(u)
  BY DEF IsOpen, FramesStay
<1>9. InWork(d) => InWork(d)'
  BY DEF InWork, FramesStay
<1>10. \A u \in UsedBy(d)' : u # d /\ (classes[u].parsed)' /\ ~IsOpen(u)'
  BY <1>1, <1>5, <1>8 DEF Good
<1>11. (\A i \in DOMAIN open : open[i].class = d /\ ~open[i].closed => Laid(classes[d], open[i].end))'
  <2> SUFFICES ASSUME NEW i \in DOMAIN open', open'[i].class = d, ~open'[i].closed
               PROVE  Laid(classes[d], open[i].end)'
    OBVIOUS
  <2>1. i \in DOMAIN open /\ Laid(classes[d], open[i].end)
    BY DEF Good, FramesStay
  <2>2. open'[i].end = open[i].end
    BY <2>1 DEF FramesStay
  <2> QED BY <1>1, <1>2, <2>1, <2>2 DEF Laid
<1>12. (~InWork(d) => Whole(classes[d]))'
  BY <1>1, <1>4, <1>9 DEF Good
<1>13. /\ (\A n \in DOMAIN text[d].lines : text[d].lines[n].k = "var" => text[d].lines[n].name = <<d, n>>)'
       /\ (classes[d].meta = "trait" => Parent(d) = Nobody /\ text[d].header.trait = Nobody)'
  BY <1>1 DEF Good, Parent
<1> QED BY <1>6, <1>7, <1>10, <1>11, <1>12, <1>13 DEF Good

(* A header may be added to those that wait, at one place. *)
OneMoreWaits(h, n, m) ==
  \A i \in DOMAIN open' : \A k \in DOMAIN open'[i].later :
     \/ k \in DOMAIN open[i].later /\ open'[i].later[k] = open[i].later[k]
     \/ i = n /\ k = m /\ open'[i].later[k] = h

LEMMA DeclareForLaterKeeps ==
  ASSUME TableInv, WithinLimits, NEW h \in Headers, DeclareForLater(h)
  PROVE  TableInv'
<1> PICK top : top = Final(open)
  OBVIOUS
<1> PICK c : c = h.name
  OBVIOUS
<1> PICK more : more = [top EXCEPT !.later = Append(@, h)]
  OBVIOUS
<1>0. TableType /\ OpenOnce /\ Waiting
  BY DEF TableInv
<1>1. /\ declared < Len(Names) /\ c = Names[declared + 1] /\ Settled(h.extends) /\ Settled(h.trait)
      /\ declared' = declared + 1 /\ classes' = classes /\ text' = text
      /\ open # <<>> => ~top.closed
      /\ open' = IF open = <<>> THEN open ELSE Replace(more)
  BY DEF DeclareForLater, Declares, HasRead
<1>2. /\ c \in Undeclared /\ c \in Classes /\ Untouched(c) /\ declared' \in 0..Len(Names)
      /\ Undeclared' \subseteq Undeclared /\ c \notin Undeclared'
  BY <1>1, NextName
<1>3. ~IsOpen(h.extends) /\ ~IsOpen(h.trait)
  <2>1. ~IsOpen(Nobody)
    BY <1>0, StackFacts, FrameFields, HeaderNames DEF IsOpen
  <2> QED BY <1>1, <2>1, SettledMeans
<1>4. /\ open' \in Seq(FrameSet) /\ FramesStay /\ \E n, m : OneMoreWaits(h, n, m)
      /\ \A i \in DOMAIN open' : open'[i].closed => open'[i].later # <<>>
  <2>1. CASE open = <<>>
    <3>1. open' = open /\ DOMAIN open' = {}
      BY <1>1, <2>1, EmptySeq
    <3>2. OneMoreWaits(h, 0, 0)
      BY <3>1 DEF OneMoreWaits
    <3> QED BY <3>1, <3>2, <1>0 DEF TableType, FramesStay
  <2>2. CASE open # <<>>
    <3>1. /\ top \in FrameSet /\ top = open[Len(open)] /\ top.later \in Seq(Headers) /\ Len(open) \in DOMAIN open
      BY <2>2, TopIs
    <3> PICK N : N = Len(open)
      OBVIOUS
    <3> PICK more2 : more2 = Append(top.later, h)
      OBVIOUS
    <3> PICK M : M = Len(top.later)
      OBVIOUS
    <3>2. /\ more2 \in Seq(Headers) /\ M \in Nat /\ DOMAIN more2 = 1..(M + 1) /\ more2[M + 1] = h
          /\ DOMAIN top.later = 1..M /\ \A k \in 1..M : more2[k] = top.later[k]
      <4> PICK s : s = top.later
        OBVIOUS
      <4>1. s \in Seq(Headers) /\ h \in Headers
        BY <3>1
      <4>2. /\ Append(s, h) \in Seq(Headers) /\ Len(Append(s, h)) = Len(s) + 1
            /\ \A i \in 1..Len(s) : Append(s, h)[i] = s[i]
            /\ Append(s, h)[Len(s) + 1] = h
        BY <4>1, AppendProperties
      <4>3. Len(s) \in Nat /\ DOMAIN s = 1..Len(s) /\ DOMAIN Append(s, h) = 1..Len(Append(s, h))
        BY <4>1, <4>2, LenProperties
      <4> QED BY <4>2, <4>3
    <3>3. more = [top EXCEPT !.later = more2]
      OBVIOUS
    <3>4. /\ more \in FrameSet /\ more.class = top.class /\ more.end = top.end /\ more.closed = top.closed
          /\ more.later = more2
      BY <3>1, <3>2, <3>3 DEF FrameSet
    <3>5. /\ Replace(more) \in Seq(FrameSet) /\ DOMAIN Replace(more) = DOMAIN open /\ Replace(more)[N] = more
          /\ \A i \in DOMAIN open : i # N => Replace(more)[i] = open[i]
      BY <1>0, <2>2, <3>4, Replaced
    <3>6. open' = Replace(more) /\ ~top.closed
      BY <1>1, <2>2
    <3>7. /\ open' \in Seq(FrameSet) /\ DOMAIN open' = DOMAIN open /\ open'[N] = more
          /\ \A i \in DOMAIN open : i # N => open'[i] = open[i]
      BY <3>5, <3>6
    <3>8. FramesStay
      BY <3>1, <3>4, <3>7 DEF FramesStay
    <3> PICK m : m = M + 1
      OBVIOUS
    <3>9. ASSUME NEW i \in DOMAIN open', NEW k \in DOMAIN open'[i].later
          PROVE  \/ k \in DOMAIN open[i].later /\ open'[i].later[k] = open[i].later[k]
                 \/ i = N /\ k = m /\ open'[i].later[k] = h
      <4>1. CASE i = N
        <5>1. open'[i].later = more2 /\ open[i].later = top.later
          BY <3>1, <3>4, <3>7, <4>1
        <5>2. k \in 1..(M + 1)
          BY <5>1, <3>2
        <5>3. k \in 1..M \/ k = M + 1
          BY <5>2, <3>2
        <5> QED BY <5>1, <5>3, <4>1, <3>2
      <4>2. CASE i # N
        BY <3>7, <4>2
      <4> QED BY <4>1, <4>2
    <3>10. OneMoreWaits(h, N, m)
      BY <3>9 DEF OneMoreWaits
    <3>11. \A i \in DOMAIN open' : open'[i].closed => open'[i].later # <<>>
      BY <3>1, <3>4, <3>6, <3>7, <1>0, ZenonT(40) DEF Waiting
    <3> QED BY <3>7, <3>8, <3>10, <3>11
  <2> QED BY <2>1, <2>2
<1>5. \A d : IsOpen(d)' <=> IsOpen(d)
  BY <1>4 DEF IsOpen, FramesStay
<1>6. \A d : Untouched(d)' <=> Untouched(d)
  BY <1>1, <1>5 DEF Untouched
<1>7. TableType'
  BY <1>0, <1>1, <1>2, <1>4 DEF TableType, IsClass, IsText
<1>8. OpenOnce'
  BY <1>0, <1>4 DEF OpenOnce, FramesStay
<1>9. Waiting'
  <2>0. DOMAIN open' = DOMAIN open /\ \A i \in DOMAIN open : open'[i].class = open[i].class
    BY <1>4 DEF FramesStay
  <2>1. \A d \in Undeclared' : Untouched(d)'
    BY <1>0, <1>2, <1>6 DEF Waiting
  <2>2. PICK n, m : OneMoreWaits(h, n, m)
    BY <1>4
  <2>3. ASSUME NEW i \in (DOMAIN open)', NEW k \in (DOMAIN open[i].later)'
        PROVE  (LET g == open[i].later[k]
                IN /\ g.name \in Classes \ Undeclared /\ Untouched(g.name)
                   /\ \A j \in 1..i : open[j].class \notin {g.extends, g.trait})'
    <3>1. PICK g : g = open'[i].later[k]
      OBVIOUS
    <3>2. \A j \in 1..i : j \in DOMAIN open
      BY <1>0, <2>0, StackFacts
    <3>3. /\ g.name \in Classes \ Undeclared' /\ Untouched(g.name)
          /\ \A j \in 1..i : open[j].class \notin {g.extends, g.trait}
      <4>1. CASE k \in DOMAIN open[i].later /\ open'[i].later[k] = open[i].later[k]
        BY <1>0, <1>2, <2>0, <3>1, <4>1 DEF Waiting
      <4>2. CASE open'[i].later[k] = h
        BY <1>2, <1>3, <3>1, <3>2, <4>2 DEF IsOpen
      <4> QED BY <2>2, <4>1, <4>2 DEF OneMoreWaits
    <3> QED BY <1>6, <2>0, <3>1, <3>2, <3>3
  <2>4. ASSUME NEW i \in (DOMAIN open)', NEW k \in (DOMAIN open[i].later)',
               k \in DOMAIN open[i].later, open'[i].later[k] = open[i].later[k]
        PROVE  open'[i].later[k].name # c
    BY <1>0, <1>2, <2>0, <2>4 DEF Waiting
  <2>5. ASSUME NEW i \in (DOMAIN open)', NEW j \in (DOMAIN open)',
               NEW k \in (DOMAIN open[i].later)', NEW l \in (DOMAIN open[j].later)',
               open'[i].later[k].name = open'[j].later[l].name
        PROVE  i = j /\ k = l
    <3>1. CASE /\ k \in DOMAIN open[i].later /\ open'[i].later[k] = open[i].later[k]
               /\ l \in DOMAIN open[j].later /\ open'[j].later[l] = open[j].later[l]
      BY <1>0, <2>0, <2>5, <3>1 DEF Waiting
    <3>2. CASE (i = n /\ k = m /\ open'[i].later[k] = h) /\ (j = n /\ l = m /\ open'[j].later[l] = h)
      BY <3>2
    <3>3. CASE /\ k \in DOMAIN open[i].later /\ open'[i].later[k] = open[i].later[k]
               /\ open'[j].later[l] = h
      BY <2>4, <2>5, <3>3
    <3>4. CASE /\ l \in DOMAIN open[j].later /\ open'[j].later[l] = open[j].later[l]
               /\ open'[i].later[k] = h
      BY <2>4, <2>5, <3>4
    <3> QED BY <2>2, <3>1, <3>2, <3>3, <3>4 DEF OneMoreWaits
  <2> QED BY <2>1, <2>3, <2>5, <1>4 DEF Waiting
<1>10. \A d \in Classes : Good(d)'
  <2>1. \A d \in Classes : Good(d)
    BY GoodIsInv DEF InvMeans
  <2> QED BY <2>1, <1>1, <1>4, AllStayGood
<1>11. InvMeans'
  BY GoodIsInv, PTL
<1> QED BY <1>7, <1>8, <1>9, <1>10, <1>11 DEF InvMeans

LEMMA ReadLineKeeps ==
  ASSUME TableInv, WithinLimits, ReadLine
  PROVE  TableInv'
<1>1. ASSUME NEW h \in Headers, DeclareClass(h)
      PROVE  TableInv'
  BY <1>1, DeclareClassStarts, StartKeeps
<1>2. ASSUME NEW h \in Headers, DeclareWrongly(h)
      PROVE  TableInv'
  BY <1>2, RejectKeeps DEF DeclareWrongly
<1>3. ASSUME NEW h \in Headers, DeclareForLater(h)
      PROVE  TableInv'
  BY <1>3, DeclareForLaterKeeps
<1>4. CASE RetryClass
  BY <1>4, RetryClassStarts, StartKeeps, RejectKeeps
<1>5. CASE CloseClass
  BY <1>5, CloseClassKeeps
<1>6. ASSUME NEW c \in Classes, OverrideClass(c)
      PROVE  TableInv'
  BY <1>6, OverrideKeeps
<1>7. ASSUME NEW v \in VariableLines, AddVariable(v[1], v[2])
      PROVE  TableInv'
  BY <1>7, AddVariableKeeps
<1>8. ASSUME NEW how \in {"none", "assign"}, AddOtherVariable(how)
      PROVE  TableInv'
  BY <1>8, AddOtherVariableKeeps
<1>9. ASSUME NEW n \in DOMAIN FunctionLines, AddLine(n)
      PROVE  TableInv'
  BY <1>9, AddLineKeeps
<1> QED BY <1>1, <1>2, <1>3, <1>4, <1>5, <1>6, <1>7, <1>8, <1>9 DEF ReadLine

LEMMA NothingChanges ==
  ASSUME TableInv, UNCHANGED <<classes, text, open, declared>>
  PROVE  TableInv'
<1>0. TableType /\ OpenOnce /\ Waiting
  BY DEF TableInv
<1>1. classes' = classes /\ text' = text /\ open' = open /\ declared' = declared
  OBVIOUS
<1>2. TableType' /\ OpenOnce'
  BY <1>0, <1>1 DEF TableType, IsClass, IsText, OpenOnce
<1>3. Waiting'
  BY <1>0, <1>1 DEF Waiting, Undeclared, Untouched, IsOpen
<1>4. \A d \in Classes : Good(d)'
  <2>1. FramesStay
    BY <1>1 DEF FramesStay
  <2>2. \A d \in Classes : Good(d)
    BY GoodIsInv DEF InvMeans
  <2> QED BY <1>1, <2>1, <2>2, AllStayGood
<1>5. InvMeans'
  BY GoodIsInv, PTL
<1> QED BY <1>2, <1>3, <1>4, <1>5 DEF InvMeans

LEMMA NextKeeps ==
  ASSUME TableInv, WithinLimits, [Next]_vars
  PROVE  TableInv'
<1>1. CASE ReadLine
  BY <1>1, ReadLineKeeps
<1>2. CASE Compile
  <2>1. CASE Reject
    BY <2>1, RejectKeeps
  <2>2. CASE UNCHANGED <<classes, text, open, declared>>
    BY <2>2, NothingChanges
  <2> QED BY <1>2, <2>1, <2>2 DEF Compile
<1>3. CASE UNCHANGED vars
  <2>1. UNCHANGED <<classes, text, open, declared>>
    BY <1>3 DEF vars
  <2> QED BY <2>1, NothingChanges
<1> QED BY <1>1, <1>2, <1>3 DEF Next

(* What is known about the classes while the text is read, and why a class is
   laid out as it should be: at most one class changes at a time, nothing is made
   of it yet, and whatever other classes are made of is complete and stays.  A
   program within the limits uses no class that is still open, but for its parent,
   and does not add to a class in use. *)
THEOREM TableInvariant ==
  ASSUME WithinLimits
  PROVE  Spec => []TableInv
<1>1. Init => TableInv
  <2> SUFFICES ASSUME Init
               PROVE  TableInv
    OBVIOUS
  <2>1. Len(Names) \in Nat
    BY TableConstants, LenProperties
  <2>2. Empty
    BY <2>1 DEF Init, TableInit, Empty
  <2> QED BY <2>2, EmptyIsFine DEF EmptyMeans
<1>2. TableInv /\ [Next]_vars => TableInv'
  BY NextKeeps
<1> QED BY <1>1, <1>2, PTL DEF Spec

(* Functions are compiled once no class is open. *)
ReadWhole == phase = "compiled" => open = <<>>

LEMMA ReadWholeHolds == Spec => []ReadWhole
<1>1. Init => ReadWhole
  BY DEF Init, TableInit, ReadWhole
<1>2. ASSUME ReadWhole, [Next]_vars
      PROVE  ReadWhole'
  <2>1. CASE ReadLine
    <3>1. phase' # "compiled"
      BY <2>1 DEF ReadLine, DeclareClass, DeclareWrongly, DeclareForLater, Declares, HasRead, Reject,
                  RetryClass, CloseClass, Inside, OverrideClass, AddVariable, AddOtherVariable,
                  ReadsVariable, AddLine, Reads
    <3> QED BY <3>1 DEF ReadWhole
  <2>2. CASE Compile
    BY <2>2 DEF Compile, Reject, ReadWhole
  <2>3. CASE UNCHANGED vars
    BY <1>2, <2>3 DEF vars, ReadWhole
  <2> QED BY <1>2, <2>1, <2>2, <2>3 DEF Next
<1> QED BY <1>1, <1>2, PTL DEF Spec

(* Every class that is compiled lies over its parent: the parent's elements where
   they were, its own behind them in the order of the text, each aligned, none
   over another, all inside, and the room for the table first (derive_from,
   parser_class_add_element, post_process_newly_parsed_class). *)
THEOREM LayoutHolds ==
  ASSUME WithinLimits
  PROVE  Spec => []LayoutExtends
<1>1. TableInv /\ ReadWhole => LayoutExtends
  <2> SUFFICES ASSUME TableInv, ReadWhole, NEW c \in Compiled
               PROVE  Extends(c) /\ InOrder(c) /\ Whole(classes[c])
    BY DEF LayoutExtends
  <2>1. c \in Classes /\ open = <<>>
    BY DEF Compiled, ReadWhole
  <2>2. ~InWork(c)
    BY <2>1, EmptySeq DEF InWork
  <2> QED BY <2>1, <2>2 DEF TableInv, SoFar
<1> QED BY <1>1, TableInvariant, ReadWholeHolds, PTL
=============================================================================
