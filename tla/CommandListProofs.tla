------------------------- MODULE CommandListProofs --------------------------
(***************************************************************************)
(* Proofs about CommandListMachine: no edit of a command list uncovers a   *)
(* use, for all registers, instructions, operand kinds and bounds.         *)
(***************************************************************************)
EXTENDS CommandListMachine, SequenceTheorems, TLAPS

(* A sequence with one entry more in its middle. *)
LEMMA InsertedAt ==
    ASSUME NEW S, NEW s \in Seq(S), NEW e \in S, NEW i \in 1 .. Len(s) + 1
    PROVE  /\ InsertAt(s, i, e) \in Seq(S)
           /\ Len(InsertAt(s, i, e)) = Len(s) + 1
           /\ InsertAt(s, i, e)[i] = e
           /\ \A j \in 1 .. Len(s) + 1 : j < i => InsertAt(s, i, e)[j] = s[j]
           /\ \A j \in 1 .. Len(s) + 1 : j > i => InsertAt(s, i, e)[j] = s[j - 1]
<1> DEFINE front == SubSeq(s, 1, i - 1)
           back == SubSeq(s, i, Len(s))
<1>0. Len(s) \in Nat /\ \A j \in 1 .. Len(s) : s[j] \in S
  BY LenProperties, ElementOfSeq
<1>1. front \in Seq(S) /\ Len(front) = i - 1 /\ \A j \in 1 .. i - 1 : front[j] = s[j]
  <2>1. front \in Seq(S) /\ \A j \in 1 .. i - 1 : front[j] = s[j]
    BY <1>0, SubSeqProperties
  <2>2. Len(front) = IF 1 <= i - 1 THEN (i - 1) - 1 + 1 ELSE 0
    BY <1>0, SubSeqProperties
  <2> QED BY <2>1, <2>2, <1>0
<1>2. back \in Seq(S) /\ Len(back) = Len(s) + 1 - i /\ \A j \in 1 .. Len(s) + 1 - i : back[j] = s[i + j - 1]
  <2>1. back \in Seq(S) /\ \A j \in 1 .. Len(s) - i + 1 : back[j] = s[i + j - 1]
    BY <1>0, SubSeqProperties
  <2>2. Len(back) = IF i <= Len(s) THEN Len(s) - i + 1 ELSE 0
    BY <1>0, SubSeqProperties
  <2> QED BY <2>1, <2>2, <1>0
<1> DEFINE head == front \o <<e>>
<1>3. <<e>> \in Seq(S) /\ Len(<<e>>) = 1 /\ <<e>>[1] = e
  OBVIOUS
<1>4. head \in Seq(S) /\ Len(head) = i /\ head[i] = e /\ \A j \in 1 .. i - 1 : head[j] = s[j]
  <2>1. /\ head \in Seq(S)
        /\ Len(head) = Len(front) + Len(<<e>>)
        /\ \A j \in 1 .. Len(front) + Len(<<e>>) : head[j] = IF j <= Len(front) THEN front[j] ELSE <<e>>[j - Len(front)]
    BY <1>1, <1>3, ConcatProperties
  <2> HIDE DEF head, front
  <2> QED BY <2>1, <1>0, <1>1, <1>3
<1>6. InsertAt(s, i, e) = head \o back
  BY DEF InsertAt
<1> HIDE DEF head, back, front
<1>5. /\ head \o back \in Seq(S)
      /\ Len(head \o back) = Len(head) + Len(back)
      /\ \A j \in 1 .. Len(head) + Len(back) : (head \o back)[j] = IF j <= Len(head) THEN head[j] ELSE back[j - Len(head)]
  BY <1>2, <1>4, ConcatProperties
<1> QED BY <1>0, <1>2, <1>4, <1>5, <1>6

LEMMA InsertedElsewhere ==
    ASSUME NEW S, NEW s \in Seq(S), NEW e \in S, NEW i \in 1 .. Len(s) + 1, NEW j \in 1 .. Len(s) + 1
    PROVE  /\ j < i => InsertAt(s, i, e)[j] = s[j]
           /\ j > i => InsertAt(s, i, e)[j] = s[j - 1]
<1>1. \A k \in 1 .. Len(s) + 1 : k < i => InsertAt(s, i, e)[k] = s[k]
  BY InsertedAt
<1>2. \A k \in 1 .. Len(s) + 1 : k > i => InsertAt(s, i, e)[k] = s[k - 1]
  BY InsertedAt
<1> QED BY <1>1, <1>2

(* A sequence with one entry less. *)
LEMMA RemovedAt ==
    ASSUME NEW S, NEW s \in Seq(S), NEW i \in 1 .. Len(s)
    PROVE  /\ RemoveAt(s, i) \in Seq(S)
           /\ Len(RemoveAt(s, i)) = Len(s) - 1
           /\ \A j \in 1 .. Len(s) - 1 : j < i => RemoveAt(s, i)[j] = s[j]
           /\ \A j \in 1 .. Len(s) - 1 : j >= i => RemoveAt(s, i)[j] = s[j + 1]
<1> DEFINE front == SubSeq(s, 1, i - 1)
           back == SubSeq(s, i + 1, Len(s))
<1>0. Len(s) \in Nat /\ \A j \in 1 .. Len(s) : s[j] \in S
  BY LenProperties, ElementOfSeq
<1>1. front \in Seq(S) /\ Len(front) = i - 1 /\ \A j \in 1 .. i - 1 : front[j] = s[j]
  <2>1. front \in Seq(S) /\ \A j \in 1 .. i - 1 : front[j] = s[j]
    BY <1>0, SubSeqProperties
  <2>2. Len(front) = IF 1 <= i - 1 THEN (i - 1) - 1 + 1 ELSE 0
    BY <1>0, SubSeqProperties
  <2> QED BY <2>1, <2>2, <1>0
<1>2. back \in Seq(S) /\ Len(back) = Len(s) - i /\ \A j \in 1 .. Len(s) - i : back[j] = s[i + j]
  <2>1. back \in Seq(S) /\ \A j \in 1 .. Len(s) - (i + 1) + 1 : back[j] = s[i + 1 + j - 1]
    BY <1>0, SubSeqProperties
  <2>2. Len(back) = IF i + 1 <= Len(s) THEN Len(s) - (i + 1) + 1 ELSE 0
    BY <1>0, SubSeqProperties
  <2> QED BY <2>1, <2>2, <1>0
<1>3. /\ front \o back \in Seq(S)
      /\ Len(front \o back) = Len(front) + Len(back)
      /\ \A j \in 1 .. Len(front) + Len(back) : (front \o back)[j] = IF j <= Len(front) THEN front[j] ELSE back[j - Len(front)]
  BY <1>1, <1>2, ConcatProperties
<1>4. RemoveAt(s, i) = front \o back
  BY DEF RemoveAt
<1> HIDE DEF back, front
<1> DEFINE t == front \o back
<1>5. t \in Seq(S) /\ Len(t) = Len(s) - 1
  BY <1>0, <1>1, <1>2, <1>3
<1>6. \A j \in 1 .. Len(s) - 1 : j < i => t[j] = s[j]
  BY <1>0, <1>1, <1>2, <1>3
<1>7. ASSUME NEW j \in 1 .. Len(s) - 1, j >= i
      PROVE  t[j] = s[j + 1]
  <2>1. t[j] = back[j - (i - 1)]
    <3>1. Len(front) = i - 1 /\ Len(back) = Len(s) - i
      BY <1>1, <1>2
    <3>2. j \in 1 .. Len(front) + Len(back) /\ ~(j <= Len(front))
      BY <3>1, <1>0, <1>7
    <3>3. t[j] = IF j <= Len(front) THEN front[j] ELSE back[j - Len(front)]
      BY <3>2, <1>3
    <3> HIDE DEF t
    <3>4. t[j] = back[j - Len(front)]
      BY <3>2, <3>3
    <3> QED BY <3>1, <3>4
  <2>2. back[j - (i - 1)] = s[i + (j - (i - 1))]
    BY <1>0, <1>2, <1>7
  <2>3. i + (j - (i - 1)) = j + 1
    BY <1>0
  <2> QED BY <2>1, <2>2, <2>3
<1> QED BY <1>4, <1>5, <1>6, <1>7

(* What the three changes of a range do to the positions it covers. *)
LEMMA InsertedCovers ==
    ASSUME NEW r, r.first \in Nat, r.last \in Nat, NEW i \in Nat \ {0}, NEW j \in Nat, Covers(r, j),
           NEW s, s.first = (IF r.first >= i THEN r.first + 1 ELSE r.first),
                  s.last = (IF r.last >= i THEN r.last + 1 ELSE r.last)
    PROVE  /\ j < i => Covers(s, j)
           /\ j >= i => Covers(s, j + 1)
  BY DEF Covers

LEMMA ErasedCovers ==
    ASSUME NEW r, r.first \in Nat, r.last \in Nat, NEW i \in Nat \ {0}, NEW j \in Nat, Covers(r, j),
           NEW s, s.first = (IF r.first > i THEN r.first - 1 ELSE r.first),
                  s.last = (IF r.last >= i THEN r.last - 1 ELSE r.last)
    PROVE  /\ j < i => Covers(s, j)
           /\ j > i => Covers(s, j - 1)
  BY DEF Covers

LEMMA UsedCovers ==
    ASSUME NEW r, r.first \in Nat, r.last \in Nat, NEW a \in Nat \ {0}, NEW b \in Nat, a <= b,
           NEW s, s.first = (IF r.first = 0 \/ r.first > a THEN a ELSE r.first),
                  s.last = (IF r.last = 0 \/ r.last < b THEN b ELSE r.last)
    PROVE  /\ \A j \in a .. b : Covers(s, j)
           /\ \A j \in Nat : Covers(r, j) => Covers(s, j)
  BY DEF Covers

(* Moving or extending one range keeps its type and the positions it covers. *)
LEMMA InsertedRange ==
    ASSUME NEW r \in TempType \cup RegType, NEW i \in Nat \ {0}
    PROVE  /\ r \in TempType => Inserted(r, i) \in TempType
           /\ r \in RegType => Inserted(r, i) \in RegType
           /\ \A j \in Nat : Covers(r, j) =>
                 /\ j < i => Covers(Inserted(r, i), j)
                 /\ j >= i => Covers(Inserted(r, i), j + 1)
<1>1. ASSUME r \in TempType PROVE Inserted(r, i) \in TempType
  <2> DEFINE f == IF r.first >= i THEN r.first + 1 ELSE r.first
             l == IF r.last >= i THEN r.last + 1 ELSE r.last
  <2>1. f \in Nat /\ l \in Nat
    BY <1>1 DEF TempType
  <2>2. Inserted(r, i) = [r EXCEPT !.first = f, !.last = l]
    BY <1>1 DEF Inserted, TempType
  <2> HIDE DEF f, l
  <2> QED BY <1>1, <2>1, <2>2 DEF TempType
<1>3. ASSUME r \in RegType PROVE Inserted(r, i) \in RegType
  <2> DEFINE f == IF r.first >= i THEN r.first + 1 ELSE r.first
             l == IF r.last >= i THEN r.last + 1 ELSE r.last
  <2>1. f \in Nat /\ l \in Nat
    BY <1>3 DEF RegType
  <2>2. Inserted(r, i) = [r EXCEPT !.first = f, !.last = l]
    BY <1>3 DEF Inserted, RegType
  <2> HIDE DEF f, l
  <2> QED BY <1>3, <2>1, <2>2 DEF RegType
<1>2. /\ r.first \in Nat /\ r.last \in Nat
      /\ Inserted(r, i).first = (IF r.first >= i THEN r.first + 1 ELSE r.first)
      /\ Inserted(r, i).last = (IF r.last >= i THEN r.last + 1 ELSE r.last)
  BY DEF Inserted, TempType, RegType
<1> QED BY <1>1, <1>2, <1>3, InsertedCovers

LEMMA ErasedRange ==
    ASSUME NEW r \in TempType \cup RegType, NEW i \in Nat \ {0}
    PROVE  /\ r \in TempType => Erased(r, i) \in TempType
           /\ r \in RegType => Erased(r, i) \in RegType
           /\ \A j \in Nat : Covers(r, j) =>
                 /\ j < i => Covers(Erased(r, i), j)
                 /\ j > i => Covers(Erased(r, i), j - 1)
<1>1. ASSUME r \in TempType PROVE Erased(r, i) \in TempType
  <2> DEFINE f == IF r.first > i THEN r.first - 1 ELSE r.first
             l == IF r.last >= i THEN r.last - 1 ELSE r.last
  <2>1. f \in Nat /\ l \in Nat
    BY <1>1 DEF TempType
  <2>2. Erased(r, i) = [r EXCEPT !.first = f, !.last = l]
    BY <1>1 DEF Erased, TempType
  <2> HIDE DEF f, l
  <2> QED BY <1>1, <2>1, <2>2 DEF TempType
<1>3. ASSUME r \in RegType PROVE Erased(r, i) \in RegType
  <2> DEFINE f == IF r.first > i THEN r.first - 1 ELSE r.first
             l == IF r.last >= i THEN r.last - 1 ELSE r.last
  <2>1. f \in Nat /\ l \in Nat
    BY <1>3 DEF RegType
  <2>2. Erased(r, i) = [r EXCEPT !.first = f, !.last = l]
    BY <1>3 DEF Erased, RegType
  <2> HIDE DEF f, l
  <2> QED BY <1>3, <2>1, <2>2 DEF RegType
<1>2. /\ r.first \in Nat /\ r.last \in Nat
      /\ Erased(r, i).first = (IF r.first > i THEN r.first - 1 ELSE r.first)
      /\ Erased(r, i).last = (IF r.last >= i THEN r.last - 1 ELSE r.last)
  BY DEF Erased, TempType, RegType
<1> QED BY <1>1, <1>2, <1>3, ErasedCovers

LEMMA UsedRange ==
    ASSUME NEW r \in TempType \cup RegType, NEW a \in Nat \ {0}, NEW b \in Nat, a <= b
    PROVE  /\ r \in TempType => Used(r, a, b) \in TempType
           /\ r \in RegType => Used(r, a, b) \in RegType
           /\ \A j \in a .. b : Covers(Used(r, a, b), j)
           /\ \A j \in Nat : Covers(r, j) => Covers(Used(r, a, b), j)
<1>1. /\ r \in TempType => Used(r, a, b) \in TempType
      /\ r \in RegType => Used(r, a, b) \in RegType
  BY DEF Used, TempType, RegType
<1>2. /\ r.first \in Nat /\ r.last \in Nat
      /\ Used(r, a, b).first = (IF r.first = 0 \/ r.first > a THEN a ELSE r.first)
      /\ Used(r, a, b).last = (IF r.last = 0 \/ r.last < b THEN b ELSE r.last)
  BY DEF Used, TempType, RegType
<1> QED BY <1>1, <1>2, UsedCovers

LEMMA RegUsed ==
    ASSUME NEW r \in RegType, NEW a \in Nat \ {0}, NEW b \in Nat
    PROVE  /\ Used(r, a, b) \in RegType
           /\ \A j \in Nat : Covers(r, j) => Covers(Used(r, a, b), j)
<1>1. Used(r, a, b) \in RegType
  BY DEF Used, RegType
<1>2. /\ r.first \in Nat /\ r.last \in Nat
      /\ Used(r, a, b).first = (IF r.first = 0 \/ r.first > a THEN a ELSE r.first)
      /\ Used(r, a, b).last = (IF r.last = 0 \/ r.last < b THEN b ELSE r.last)
  BY DEF Used, RegType
<1> QED BY <1>1, <1>2 DEF Covers

Open(L) == L \in ListType /\ L.next <= Len(L.cmd) + 1

(* An operand a list knows covers its position after naming it. *)
LEMMA ParamUsed ==
    ASSUME NEW L \in ListType, NEW i \in Nat \ {0}, NEW p \in Operand, Known(L, p)
    PROVE  LET M == UseParam(L, i, p) IN
           /\ M \in ListType
           /\ M.cmd = L.cmd /\ M.next = L.next
           /\ DOMAIN M.temp = DOMAIN L.temp /\ DOMAIN M.vreg = DOMAIN L.vreg
           /\ InRange(M, p, i)
           /\ \A q \in Operand, j \in Nat : InRange(L, q, j) => InRange(M, q, j)
<1>0. L.cmd \in Seq(CommandType) /\ L.temp \in Seq(TempType) /\ L.vreg \in Seq(RegType) /\ L.next \in Nat \ {0}
  BY DEF ListType
<1>1. CASE p.kind \in RegKinds /\ p.vreg # 0
  <2> DEFINE u == Used(L.vreg[p.vreg], i, i)
  <2>1. p.vreg \in DOMAIN L.vreg /\ L.vreg[p.vreg] \in RegType /\ p.kind \notin TempKinds
    BY <1>0, <1>1, ElementOfSeq DEF Known, TempKinds, RegKinds
  <2>2. u \in RegType /\ Covers(u, i) /\ \A j \in Nat : Covers(L.vreg[p.vreg], j) => Covers(u, j)
    BY <2>1, UsedRange
  <2> HIDE DEF u
  <2>3. UseParam(L, i, p) = [L EXCEPT !.vreg = [L.vreg EXCEPT ![p.vreg] = u]]
    BY <1>1 DEF UseParam, UseVirtualReg, u
  <2>4. /\ [L.vreg EXCEPT ![p.vreg] = u] \in Seq(RegType)
        /\ DOMAIN [L.vreg EXCEPT ![p.vreg] = u] = DOMAIN L.vreg
    BY <1>0, <2>1, <2>2, ExceptSeq
  <2> QED BY <1>0, <1>1, <2>1, <2>2, <2>3, <2>4 DEF ListType, InRange
<1>2. CASE ~(p.kind \in RegKinds /\ p.vreg # 0) /\ p.kind \in TempKinds
  <2> DEFINE u == Used(L.temp[p.p], i, i)
  <2>1. p.p \in DOMAIN L.temp /\ L.temp[p.p] \in TempType
    BY <1>0, <1>2, ElementOfSeq DEF Known
  <2>2. u \in TempType /\ Covers(u, i) /\ \A j \in Nat : Covers(L.temp[p.p], j) => Covers(u, j)
    BY <2>1, UsedRange
  <2> HIDE DEF u
  <2>3. UseParam(L, i, p) = [L EXCEPT !.temp = [L.temp EXCEPT ![p.p] = u]]
    BY <1>2 DEF UseParam, u
  <2>4. /\ [L.temp EXCEPT ![p.p] = u] \in Seq(TempType)
        /\ DOMAIN [L.temp EXCEPT ![p.p] = u] = DOMAIN L.temp
    BY <1>0, <2>1, <2>2, ExceptSeq
  <2> QED BY <1>0, <1>2, <2>1, <2>2, <2>3, <2>4 DEF ListType, InRange
<1>3. CASE ~(p.kind \in RegKinds /\ p.vreg # 0) /\ p.kind \notin TempKinds
  BY <1>3 DEF UseParam, InRange
<1> QED BY <1>1, <1>2, <1>3

(* All ranges of a list move together. *)
LEMMA TempsInserted ==
    ASSUME NEW t \in Seq(TempType), NEW i \in Nat \ {0}
    PROVE  /\ EachRange(t, Inserted, i) \in Seq(TempType)
           /\ DOMAIN EachRange(t, Inserted, i) = DOMAIN t
           /\ \A v \in DOMAIN t : EachRange(t, Inserted, i)[v] = Inserted(t[v], i)
<1>1. \A v \in 1 .. Len(t) : Inserted(t[v], i) \in TempType
  BY ElementOfSeq, InsertedRange
<1>2. EachRange(t, Inserted, i) = [v \in 1 .. Len(t) |-> Inserted(t[v], i)]
  BY DEF EachRange
<1> QED BY <1>1, <1>2

LEMMA RegsInserted ==
    ASSUME NEW t \in Seq(RegType), NEW i \in Nat \ {0}
    PROVE  /\ EachRange(t, Inserted, i) \in Seq(RegType)
           /\ DOMAIN EachRange(t, Inserted, i) = DOMAIN t
           /\ \A v \in DOMAIN t : EachRange(t, Inserted, i)[v] = Inserted(t[v], i)
<1>1. \A v \in 1 .. Len(t) : Inserted(t[v], i) \in RegType
  BY ElementOfSeq, InsertedRange
<1>2. EachRange(t, Inserted, i) = [v \in 1 .. Len(t) |-> Inserted(t[v], i)]
  BY DEF EachRange
<1> QED BY <1>1, <1>2

LEMMA TempsErased ==
    ASSUME NEW t \in Seq(TempType), NEW i \in Nat \ {0}
    PROVE  /\ EachRange(t, Erased, i) \in Seq(TempType)
           /\ DOMAIN EachRange(t, Erased, i) = DOMAIN t
           /\ \A v \in DOMAIN t : EachRange(t, Erased, i)[v] = Erased(t[v], i)
<1>1. \A v \in 1 .. Len(t) : Erased(t[v], i) \in TempType
  BY ElementOfSeq, ErasedRange
<1>2. EachRange(t, Erased, i) = [v \in 1 .. Len(t) |-> Erased(t[v], i)]
  BY DEF EachRange
<1> QED BY <1>1, <1>2

LEMMA RegsErased ==
    ASSUME NEW t \in Seq(RegType), NEW i \in Nat \ {0}
    PROVE  /\ EachRange(t, Erased, i) \in Seq(RegType)
           /\ DOMAIN EachRange(t, Erased, i) = DOMAIN t
           /\ \A v \in DOMAIN t : EachRange(t, Erased, i)[v] = Erased(t[v], i)
<1>1. \A v \in 1 .. Len(t) : Erased(t[v], i) \in RegType
  BY ElementOfSeq, ErasedRange
<1>2. EachRange(t, Erased, i) = [v \in 1 .. Len(t) |-> Erased(t[v], i)]
  BY DEF EachRange
<1> QED BY <1>1, <1>2

(* The parts of a list that an edit does not renumber. *)
Alike(L, M) == DOMAIN M.temp = DOMAIN L.temp /\ DOMAIN M.vreg = DOMAIN L.vreg

LEMMA ParamsTyped ==
    ASSUME NEW L \in ListType
    PROVE  /\ L.cmd \in Seq(CommandType) /\ L.temp \in Seq(TempType) /\ L.vreg \in Seq(RegType)
           /\ L.next \in Nat \ {0}
           /\ DOMAIN L.cmd = 1 .. Len(L.cmd) /\ Len(L.cmd) \in Nat
           /\ \A i \in DOMAIN L.cmd : L.cmd[i] \in CommandType
           /\ \A i \in DOMAIN L.cmd, k \in 1 .. 3 : L.cmd[i].p[k] \in Operand
<1>1. L.cmd \in Seq(CommandType) /\ L.temp \in Seq(TempType) /\ L.vreg \in Seq(RegType) /\ L.next \in Nat \ {0}
  BY DEF ListType
<1>2. DOMAIN L.cmd = 1 .. Len(L.cmd) /\ Len(L.cmd) \in Nat /\ \A i \in DOMAIN L.cmd : L.cmd[i] \in CommandType
  BY <1>1, ElementOfSeq, LenProperties
<1> QED BY <1>1, <1>2 DEF CommandType

(* An operand of the list replaced by one the list knows. *)
LEMMA ParamSet ==
    ASSUME NEW L \in ListType, RangesCover(L), NEW i \in DOMAIN L.cmd, NEW k \in 1 .. 3,
           NEW p \in Operand, Known(L, p)
    PROVE  LET M == SetCmdParam(L, i, k, p) IN
           /\ M \in ListType /\ RangesCover(M) /\ Alike(L, M)
           /\ M.next = L.next /\ Len(M.cmd) = Len(L.cmd)
<1> DEFINE c == [L.cmd[i] EXCEPT !.p = [L.cmd[i].p EXCEPT ![k] = p]]
           K == [L EXCEPT !.cmd = [L.cmd EXCEPT ![i] = c]]
           M == UseParam(K, i, p)
<1>0. /\ L.cmd \in Seq(CommandType) /\ i \in Nat \ {0} /\ L.cmd[i] \in CommandType
      /\ \A j \in DOMAIN L.cmd, h \in 1 .. 3 : j \in Nat /\ L.cmd[j].p[h] \in Operand
  BY ParamsTyped
<1>1. c \in CommandType /\ c.p[k] = p /\ \A h \in 1 .. 3 : h # k => c.p[h] = L.cmd[i].p[h]
  BY <1>0 DEF CommandType
<1>2. SetCmdParam(L, i, k, p) = M
  BY <1>0 DEF SetCmdParam, ListType, CommandType
<1> HIDE DEF c
<1>3. [L.cmd EXCEPT ![i] = c] \in Seq(CommandType) /\ Len([L.cmd EXCEPT ![i] = c]) = Len(L.cmd)
  BY <1>0, <1>1, ExceptSeq
<1>4. /\ K \in ListType /\ K.next = L.next /\ K.temp = L.temp /\ K.vreg = L.vreg
      /\ DOMAIN K.cmd = DOMAIN L.cmd /\ Len(K.cmd) = Len(L.cmd)
      /\ K.cmd[i] = c /\ \A j \in DOMAIN L.cmd : j # i => K.cmd[j] = L.cmd[j]
  BY <1>0, <1>3 DEF ListType
<1>5. Known(K, p)
  BY <1>4 DEF Known
<1> HIDE DEF K
<1>6. /\ M \in ListType /\ M.cmd = K.cmd /\ M.next = K.next
      /\ DOMAIN M.temp = DOMAIN K.temp /\ DOMAIN M.vreg = DOMAIN K.vreg
      /\ InRange(M, p, i)
      /\ \A q \in Operand, j \in Nat : InRange(K, q, j) => InRange(M, q, j)
  BY <1>0, <1>4, <1>5, ParamUsed
<1> HIDE DEF M
<1>7. ASSUME NEW j \in DOMAIN M.cmd, NEW h \in 1 .. 3
      PROVE  InRange(M, M.cmd[j].p[h], j)
  <2>1. CASE j = i /\ h = k
    BY <1>1, <1>4, <1>6, <2>1
  <2>2. CASE ~(j = i /\ h = k)
    <3>1. j \in DOMAIN L.cmd /\ j \in Nat /\ L.cmd[j].p[h] \in Operand /\ M.cmd[j].p[h] = L.cmd[j].p[h]
      BY <1>0, <1>1, <1>4, <1>6, <2>2
    <3>2. InRange(L, L.cmd[j].p[h], j)
      BY <3>1 DEF RangesCover
    <3>3. InRange(K, L.cmd[j].p[h], j)
      BY <1>4, <3>2 DEF InRange
    <3> QED BY <1>6, <3>1, <3>3
  <2> QED BY <2>1, <2>2
<1>8. RangesCover(M)
  BY <1>7 DEF RangesCover
<1> QED BY <1>2, <1>4, <1>6, <1>8 DEF Alike

(* Room for one more command: everything behind it moves, ranges as well. *)
LEMMA Opened ==
    ASSUME NEW L, Open(L), RangesCover(L), NEW inst \in Insts, ListAssumption
    PROVE  LET M == OpenAt(L, inst) IN
           /\ M \in ListType /\ RangesCover(M) /\ Alike(L, M)
           /\ M.next = L.next /\ Len(M.cmd) = Len(L.cmd) + 1
<1> DEFINE blank == Command(inst, p_none, p_none, p_none)
           M == OpenAt(L, inst)
<1>0. /\ L \in ListType /\ L.cmd \in Seq(CommandType) /\ L.temp \in Seq(TempType) /\ L.vreg \in Seq(RegType)
      /\ L.next \in 1 .. Len(L.cmd) + 1 /\ Len(L.cmd) \in Nat /\ DOMAIN L.cmd = 1 .. Len(L.cmd)
      /\ L.next \in Nat \ {0}
      /\ \A i \in DOMAIN L.cmd, k \in 1 .. 3 : L.cmd[i].p[k] \in Operand
  BY ParamsTyped DEF Open
<1>1. blank \in CommandType /\ \A k \in 1 .. 3 : blank.p[k].kind = "None"
  BY DEF CommandType, Command, p_none, Param, Operand, ListAssumption
<1>2. \A N, j : \A k \in 1 .. 3 : InRange(N, blank.p[k], j)
  BY <1>1 DEF InRange, TempKinds, RegKinds
<1> HIDE DEF blank
<1>3. CASE L.next = Len(L.cmd) + 1
  <2>1. M = [L EXCEPT !.cmd = Append(L.cmd, blank)]
    BY <1>3 DEF OpenAt, blank
  <2>2. /\ Append(L.cmd, blank) \in Seq(CommandType) /\ Len(Append(L.cmd, blank)) = Len(L.cmd) + 1
        /\ DOMAIN Append(L.cmd, blank) = 1 .. Len(L.cmd) + 1
        /\ Append(L.cmd, blank)[Len(L.cmd) + 1] = blank
        /\ \A j \in 1 .. Len(L.cmd) : Append(L.cmd, blank)[j] = L.cmd[j]
    BY <1>0, <1>1
  <2>3. /\ M \in ListType /\ M.cmd = Append(L.cmd, blank)
        /\ M.temp = L.temp /\ M.vreg = L.vreg /\ M.next = L.next
    BY <1>0, <2>1, <2>2 DEF ListType
  <2> HIDE DEF M
  <2>4. ASSUME NEW j \in DOMAIN M.cmd, NEW k \in 1 .. 3
        PROVE  InRange(M, M.cmd[j].p[k], j)
    <3>1. CASE j = Len(L.cmd) + 1
      BY <1>2, <2>2, <2>3, <3>1
    <3>2. CASE j \in 1 .. Len(L.cmd)
      <4>1. InRange(L, L.cmd[j].p[k], j)
        BY <1>0, <3>2 DEF RangesCover
      <4> QED BY <2>2, <2>3, <3>2, <4>1 DEF InRange
    <3> QED BY <1>0, <2>2, <2>3, <3>1, <3>2
  <2>5. RangesCover(M)
    BY <2>4 DEF RangesCover
  <2> QED BY <2>2, <2>3, <2>5 DEF Alike, M
<1>4. CASE L.next # Len(L.cmd) + 1
  <2> DEFINE cs == InsertAt(L.cmd, L.next, blank)
             ts == EachRange(L.temp, Inserted, L.next)
             vs == EachRange(L.vreg, Inserted, L.next)
  <2>1. M = [L EXCEPT !.cmd = cs, !.temp = ts, !.vreg = vs]
    BY <1>4 DEF OpenAt, blank
  <2>2. /\ cs \in Seq(CommandType) /\ Len(cs) = Len(L.cmd) + 1
        /\ cs[L.next] = blank
        /\ \A j \in 1 .. Len(L.cmd) + 1 : j < L.next => cs[j] = L.cmd[j]
        /\ \A j \in 1 .. Len(L.cmd) + 1 : j > L.next => cs[j] = L.cmd[j - 1]
    <3>1. /\ L.cmd \in Seq(CommandType) /\ L.next \in 1 .. Len(L.cmd) + 1 /\ blank \in CommandType
          /\ Len(L.cmd) \in Nat /\ L.next \in Nat
      BY <1>0, <1>1
    <3>2. /\ cs \in Seq(CommandType) /\ Len(cs) = Len(L.cmd) + 1
          /\ cs[L.next] = blank
      BY <3>1, InsertedAt
    <3>3. ASSUME NEW j \in 1 .. Len(L.cmd) + 1, j < L.next PROVE cs[j] = L.cmd[j]
      BY <3>1, <3>3, InsertedElsewhere
    <3>4. ASSUME NEW j \in 1 .. Len(L.cmd) + 1, j > L.next PROVE cs[j] = L.cmd[j - 1]
      BY <3>1, <3>4, InsertedElsewhere
    <3> QED BY <3>2, <3>3, <3>4
  <2>3. /\ ts \in Seq(TempType) /\ DOMAIN ts = DOMAIN L.temp
        /\ \A v \in DOMAIN L.temp : ts[v] = Inserted(L.temp[v], L.next)
    BY <1>0, TempsInserted
  <2>4. /\ vs \in Seq(RegType) /\ DOMAIN vs = DOMAIN L.vreg
        /\ \A v \in DOMAIN L.vreg : vs[v] = Inserted(L.vreg[v], L.next)
    BY <1>0, RegsInserted
  <2> HIDE DEF cs, ts, vs
  <2>5. /\ M \in ListType /\ M.cmd = cs /\ M.temp = ts /\ M.vreg = vs /\ M.next = L.next
        /\ DOMAIN M.cmd = 1 .. Len(L.cmd) + 1
    <3>1. DOMAIN cs = 1 .. Len(L.cmd) + 1
      BY <2>2
    <3>2. M = [cmd |-> cs, temp |-> ts, vreg |-> vs, next |-> L.next]
      BY <1>0, <2>1 DEF ListType
    <3> HIDE DEF M
    <3> QED BY <1>0, <2>2, <2>3, <2>4, <3>1, <3>2 DEF ListType
  <2> HIDE DEF M
  <2>6. ASSUME NEW q \in Operand, NEW j \in Nat, InRange(L, q, j)
        PROVE  /\ j < L.next => InRange(M, q, j)
               /\ j >= L.next => InRange(M, q, j + 1)
    <3>1. ASSUME q.kind \in TempKinds
          PROVE  /\ q.p \in DOMAIN M.temp
                 /\ j < L.next => Covers(M.temp[q.p], j)
                 /\ j >= L.next => Covers(M.temp[q.p], j + 1)
      <4>1. q.p \in DOMAIN L.temp /\ L.temp[q.p] \in TempType /\ Covers(L.temp[q.p], j)
        BY <1>0, <2>6, <3>1, ElementOfSeq DEF InRange
      <4>2. /\ j < L.next => Covers(Inserted(L.temp[q.p], L.next), j)
            /\ j >= L.next => Covers(Inserted(L.temp[q.p], L.next), j + 1)
        BY <1>0, <2>6, <4>1, InsertedRange
      <4> QED BY <2>3, <2>5, <4>1, <4>2
    <3>2. ASSUME q.kind \in RegKinds, q.vreg # 0
          PROVE  /\ q.vreg \in DOMAIN M.vreg
                 /\ j < L.next => Covers(M.vreg[q.vreg], j)
                 /\ j >= L.next => Covers(M.vreg[q.vreg], j + 1)
      <4>1. q.vreg \in DOMAIN L.vreg /\ L.vreg[q.vreg] \in RegType /\ Covers(L.vreg[q.vreg], j)
        BY <1>0, <2>6, <3>2, ElementOfSeq DEF InRange
      <4>2. /\ j < L.next => Covers(Inserted(L.vreg[q.vreg], L.next), j)
            /\ j >= L.next => Covers(Inserted(L.vreg[q.vreg], L.next), j + 1)
        BY <1>0, <2>6, <4>1, InsertedRange
      <4> QED BY <2>4, <2>5, <4>1, <4>2
    <3> QED BY <3>1, <3>2 DEF InRange
  <2>7. ASSUME NEW j \in DOMAIN M.cmd, NEW k \in 1 .. 3
        PROVE  InRange(M, M.cmd[j].p[k], j)
    <3>1. CASE j = L.next
      BY <1>2, <2>2, <2>5, <3>1
    <3>2. CASE j < L.next
      <4>1. j \in DOMAIN L.cmd /\ j \in Nat /\ L.cmd[j].p[k] \in Operand /\ M.cmd[j] = L.cmd[j]
        BY <1>0, <2>2, <2>5, <3>2, SMTT(40)
      <4>2. InRange(L, L.cmd[j].p[k], j)
        BY <4>1 DEF RangesCover
      <4> QED BY <2>6, <3>2, <4>1, <4>2
    <3>3. CASE j > L.next
      <4>0. j \in Nat /\ j \in 1 .. Len(L.cmd) + 1 /\ L.next \in Nat
        BY <1>0, <2>2, <2>5
      <4>4. j - 1 \in 1 .. Len(L.cmd) /\ j - 1 \in Nat /\ j - 1 >= L.next /\ (j - 1) + 1 = j
        BY <1>0, <3>3, <4>0
      <4>5. M.cmd[j] = L.cmd[j - 1]
        BY <2>2, <2>5, <3>3, <4>0
      <4>6. j - 1 \in DOMAIN L.cmd /\ L.cmd[j - 1].p[k] \in Operand
        BY <1>0, <4>4
      <4>1. /\ j - 1 \in DOMAIN L.cmd /\ j - 1 \in Nat /\ j - 1 >= L.next /\ (j - 1) + 1 = j
            /\ L.cmd[j - 1].p[k] \in Operand /\ M.cmd[j] = L.cmd[j - 1]
        BY <4>4, <4>5, <4>6
      <4>2. InRange(L, L.cmd[j - 1].p[k], j - 1)
        BY <4>1 DEF RangesCover
      <4>3. InRange(M, L.cmd[j - 1].p[k], (j - 1) + 1)
        BY <2>6, <4>1, <4>2
      <4> QED BY <4>1, <4>3
    <3> QED BY <1>0, <2>5, <3>1, <3>2, <3>3
  <2>8. RangesCover(M)
    BY <2>7 DEF RangesCover
  <2> QED BY <2>2, <2>3, <2>4, <2>5, <2>8 DEF Alike, M
<1> QED BY <1>3, <1>4

LEMMA Added ==
    ASSUME NEW L, Open(L), RangesCover(L), ListAssumption, NEW inst \in Insts,
           NEW p1 \in Operand, NEW p2 \in Operand, NEW p3 \in Operand,
           Known(L, p1), Known(L, p2), Known(L, p3)
    PROVE  LET M == AddCmd(L, Command(inst, p1, p2, p3)) IN
           Open(M) /\ RangesCover(M) /\ L.next + 1 <= Len(M.cmd) + 1
<1> DEFINE A == OpenAt(L, inst)
           B == SetCmdParam(A, L.next, 1, p1)
           C == SetCmdParam(B, L.next, 2, p2)
           D == SetCmdParam(C, L.next, 3, p3)
           M == [D EXCEPT !.next = Len(D.cmd) + 1]
<1>0. AddCmd(L, Command(inst, p1, p2, p3)) = M
  BY DEF AddCmd, Command
<1>1. L.next \in 1 .. Len(L.cmd) + 1 /\ Len(L.cmd) \in Nat
  BY ParamsTyped DEF Open
<1>2. A \in ListType /\ RangesCover(A) /\ Alike(L, A) /\ Len(A.cmd) = Len(L.cmd) + 1
  BY Opened
<1> HIDE DEF A
<1>3. L.next \in DOMAIN A.cmd /\ Known(A, p1) /\ Known(A, p2) /\ Known(A, p3)
  BY <1>1, <1>2, ParamsTyped DEF Alike, Known
<1>4. B \in ListType /\ RangesCover(B) /\ Alike(A, B) /\ Len(B.cmd) = Len(A.cmd)
  BY <1>2, <1>3, ParamSet
<1> HIDE DEF B
<1>5. L.next \in DOMAIN B.cmd /\ Known(B, p2) /\ Known(B, p3)
  BY <1>1, <1>2, <1>3, <1>4, ParamsTyped DEF Alike, Known
<1>6. C \in ListType /\ RangesCover(C) /\ Alike(B, C) /\ Len(C.cmd) = Len(B.cmd)
  BY <1>4, <1>5, ParamSet
<1> HIDE DEF C
<1>7. L.next \in DOMAIN C.cmd /\ Known(C, p3)
  BY <1>1, <1>2, <1>4, <1>5, <1>6, ParamsTyped DEF Alike, Known
<1>8. D \in ListType /\ RangesCover(D) /\ Len(D.cmd) = Len(C.cmd)
  BY <1>6, <1>7, ParamSet
<1> HIDE DEF D
<1>9. Len(D.cmd) = Len(L.cmd) + 1 /\ Len(D.cmd) \in Nat
  BY <1>1, <1>2, <1>4, <1>6, <1>8
<1>10. Open(M) /\ M.cmd = D.cmd /\ M.temp = D.temp /\ M.vreg = D.vreg
  <2>1. Len(D.cmd) + 1 \in Nat \ {0}
    BY <1>9
  <2>2. M = [cmd |-> D.cmd, temp |-> D.temp, vreg |-> D.vreg, next |-> Len(D.cmd) + 1]
    BY <1>8 DEF ListType
  <2> HIDE DEF M
  <2> QED BY <1>8, <1>9, <2>1, <2>2 DEF Open, ListType
<1>11. RangesCover(M)
  BY <1>8, <1>10 DEF RangesCover, InRange
<1> QED BY <1>0, <1>1, <1>9, <1>10, <1>11

(* Only the commands and the ranges matter, not where the next one goes. *)
LEMMA Targeted ==
    ASSUME NEW L \in ListType, RangesCover(L), NEW i \in 1 .. Len(L.cmd) + 1
    PROVE  Open(NextCmdTarget(L, i)) /\ RangesCover(NextCmdTarget(L, i))
<1>0. i \in Nat \ {0}
  BY ParamsTyped
<1>1. /\ NextCmdTarget(L, i) \in ListType /\ NextCmdTarget(L, i).next = i
      /\ NextCmdTarget(L, i).cmd = L.cmd
      /\ NextCmdTarget(L, i).temp = L.temp /\ NextCmdTarget(L, i).vreg = L.vreg
  BY <1>0 DEF NextCmdTarget, ListType
<1>2. RangesCover(NextCmdTarget(L, i))
  BY <1>1 DEF RangesCover, InRange
<1> QED BY <1>0, <1>1, <1>2 DEF Open

(* The end of a call's clobbers: only ranges of the one removed position go. *)
LEMMA Forgotten ==
    ASSUME NEW L \in ListType, NEW i \in DOMAIN L.cmd
    PROVE  LET F == ForgetClobber(L, i) IN
           /\ F \in ListType /\ F.cmd = L.cmd /\ F.temp = L.temp /\ F.next = L.next
           /\ DOMAIN F.vreg = DOMAIN L.vreg
           /\ \A q \in Operand, j \in Nat : j # i /\ InRange(L, q, j) => InRange(F, q, j)
<1>0. L.vreg \in Seq(RegType) /\ DOMAIN L.vreg = 1 .. Len(L.vreg) /\ Len(L.vreg) \in Nat
      /\ i \in Nat \ {0} /\ \A v \in 1 .. Len(L.vreg) : L.vreg[v] \in RegType
  BY ParamsTyped, ElementOfSeq, LenProperties
<1>1. CASE L.cmd[i].inst # "CALL"
  BY <1>1 DEF ForgetClobber
<1>2. CASE L.cmd[i].inst = "CALL"
  <2> DEFINE new(v) == IF L.vreg[v].first = i /\ L.vreg[v].last = i
                       THEN [L.vreg[v] EXCEPT !.first = 0, !.last = 0] ELSE L.vreg[v]
             vs == [v \in 1 .. Len(L.vreg) |-> new(v)]
             F == [L EXCEPT !.vreg = vs]
  <2>1. ForgetClobber(L, i) = F
    BY <1>0, <1>2 DEF ForgetClobber
  <2>2. \A v \in 1 .. Len(L.vreg) : new(v) \in RegType
    BY <1>0 DEF RegType
  <2>3. \A v \in 1 .. Len(L.vreg), j \in Nat : j # i /\ Covers(L.vreg[v], j) => Covers(new(v), j)
    BY <1>0 DEF RegType, Covers
  <2> HIDE DEF new
  <2>4. vs \in Seq(RegType) /\ DOMAIN vs = DOMAIN L.vreg /\ \A v \in 1 .. Len(L.vreg) : vs[v] = new(v)
    BY <1>0, <2>2
  <2> HIDE DEF vs
  <2>5. F \in ListType /\ F.cmd = L.cmd /\ F.temp = L.temp /\ F.next = L.next /\ F.vreg = vs
    BY <2>4 DEF ListType
  <2> HIDE DEF F
  <2>6. ASSUME NEW q \in Operand, NEW j \in Nat, j # i, InRange(L, q, j)
        PROVE  InRange(F, q, j)
    BY <1>0, <2>3, <2>4, <2>5, <2>6 DEF InRange
  <2> QED BY <2>1, <2>4, <2>5, <2>6
<1> QED BY <1>1, <1>2

LEMMA Removed ==
    ASSUME NEW L \in ListType, RangesCover(L), NEW i \in DOMAIN L.cmd
    PROVE  LET M == RemoveCmd(L, i) IN Open(M) /\ RangesCover(M)
<1> DEFINE F == ForgetClobber(L, i)
           cs == RemoveAt(L.cmd, i)
           ts == EachRange(F.temp, Erased, i)
           vs == EachRange(F.vreg, Erased, i)
           M == RemoveCmd(L, i)
<1>0. /\ L.cmd \in Seq(CommandType) /\ i \in Nat \ {0} /\ i \in 1 .. Len(L.cmd)
      /\ Len(L.cmd) \in Nat /\ DOMAIN L.cmd = 1 .. Len(L.cmd)
      /\ \A j \in DOMAIN L.cmd, k \in 1 .. 3 : L.cmd[j].p[k] \in Operand
  BY ParamsTyped
<1>1. /\ F \in ListType /\ F.cmd = L.cmd /\ F.temp = L.temp /\ F.next = L.next
      /\ DOMAIN F.vreg = DOMAIN L.vreg
      /\ \A q \in Operand, j \in Nat : j # i /\ InRange(L, q, j) => InRange(F, q, j)
  BY Forgotten
<1>2. M = [F EXCEPT !.cmd = cs, !.temp = ts, !.vreg = vs, !.next = i]
  BY <1>1 DEF RemoveCmd
<1> HIDE DEF F
<1>3. F.temp \in Seq(TempType) /\ F.vreg \in Seq(RegType)
  BY <1>1, ParamsTyped
<1>4. /\ cs \in Seq(CommandType) /\ Len(cs) = Len(L.cmd) - 1
  BY <1>0, RemovedAt
<1>5. ASSUME NEW j \in 1 .. Len(L.cmd) - 1, j < i PROVE cs[j] = L.cmd[j]
  BY <1>0, <1>5, RemovedAt
<1>6. ASSUME NEW j \in 1 .. Len(L.cmd) - 1, j >= i PROVE cs[j] = L.cmd[j + 1]
  BY <1>0, <1>6, RemovedAt
<1>7. /\ ts \in Seq(TempType) /\ DOMAIN ts = DOMAIN F.temp
      /\ \A v \in DOMAIN F.temp : ts[v] = Erased(F.temp[v], i)
  BY <1>0, <1>3, TempsErased
<1>8. /\ vs \in Seq(RegType) /\ DOMAIN vs = DOMAIN F.vreg
      /\ \A v \in DOMAIN F.vreg : vs[v] = Erased(F.vreg[v], i)
  BY <1>0, <1>3, RegsErased
<1> HIDE DEF cs, ts, vs
<1>9. /\ M \in ListType /\ M.cmd = cs /\ M.temp = ts /\ M.vreg = vs /\ M.next = i
      /\ DOMAIN M.cmd = 1 .. Len(L.cmd) - 1
  <2>1. DOMAIN cs = 1 .. Len(L.cmd) - 1
    BY <1>4
  <2>2. M = [cmd |-> cs, temp |-> ts, vreg |-> vs, next |-> i]
    BY <1>1, <1>2 DEF ListType
  <2> HIDE DEF M
  <2> QED BY <1>0, <1>4, <1>7, <1>8, <2>1, <2>2 DEF ListType
<1> HIDE DEF M
<1>10. ASSUME NEW q \in Operand, NEW j \in Nat, j # i, InRange(F, q, j)
       PROVE  /\ j < i => InRange(M, q, j)
              /\ j > i => InRange(M, q, j - 1)
  <2>1. ASSUME q.kind \in TempKinds
        PROVE  /\ q.p \in DOMAIN M.temp
               /\ j < i => Covers(M.temp[q.p], j)
               /\ j > i => Covers(M.temp[q.p], j - 1)
    <3>1. q.p \in DOMAIN F.temp /\ F.temp[q.p] \in TempType /\ Covers(F.temp[q.p], j)
      BY <1>3, <1>10, <2>1, ElementOfSeq DEF InRange
    <3>2. /\ j < i => Covers(Erased(F.temp[q.p], i), j)
          /\ j > i => Covers(Erased(F.temp[q.p], i), j - 1)
      BY <1>0, <1>10, <3>1, ErasedRange
    <3> QED BY <1>7, <1>9, <3>1, <3>2
  <2>2. ASSUME q.kind \in RegKinds, q.vreg # 0
        PROVE  /\ q.vreg \in DOMAIN M.vreg
               /\ j < i => Covers(M.vreg[q.vreg], j)
               /\ j > i => Covers(M.vreg[q.vreg], j - 1)
    <3>1. q.vreg \in DOMAIN F.vreg /\ F.vreg[q.vreg] \in RegType /\ Covers(F.vreg[q.vreg], j)
      BY <1>3, <1>10, <2>2, ElementOfSeq DEF InRange
    <3>2. /\ j < i => Covers(Erased(F.vreg[q.vreg], i), j)
          /\ j > i => Covers(Erased(F.vreg[q.vreg], i), j - 1)
      BY <1>0, <1>10, <3>1, ErasedRange
    <3> QED BY <1>8, <1>9, <3>1, <3>2
  <2> QED BY <2>1, <2>2 DEF InRange
<1>11. ASSUME NEW j \in DOMAIN M.cmd, NEW k \in 1 .. 3
       PROVE  InRange(M, M.cmd[j].p[k], j)
  <2>1. CASE j < i
    <3>1. j \in DOMAIN L.cmd /\ j \in Nat /\ j # i /\ L.cmd[j].p[k] \in Operand /\ M.cmd[j] = L.cmd[j]
      BY <1>0, <1>5, <1>9, <2>1
    <3>2. InRange(L, L.cmd[j].p[k], j)
      BY <3>1 DEF RangesCover
    <3> QED BY <1>1, <1>10, <2>1, <3>1, <3>2
  <2>2. CASE j >= i
    <3>1. /\ j + 1 \in DOMAIN L.cmd /\ j + 1 \in Nat /\ j + 1 # i /\ j + 1 > i /\ (j + 1) - 1 = j
          /\ L.cmd[j + 1].p[k] \in Operand /\ M.cmd[j] = L.cmd[j + 1]
      BY <1>0, <1>6, <1>9, <2>2, SMTT(40)
    <3>2. InRange(L, L.cmd[j + 1].p[k], j + 1)
      BY <3>1 DEF RangesCover
    <3>3. InRange(F, L.cmd[j + 1].p[k], j + 1)
      BY <1>1, <3>1, <3>2
    <3>4. InRange(M, L.cmd[j + 1].p[k], (j + 1) - 1)
      BY <1>10, <3>1, <3>3
    <3> QED BY <3>1, <3>4
  <2> QED BY <1>0, <1>9, <2>1, <2>2
<1>12. RangesCover(M)
  BY <1>11 DEF RangesCover
<1>13. M.next <= Len(M.cmd) + 1
  BY <1>0, <1>4, <1>9
<1> QED BY <1>9, <1>12, <1>13 DEF Open, M

(* The temporary nobody names any more; those behind it move down by one. *)
LEMMA TempRemoved ==
    ASSUME NEW L, Open(L), RangesCover(L), NEW v \in DOMAIN L.temp,
           \A i \in DOMAIN L.cmd, k \in 1 .. 3 : ~Names(L.cmd[i].p[k], TempKinds, v)
    PROVE  LET M == RemoveTempVar(L, v) IN Open(M) /\ RangesCover(M)
<1> DEFINE new(p) == IF p.kind \in TempKinds /\ p.p > v THEN [p EXCEPT !.p = p.p - 1] ELSE p
           cs == [i \in 1 .. Len(L.cmd) |-> [L.cmd[i] EXCEPT !.p = [k \in 1 .. 3 |-> new(L.cmd[i].p[k])]]]
           ts == RemoveAt(L.temp, v)
           M == RemoveTempVar(L, v)
<1>0. /\ L \in ListType /\ L.next <= Len(L.cmd) + 1 /\ L.temp \in Seq(TempType)
      /\ DOMAIN L.temp = 1 .. Len(L.temp) /\ Len(L.temp) \in Nat
      /\ v \in 1 .. Len(L.temp) /\ v \in Nat \ {0}
      /\ DOMAIN L.cmd = 1 .. Len(L.cmd) /\ Len(L.cmd) \in Nat
      /\ \A i \in 1 .. Len(L.cmd) : L.cmd[i] \in CommandType
      /\ \A i \in 1 .. Len(L.cmd), k \in 1 .. 3 : L.cmd[i].p[k] \in Operand
  BY ParamsTyped, LenProperties DEF Open
<1>1. M = [L EXCEPT !.cmd = cs, !.temp = ts]
  <2> DEFINE ds == [i \in DOMAIN L.cmd |-> [L.cmd[i] EXCEPT !.p = [k \in 1 .. 3 |-> new(L.cmd[i].p[k])]]]
  <2>1. M = [L EXCEPT !.cmd = ds, !.temp = ts]
    BY DEF RemoveTempVar
  <2>2. ds = cs
    BY <1>0
  <2> HIDE DEF ds, cs, ts, M
  <2> QED BY <2>1, <2>2
<1>2. \A p \in Operand : p.p \in Nat /\ p.kind \in Kinds
  BY DEF Operand
<1>3. ASSUME NEW p \in Operand PROVE new(p) \in Operand
  <2>1. CASE p.kind \in TempKinds /\ p.p > v
    <3>1. p.p - 1 \in Nat
      BY <1>0, <1>2, <2>1
    <3> QED BY <2>1, <3>1 DEF Operand
  <2> QED BY <2>1
<1>4. ASSUME NEW p \in Operand
      PROVE  /\ new(p).kind = p.kind /\ new(p).vreg = p.vreg
             /\ new(p).p = IF p.kind \in TempKinds /\ p.p > v THEN p.p - 1 ELSE p.p
  BY DEF Operand
<1> HIDE DEF new
<1>5. ASSUME NEW i \in 1 .. Len(L.cmd)
      PROVE  [L.cmd[i] EXCEPT !.p = [k \in 1 .. 3 |-> new(L.cmd[i].p[k])]] \in CommandType
  BY <1>0, <1>3 DEF CommandType
<1>6. /\ cs \in Seq(CommandType) /\ Len(cs) = Len(L.cmd) /\ DOMAIN cs = 1 .. Len(L.cmd)
  BY <1>0, <1>5
<1>7. ASSUME NEW i \in 1 .. Len(L.cmd), NEW k \in 1 .. 3
      PROVE  cs[i].p[k] = new(L.cmd[i].p[k])
  BY <1>0, <1>7 DEF CommandType
<1>8. ts \in Seq(TempType) /\ Len(ts) = Len(L.temp) - 1
  BY <1>0, RemovedAt
<1>9. ASSUME NEW j \in 1 .. Len(L.temp) - 1, j < v PROVE ts[j] = L.temp[j]
  BY <1>0, <1>9, RemovedAt
<1>10. ASSUME NEW j \in 1 .. Len(L.temp) - 1, j >= v PROVE ts[j] = L.temp[j + 1]
  BY <1>0, <1>10, RemovedAt
<1> HIDE DEF cs, ts
<1>11. /\ M \in ListType /\ M.cmd = cs /\ M.temp = ts /\ M.vreg = L.vreg /\ M.next = L.next
       /\ DOMAIN M.temp = 1 .. Len(L.temp) - 1
  <2>1. DOMAIN ts = 1 .. Len(L.temp) - 1
    BY <1>0, <1>8
  <2>2. M = [cmd |-> cs, temp |-> ts, vreg |-> L.vreg, next |-> L.next]
    BY <1>0, <1>1 DEF ListType
  <2> HIDE DEF M
  <2> QED BY <1>0, <1>6, <1>8, <2>1, <2>2 DEF ListType
<1> HIDE DEF M
<1>12. ASSUME NEW i \in DOMAIN M.cmd, NEW k \in 1 .. 3
       PROVE  InRange(M, M.cmd[i].p[k], i)
  <2> DEFINE p == L.cmd[i].p[k]
  <2>1. i \in 1 .. Len(L.cmd) /\ i \in DOMAIN L.cmd /\ p \in Operand /\ M.cmd[i].p[k] = new(p)
    BY <1>0, <1>6, <1>7, <1>11
  <2>2. InRange(L, p, i) /\ ~Names(p, TempKinds, v)
    BY <2>1 DEF RangesCover
  <2> HIDE DEF p
  <2>3. new(p).kind = p.kind /\ new(p).vreg = p.vreg
    BY <1>4, <2>1
  <2>4. ASSUME p.kind \in TempKinds
        PROVE  new(p).p \in DOMAIN M.temp /\ Covers(M.temp[new(p).p], i)
    <3>1. p.p \in 1 .. Len(L.temp) /\ Covers(L.temp[p.p], i)
      BY <1>0, <2>2, <2>4 DEF InRange
    <3>2. p.p # v
      BY <2>2, <2>4 DEF Names
    <3>3. CASE p.p > v
      <4>1. new(p).p = p.p - 1 /\ p.p - 1 \in 1 .. Len(L.temp) - 1 /\ p.p - 1 >= v /\ (p.p - 1) + 1 = p.p
        BY <1>0, <1>4, <2>1, <2>4, <3>1, <3>3
      <4>2. ts[p.p - 1] = L.temp[p.p]
        BY <1>10, <4>1
      <4> QED BY <1>11, <3>1, <4>1, <4>2
    <3>4. CASE p.p < v
      <4>1. new(p).p = p.p /\ p.p \in 1 .. Len(L.temp) - 1
        BY <1>0, <1>4, <2>1, <2>4, <3>1, <3>4
      <4>2. ts[p.p] = L.temp[p.p]
        BY <1>9, <3>4, <4>1
      <4> QED BY <1>11, <3>1, <4>1, <4>2
    <3> QED BY <1>0, <3>1, <3>2, <3>3, <3>4
  <2> QED BY <1>11, <2>1, <2>2, <2>3, <2>4 DEF InRange
<1>13. RangesCover(M)
  BY <1>12 DEF RangesCover
<1>14. M.next <= Len(M.cmd) + 1
  BY <1>0, <1>6, <1>11
<1> QED BY <1>11, <1>13, <1>14 DEF Open, M

(* A range given anew, if it still spans what names it. *)
LEMMA RegChanged ==
    ASSUME NEW L, Open(L), RangesCover(L), NEW v \in DOMAIN L.vreg, NEW u \in RegType,
           \A i \in DOMAIN L.cmd, k \in 1 .. 3 :
               Names(L.cmd[i].p[k], RegKinds, v) => (Covers(L.vreg[v], i) => Covers(u, i))
    PROVE  LET M == [L EXCEPT !.vreg = [L.vreg EXCEPT ![v] = u]] IN Open(M) /\ RangesCover(M)
<1> DEFINE vs == [L.vreg EXCEPT ![v] = u]
           M == [L EXCEPT !.vreg = vs]
<1>0. L \in ListType /\ L.next <= Len(L.cmd) + 1 /\ L.vreg \in Seq(RegType)
  BY ParamsTyped DEF Open
<1>1. vs \in Seq(RegType) /\ DOMAIN vs = DOMAIN L.vreg /\ vs[v] = u
      /\ \A w \in DOMAIN L.vreg : w # v => vs[w] = L.vreg[w]
  BY <1>0, ExceptSeq
<1> HIDE DEF vs
<1>2. M \in ListType /\ M.cmd = L.cmd /\ M.temp = L.temp /\ M.next = L.next /\ M.vreg = vs
  BY <1>0, <1>1 DEF ListType
<1> HIDE DEF M
<1>3. ASSUME NEW i \in DOMAIN M.cmd, NEW k \in 1 .. 3
      PROVE  InRange(M, M.cmd[i].p[k], i)
  <2>1. i \in DOMAIN L.cmd /\ M.cmd[i].p[k] = L.cmd[i].p[k]
    BY <1>2
  <2>2. InRange(L, L.cmd[i].p[k], i)
    BY <2>1 DEF RangesCover
  <2>3. RegKinds # TempKinds
    BY DEF RegKinds, TempKinds
  <2> QED BY <1>1, <1>2, <2>1, <2>2, <2>3 DEF InRange, Names
<1> QED BY <1>0, <1>2, <1>3 DEF RangesCover, Open, M, vs

(* Ranges nobody names yet. *)
LEMMA TempAdded ==
    ASSUME NEW L, Open(L), RangesCover(L), NEW type \in Nat, NEW stack \in BOOLEAN
    PROVE  Open(AddTemp(L, type, stack)) /\ RangesCover(AddTemp(L, type, stack))
<1> DEFINE t == [type |-> type, first |-> 0, last |-> 0, stack |-> stack]
           M == AddTemp(L, type, stack)
<1>0. L \in ListType /\ L.temp \in Seq(TempType)
  BY ParamsTyped DEF Open
<1>1. t \in TempType
  BY DEF TempType
<1>2. M = [L EXCEPT !.temp = Append(L.temp, t)]
  BY DEF AddTemp
<1> HIDE DEF t, M
<1>3. Append(L.temp, t) \in Seq(TempType)
      /\ \A v \in DOMAIN L.temp : v \in DOMAIN Append(L.temp, t) /\ Append(L.temp, t)[v] = L.temp[v]
  BY <1>0, <1>1
<1>4. M \in ListType /\ M.cmd = L.cmd /\ M.temp = Append(L.temp, t) /\ M.vreg = L.vreg /\ M.next = L.next
  BY <1>0, <1>2, <1>3 DEF ListType
<1>5. RangesCover(M)
  BY <1>3, <1>4 DEF RangesCover, InRange
<1> QED BY <1>4, <1>5 DEF Open, M

LEMMA RegAdded ==
    ASSUME NEW L, Open(L), RangesCover(L), NEW root \in Roots
    PROVE  Open(AddVirtualReg(L, root)) /\ RangesCover(AddVirtualReg(L, root))
<1> DEFINE r == [root |-> root, first |-> 0, last |-> 0]
           M == AddVirtualReg(L, root)
<1>0. L \in ListType /\ L.vreg \in Seq(RegType)
  BY ParamsTyped DEF Open
<1>1. r \in RegType
  BY DEF RegType
<1>2. M = [L EXCEPT !.vreg = Append(L.vreg, r)]
  BY DEF AddVirtualReg
<1> HIDE DEF r, M
<1>3. Append(L.vreg, r) \in Seq(RegType)
      /\ \A v \in DOMAIN L.vreg : v \in DOMAIN Append(L.vreg, r) /\ Append(L.vreg, r)[v] = L.vreg[v]
  BY <1>0, <1>1
<1>4. M \in ListType /\ M.cmd = L.cmd /\ M.temp = L.temp /\ M.vreg = Append(L.vreg, r) /\ M.next = L.next
  BY <1>0, <1>2, <1>3 DEF ListType
<1>5. RangesCover(M)
  BY <1>3, <1>4 DEF RangesCover, InRange
<1> QED BY <1>4, <1>5 DEF Open, M
-----------------------------------------------------------------------------
(* Lives that do not meet: what an insertion and a removal do to two of them. *)
LEMMA InsertedApart ==
    ASSUME NEW r \in RegType, NEW s \in RegType, NEW i \in Nat \ {0}, Apart(r, s)
    PROVE  Apart(Inserted(r, i), Inserted(s, i))
<1>1. /\ Inserted(r, i).first = (IF r.first >= i THEN r.first + 1 ELSE r.first)
      /\ Inserted(r, i).last = (IF r.last >= i THEN r.last + 1 ELSE r.last)
      /\ Inserted(s, i).first = (IF s.first >= i THEN s.first + 1 ELSE s.first)
      /\ Inserted(s, i).last = (IF s.last >= i THEN s.last + 1 ELSE s.last)
  BY DEF Inserted, RegType
<1>2. r.first \in Nat /\ r.last \in Nat /\ s.first \in Nat /\ s.last \in Nat
  BY DEF RegType
<1> QED BY <1>1, <1>2 DEF Apart

LEMMA ErasedApart ==
    ASSUME NEW r \in RegType, NEW s \in RegType, NEW i \in Nat \ {0}, Apart(r, s)
    PROVE  Apart(Erased(r, i), Erased(s, i))
<1>1. /\ Erased(r, i).first = (IF r.first > i THEN r.first - 1 ELSE r.first)
      /\ Erased(r, i).last = (IF r.last >= i THEN r.last - 1 ELSE r.last)
      /\ Erased(s, i).first = (IF s.first > i THEN s.first - 1 ELSE s.first)
      /\ Erased(s, i).last = (IF s.last >= i THEN s.last - 1 ELSE s.last)
  BY DEF Erased, RegType
<1>2. r.first \in Nat /\ r.last \in Nat /\ s.first \in Nat /\ s.last \in Nat
  BY DEF RegType
<1> QED BY <1>1, <1>2 DEF Apart

(* An operand touches the life of the register it names, of no other. *)
LEMMA OthersUntouched ==
    ASSUME NEW L \in ListType, NEW i \in DOMAIN L.cmd, NEW k \in 1 .. 3,
           NEW p \in Operand, Known(L, p)
    PROVE  LET M == SetCmdParam(L, i, k, p) IN
           /\ M.cmd[i].p[k] = p
           /\ \A h \in 1 .. 3 : h # k => M.cmd[i].p[h] = L.cmd[i].p[h]
           /\ \A v \in DOMAIN L.vreg : ~Names(p, RegKinds, v) => M.vreg[v] = L.vreg[v]
<1> DEFINE c == [L.cmd[i] EXCEPT !.p = [L.cmd[i].p EXCEPT ![k] = p]]
           K == [L EXCEPT !.cmd = [L.cmd EXCEPT ![i] = c]]
           M == UseParam(K, i, p)
<1>0. /\ L.cmd \in Seq(CommandType) /\ i \in Nat \ {0} /\ L.cmd[i] \in CommandType
      /\ L.vreg \in Seq(RegType) /\ DOMAIN L.vreg = 1 .. Len(L.vreg)
  BY ParamsTyped, LenProperties
<1>1. c \in CommandType /\ c.p[k] = p /\ \A h \in 1 .. 3 : h # k => c.p[h] = L.cmd[i].p[h]
  BY <1>0 DEF CommandType
<1>2. SetCmdParam(L, i, k, p) = M
  BY <1>0 DEF SetCmdParam, ListType, CommandType
<1> HIDE DEF c
<1>7. [L.cmd EXCEPT ![i] = c] \in Seq(CommandType)
  BY <1>0, <1>1, ExceptSeq
<1>3. K \in ListType /\ K.vreg = L.vreg /\ K.temp = L.temp /\ K.cmd[i] = c
  BY <1>0, <1>7 DEF ListType
<1>4. Known(K, p)
  BY <1>3 DEF Known
<1> HIDE DEF K
<1>5. M.cmd = K.cmd
  BY <1>0, <1>3, <1>4, ParamUsed
<1>6. ASSUME NEW v \in DOMAIN L.vreg, ~Names(p, RegKinds, v)
      PROVE  M.vreg[v] = L.vreg[v]
  <2>1. CASE p.kind \in RegKinds /\ p.vreg # 0
    <3>1. p.vreg # v
      BY <1>6, <2>1 DEF Names, RegKinds, TempKinds
    <3>2. M = [K EXCEPT !.vreg = [K.vreg EXCEPT ![p.vreg] = Used(K.vreg[p.vreg], i, i)]]
      BY <2>1 DEF UseParam, UseVirtualReg
    <3>3. M.vreg = [K.vreg EXCEPT ![p.vreg] = Used(K.vreg[p.vreg], i, i)]
      BY <1>3, <3>2 DEF ListType
    <3> QED BY <1>3, <3>1, <3>3
  <2>2. CASE ~(p.kind \in RegKinds /\ p.vreg # 0)
    <3>1. M = IF p.kind \in TempKinds THEN [K EXCEPT !.temp[p.p] = Used(@, i, i)] ELSE K
      BY <2>2 DEF UseParam
    <3>2. M.vreg = K.vreg
      BY <1>3, <3>1 DEF ListType
    <3> QED BY <1>3, <3>2
  <2> QED BY <2>1, <2>2
<1> QED BY <1>1, <1>2, <1>3, <1>5, <1>6

LEMMA OpenedRegs ==
    ASSUME NEW L, Open(L), NEW inst, NEW v \in DOMAIN L.vreg
    PROVE  OpenAt(L, inst).vreg[v] = IF L.next = Len(L.cmd) + 1 THEN L.vreg[v] ELSE Inserted(L.vreg[v], L.next)
  BY DEF OpenAt, Open, ListType, EachRange

(* A new command: the registers it does not name only move with the rest. *)
LEMMA AddedRegs ==
    ASSUME NEW L, Open(L), RangesCover(L), ListAssumption, NEW inst \in Insts,
           NEW p1 \in Operand, NEW p2 \in Operand, NEW p3 \in Operand,
           Known(L, p1), Known(L, p2), Known(L, p3)
    PROVE  LET M == AddCmd(L, Command(inst, p1, p2, p3)) IN
           /\ Len(M.cmd) = Len(L.cmd) + 1
           /\ M.cmd[L.next].p[1] = p1 /\ M.cmd[L.next].p[2] = p2 /\ M.cmd[L.next].p[3] = p3
           /\ \A v \in DOMAIN L.vreg :
                 ~Names(p1, RegKinds, v) /\ ~Names(p2, RegKinds, v) /\ ~Names(p3, RegKinds, v) =>
                    M.vreg[v] = IF L.next = Len(L.cmd) + 1 THEN L.vreg[v] ELSE Inserted(L.vreg[v], L.next)
<1> DEFINE A == OpenAt(L, inst)
           B == SetCmdParam(A, L.next, 1, p1)
           C == SetCmdParam(B, L.next, 2, p2)
           D == SetCmdParam(C, L.next, 3, p3)
           M == [D EXCEPT !.next = Len(D.cmd) + 1]
<1>0. AddCmd(L, Command(inst, p1, p2, p3)) = M
  BY DEF AddCmd, Command
<1>1. L.next \in 1 .. Len(L.cmd) + 1 /\ Len(L.cmd) \in Nat
  BY ParamsTyped DEF Open
<1>2. A \in ListType /\ RangesCover(A) /\ Alike(L, A) /\ Len(A.cmd) = Len(L.cmd) + 1
  BY Opened
<1>9. \A v \in DOMAIN L.vreg :
         A.vreg[v] = IF L.next = Len(L.cmd) + 1 THEN L.vreg[v] ELSE Inserted(L.vreg[v], L.next)
  BY OpenedRegs
<1> HIDE DEF A
<1>3. L.next \in DOMAIN A.cmd /\ Known(A, p1) /\ Known(A, p2) /\ Known(A, p3)
  BY <1>1, <1>2, ParamsTyped DEF Alike, Known
<1>4. B \in ListType /\ RangesCover(B) /\ Alike(A, B) /\ Len(B.cmd) = Len(A.cmd)
  BY <1>2, <1>3, ParamSet
<1>10. /\ B.cmd[L.next].p[1] = p1
       /\ \A v \in DOMAIN A.vreg : ~Names(p1, RegKinds, v) => B.vreg[v] = A.vreg[v]
  BY <1>2, <1>3, OthersUntouched
<1> HIDE DEF B
<1>5. L.next \in DOMAIN B.cmd /\ Known(B, p2) /\ Known(B, p3)
  BY <1>1, <1>2, <1>3, <1>4, ParamsTyped DEF Alike, Known
<1>6. C \in ListType /\ RangesCover(C) /\ Alike(B, C) /\ Len(C.cmd) = Len(B.cmd)
  BY <1>4, <1>5, ParamSet
<1>11. /\ C.cmd[L.next].p[1] = p1 /\ C.cmd[L.next].p[2] = p2
       /\ \A v \in DOMAIN B.vreg : ~Names(p2, RegKinds, v) => C.vreg[v] = B.vreg[v]
  BY <1>4, <1>5, <1>10, OthersUntouched, SMTT(40)
<1> HIDE DEF C
<1>7. L.next \in DOMAIN C.cmd /\ Known(C, p3)
  BY <1>1, <1>2, <1>4, <1>5, <1>6, ParamsTyped DEF Alike, Known
<1>8. D \in ListType /\ Len(D.cmd) = Len(C.cmd)
  BY <1>6, <1>7, ParamSet
<1>12. /\ D.cmd[L.next].p[1] = p1 /\ D.cmd[L.next].p[2] = p2 /\ D.cmd[L.next].p[3] = p3
       /\ \A v \in DOMAIN C.vreg : ~Names(p3, RegKinds, v) => D.vreg[v] = C.vreg[v]
  BY <1>6, <1>7, <1>11, OthersUntouched, SMTT(40)
<1> HIDE DEF D
<1>13. M.cmd = D.cmd /\ M.vreg = D.vreg
  BY <1>8 DEF ListType
<1> HIDE DEF M
<1>14. Len(M.cmd) = Len(L.cmd) + 1
  BY <1>2, <1>4, <1>6, <1>8, <1>13
<1>15. DOMAIN A.vreg = DOMAIN L.vreg /\ DOMAIN B.vreg = DOMAIN L.vreg /\ DOMAIN C.vreg = DOMAIN L.vreg
  BY <1>2, <1>4, <1>6 DEF Alike
<1> QED BY <1>0, <1>9, <1>10, <1>11, <1>12, <1>13, <1>14, <1>15

(* A removed command: a register loses its life, or moves with the rest. *)
LEMMA RemovedRegs ==
    ASSUME NEW L \in ListType, NEW i \in DOMAIN L.cmd, NEW v \in DOMAIN L.vreg
    PROVE  LET F == ForgetClobber(L, i) IN
           /\ RemoveCmd(L, i).vreg[v] = Erased(F.vreg[v], i)
           /\ F.vreg[v] \in RegType
           /\ F.vreg[v] = L.vreg[v] \/ F.vreg[v].first = 0
<1> DEFINE F == ForgetClobber(L, i)
<1>1. F \in ListType /\ DOMAIN F.vreg = DOMAIN L.vreg
  BY Forgotten
<1>2. F.vreg[v] = L.vreg[v] \/ F.vreg[v].first = 0
  <2>0. L.vreg \in Seq(RegType) /\ L.vreg[v] \in RegType
    BY ParamsTyped, ElementOfSeq
  <2>1. CASE L.cmd[i].inst # "CALL"
    BY <2>1 DEF ForgetClobber
  <2>2. CASE L.cmd[i].inst = "CALL"
    <3>1. F.vreg = [w \in DOMAIN L.vreg |->
              IF L.vreg[w].first = i /\ L.vreg[w].last = i
              THEN [L.vreg[w] EXCEPT !.first = 0, !.last = 0] ELSE L.vreg[w]]
      BY <2>2 DEF ForgetClobber, ListType
    <3>2. F.vreg[v] = IF L.vreg[v].first = i /\ L.vreg[v].last = i
                      THEN [L.vreg[v] EXCEPT !.first = 0, !.last = 0] ELSE L.vreg[v]
      BY <3>1
    <3> HIDE DEF F
    <3> QED BY <2>0, <3>2 DEF RegType
  <2> QED BY <2>1, <2>2
<1>3. F.vreg[v] \in RegType
  BY <1>1, ParamsTyped, ElementOfSeq
<1>4. RemoveCmd(L, i) = [F EXCEPT !.cmd = RemoveAt(F.cmd, i), !.temp = EachRange(F.temp, Erased, i),
                                  !.vreg = EachRange(F.vreg, Erased, i), !.next = i]
  BY <1>1 DEF RemoveCmd, ListType
<1> HIDE DEF F
<1>5. RemoveCmd(L, i).vreg[v] = EachRange(F.vreg, Erased, i)[v]
  BY <1>1, <1>4 DEF ListType
<1>6. EachRange(F.vreg, Erased, i)[v] = Erased(F.vreg[v], i)
  BY <1>1 DEF EachRange
<1> QED BY <1>2, <1>3, <1>5, <1>6 DEF F
-----------------------------------------------------------------------------
Inv == TypeOK /\ Covered

LEMMA OfferedKnown ==
    ASSUME ListAssumption, TypeOK, NEW p \in Offered
    PROVE  p \in Operand /\ Known(list, p)
<1>1. DOMAIN list.temp \subseteq Nat /\ DOMAIN list.vreg \subseteq Nat
  BY ParamsTyped, LenProperties DEF TypeOK
<1>2. CASE p = p_none
  BY <1>2 DEF p_none, Param, Operand, Known, TempKinds, RegKinds, ListAssumption
<1>3. CASE \E k \in Kinds \cap TempKinds, v \in DOMAIN list.temp : p = Param(k, v, 0, 4, 0)
  BY <1>1, <1>3 DEF Param, Operand, Known, TempKinds, RegKinds
<1>4. CASE \E k \in Kinds \cap RegKinds, v \in DOMAIN list.vreg : p = Param(k, 0, v, 4, 0)
  BY <1>1, <1>4 DEF Param, Operand, Known, TempKinds, RegKinds
<1> QED BY <1>2, <1>3, <1>4 DEF Offered

LEMMA InitInv == ASSUME Init, ListAssumption PROVE Inv
<1>1. list \in ListType /\ list.cmd = <<>> /\ list.next = 1
  BY DEF Init, EmptyList, ListType
<1> QED BY <1>1 DEF Inv, TypeOK, Covered, RangesCover

LEMMA StepInv == ASSUME Inv, [Next]_list, ListAssumption PROVE Inv'
<1> SUFFICES ASSUME Inv, ListAssumption, [Next]_list PROVE Open(list') /\ RangesCover(list')
  BY DEF Inv, TypeOK, Covered, Open
<1>0. Open(list) /\ RangesCover(list) /\ list \in ListType /\ TypeOK
  BY DEF Inv, TypeOK, Covered, Open
<1>1. ASSUME AddTempVar PROVE Open(list') /\ RangesCover(list')
  BY <1>0, <1>1, TempAdded DEF AddTempVar
<1>2. ASSUME NEW root \in Roots, AddReg(root) PROVE Open(list') /\ RangesCover(list')
  BY <1>0, <1>2, RegAdded DEF AddReg
<1>3. ASSUME NEW inst \in Insts, NEW p1 \in Offered, NEW p2 \in Offered, Add(inst, p1, p2) \/ Insert(inst, p1, p2)
      PROVE  Open(list') /\ RangesCover(list')
  <2> DEFINE M == AddCmd(list, Command(inst, p1, p2, p_none))
  <2>1. p_none \in Operand /\ Known(list, p_none)
    BY <1>0, OfferedKnown DEF Offered
  <2>2. p1 \in Operand /\ Known(list, p1) /\ p2 \in Operand /\ Known(list, p2)
    BY <1>0, OfferedKnown
  <2>3. Open(M) /\ RangesCover(M) /\ list.next + 1 <= Len(M.cmd) + 1
    BY <1>0, <2>1, <2>2, Added
  <2>4. CASE Add(inst, p1, p2)
    BY <2>3, <2>4 DEF Add
  <2>5. CASE Insert(inst, p1, p2)
    <3>1. list' = NextCmdTarget(M, list.next + 1)
      BY <2>5 DEF Insert, InsertCmd
    <3> HIDE DEF M
    <3>2. M \in ListType /\ list.next + 1 \in 1 .. Len(M.cmd) + 1
      BY <1>0, <2>3, ParamsTyped DEF Open
    <3> QED BY <2>3, <3>1, <3>2, Targeted
  <2> QED BY <1>3, <2>4, <2>5
<1>4. ASSUME NEW i \in 1 .. Len(list.cmd) + 1, Target(i) PROVE Open(list') /\ RangesCover(list')
  BY <1>0, <1>4, Targeted DEF Target
<1>5. ASSUME NEW i \in DOMAIN list.cmd, NEW k \in 1 .. 2, NEW p \in Offered, Replace(i, k, p)
      PROVE  Open(list') /\ RangesCover(list')
  <2> DEFINE M == SetCmdParam(list, i, k, p)
  <2>1. M \in ListType /\ RangesCover(M) /\ M.next = list.next /\ Len(M.cmd) = Len(list.cmd)
    BY <1>0, OfferedKnown, ParamSet
  <2> QED BY <1>0, <1>5, <2>1 DEF Replace, Open
<1>6. ASSUME NEW v \in DOMAIN list.vreg, NEW a \in DOMAIN list.cmd, NEW b \in DOMAIN list.cmd, Use(v, a, b)
      PROVE  Open(list') /\ RangesCover(list')
  <2> DEFINE u == Used(list.vreg[v], a, b)
  <2>1. list.vreg[v] \in RegType /\ a \in Nat \ {0} /\ b \in Nat
    BY <1>0, ParamsTyped, ElementOfSeq
  <2>2. u \in RegType /\ \A j \in Nat : Covers(list.vreg[v], j) => Covers(u, j)
    BY <2>1, RegUsed
  <2>3. \A i \in DOMAIN list.cmd : i \in Nat
    BY <1>0, ParamsTyped
  <2>4. list' = [list EXCEPT !.vreg = [list.vreg EXCEPT ![v] = u]]
    BY <1>6 DEF Use, UseVirtualReg
  <2> HIDE DEF u
  <2> QED BY <1>0, <2>2, <2>3, <2>4, RegChanged
<1>7. ASSUME NEW v \in DOMAIN list.vreg, NEW a \in DOMAIN list.cmd, NEW b \in DOMAIN list.cmd, Set(v, a, b)
      PROVE  Open(list') /\ RangesCover(list')
  <2> DEFINE u == [list.vreg[v] EXCEPT !.first = a, !.last = b]
  <2>1. list.vreg[v] \in RegType /\ a \in Nat \ {0} /\ b \in Nat /\ \A i \in DOMAIN list.cmd : i \in Nat \ {0}
    BY <1>0, ParamsTyped, ElementOfSeq
  <2>2. u \in RegType /\ u.first = a /\ u.last = b
    BY <2>1 DEF RegType
  <2>3. list' = [list EXCEPT !.vreg = [list.vreg EXCEPT ![v] = u]]
    BY <1>7 DEF Set, SetVirtualReg
  <2> HIDE DEF u
  <2>4. \A i \in DOMAIN list.cmd, k \in 1 .. 3 : Names(list.cmd[i].p[k], RegKinds, v) => Covers(u, i)
    BY <1>7, <2>1, <2>2 DEF Set, Covers
  <2> QED BY <1>0, <2>2, <2>3, <2>4, RegChanged
<1>8. ASSUME NEW i \in DOMAIN list.cmd, Erase(i) PROVE Open(list') /\ RangesCover(list')
  BY <1>0, <1>8, Removed DEF Erase
<1>9. ASSUME NEW v \in DOMAIN list.temp, RemoveTemp(v) PROVE Open(list') /\ RangesCover(list')
  BY <1>0, <1>9, TempRemoved DEF RemoveTemp
<1>10. ASSUME UNCHANGED list PROVE Open(list') /\ RangesCover(list')
  BY <1>0, <1>10
<1> QED BY <1>1, <1>2, <1>3, <1>4, <1>5, <1>6, <1>7, <1>8, <1>9, <1>10 DEF Next

(* The lives of two registers that do not meet, before and after a step. *)
Meet(L, M) ==
    \E v, w \in DOMAIN L.vreg :
       /\ Len(M.cmd) # Len(L.cmd)
       /\ v # w /\ Apart(L.vreg[v], L.vreg[w])
       /\ Len(M.cmd) > Len(L.cmd) => ~NamedAt(M, L.next, v) /\ ~NamedAt(M, L.next, w)
       /\ ~Apart(M.vreg[v], M.vreg[w])

LEMMA SameLength == ASSUME NEW L, NEW M, Len(M.cmd) = Len(L.cmd) PROVE ~Meet(L, M)
  BY DEF Meet

LEMMA StepApart == ASSUME Inv, [Next]_list, ListAssumption PROVE ~Meet(list, list')
<1>0. Open(list) /\ RangesCover(list) /\ list \in ListType /\ TypeOK
  BY DEF Inv, TypeOK, Covered, Open
<1>00. /\ list.next \in Nat \ {0} /\ Len(list.cmd) \in Nat
       /\ \A i \in DOMAIN list.cmd : i \in Nat \ {0}
       /\ \A v \in DOMAIN list.vreg : list.vreg[v] \in RegType
  BY <1>0, ParamsTyped, ElementOfSeq
<1>1. ASSUME AddTempVar PROVE ~Meet(list, list')
  <2>1. list'.cmd = list.cmd
    BY <1>0, <1>1 DEF AddTempVar, AddTemp, ListType
  <2> QED BY <2>1, SameLength
<1>2. ASSUME NEW root \in Roots, AddReg(root) PROVE ~Meet(list, list')
  <2>1. list'.cmd = list.cmd
    BY <1>0, <1>2 DEF AddReg, AddVirtualReg, ListType
  <2> QED BY <2>1, SameLength
<1>3. ASSUME NEW inst \in Insts, NEW p1 \in Offered, NEW p2 \in Offered, Add(inst, p1, p2) \/ Insert(inst, p1, p2)
      PROVE  ~Meet(list, list')
  <2> DEFINE M == AddCmd(list, Command(inst, p1, p2, p_none))
  <2>1. p_none \in Operand /\ Known(list, p_none)
    BY <1>0, OfferedKnown DEF Offered
  <2>2. p1 \in Operand /\ Known(list, p1) /\ p2 \in Operand /\ Known(list, p2)
    BY <1>0, OfferedKnown
  <2>3. /\ Len(M.cmd) = Len(list.cmd) + 1
        /\ M.cmd[list.next].p[1] = p1 /\ M.cmd[list.next].p[2] = p2 /\ M.cmd[list.next].p[3] = p_none
        /\ \A v \in DOMAIN list.vreg :
              ~Names(p1, RegKinds, v) /\ ~Names(p2, RegKinds, v) /\ ~Names(p_none, RegKinds, v) =>
                 M.vreg[v] = IF list.next = Len(list.cmd) + 1 THEN list.vreg[v] ELSE Inserted(list.vreg[v], list.next)
    BY <1>0, <2>1, <2>2, AddedRegs
  <2>4. M \in ListType
    BY <1>0, <2>1, <2>2, Added DEF Open
  <2> HIDE DEF M
  <2>5. list'.cmd = M.cmd /\ list'.vreg = M.vreg
    BY <1>3, <2>4 DEF Add, Insert, InsertCmd, NextCmdTarget, M, ListType
  <2>6. ASSUME NEW v \in DOMAIN list.vreg, ~NamedAt(list', list.next, v)
        PROVE  list'.vreg[v] = IF list.next = Len(list.cmd) + 1 THEN list.vreg[v] ELSE Inserted(list.vreg[v], list.next)
    <3>1. ~Names(p1, RegKinds, v) /\ ~Names(p2, RegKinds, v) /\ ~Names(p_none, RegKinds, v)
      BY <2>3, <2>5, <2>6 DEF NamedAt
    <3> QED BY <2>3, <2>5, <3>1
  <2>7. ASSUME NEW v \in DOMAIN list.vreg, NEW w \in DOMAIN list.vreg, Apart(list.vreg[v], list.vreg[w]),
               ~NamedAt(list', list.next, v), ~NamedAt(list', list.next, w)
        PROVE  Apart(list'.vreg[v], list'.vreg[w])
    BY <1>00, <2>6, <2>7, InsertedApart
  <2> QED BY <1>00, <2>3, <2>5, <2>7 DEF Meet
<1>4. ASSUME NEW i \in 1 .. Len(list.cmd) + 1, Target(i) PROVE ~Meet(list, list')
  <2>1. list'.cmd = list.cmd
    BY <1>0, <1>4 DEF Target, NextCmdTarget, ListType
  <2> QED BY <2>1, SameLength
<1>5. ASSUME NEW i \in DOMAIN list.cmd, NEW k \in 1 .. 2, NEW p \in Offered, Replace(i, k, p)
      PROVE  ~Meet(list, list')
  <2>1. Len(list'.cmd) = Len(list.cmd)
    BY <1>0, <1>5, OfferedKnown, ParamSet DEF Replace
  <2> QED BY <2>1, SameLength
<1>6. ASSUME NEW v \in DOMAIN list.vreg, NEW a \in DOMAIN list.cmd, NEW b \in DOMAIN list.cmd,
             Use(v, a, b) \/ Set(v, a, b)
      PROVE  ~Meet(list, list')
  <2>1. list'.cmd = list.cmd
    BY <1>0, <1>6 DEF Use, Set, UseVirtualReg, SetVirtualReg, ListType
  <2> QED BY <2>1, SameLength
<1>7. ASSUME NEW i \in DOMAIN list.cmd, Erase(i) PROVE ~Meet(list, list')
  <2>1. list' = RemoveCmd(list, i)
    BY <1>7 DEF Erase
  <2>2. ASSUME NEW v \in DOMAIN list.vreg, NEW w \in DOMAIN list.vreg, Apart(list.vreg[v], list.vreg[w])
        PROVE  Apart(list'.vreg[v], list'.vreg[w])
    <3> DEFINE F == ForgetClobber(list, i)
    <3>1. /\ list'.vreg[v] = Erased(F.vreg[v], i) /\ list'.vreg[w] = Erased(F.vreg[w], i)
          /\ F.vreg[v] \in RegType /\ F.vreg[w] \in RegType
          /\ F.vreg[v] = list.vreg[v] \/ F.vreg[v].first = 0
          /\ F.vreg[w] = list.vreg[w] \/ F.vreg[w].first = 0
      BY <1>0, <2>1, RemovedRegs
    <3> HIDE DEF F
    <3>2. Apart(F.vreg[v], F.vreg[w])
      BY <2>2, <3>1 DEF Apart
    <3> QED BY <1>00, <3>1, <3>2, ErasedApart
  <2>3. Len(list'.cmd) < Len(list.cmd)
    <3>1. Len(RemoveAt(list.cmd, i)) = Len(list.cmd) - 1
      BY <1>0, ParamsTyped, RemovedAt
    <3>2. ForgetClobber(list, i) \in ListType /\ ForgetClobber(list, i).cmd = list.cmd
      BY <1>0, Forgotten
    <3>3. list'.cmd = RemoveAt(list.cmd, i)
      BY <2>1, <3>2 DEF RemoveCmd, ListType
    <3> QED BY <1>00, <3>1, <3>3
  <2> QED BY <1>00, <2>2, <2>3 DEF Meet
<1>8. ASSUME NEW v \in DOMAIN list.temp, RemoveTemp(v) PROVE ~Meet(list, list')
  <2>1. Len(list'.cmd) = Len(list.cmd)
    <3> DEFINE cs == RemoveTempVar(list, v).cmd
    <3>1. list'.cmd = cs
      BY <1>8 DEF RemoveTemp
    <3>2. cs = [j \in DOMAIN list.cmd |-> cs[j]]
      <4> DEFINE new(q) == IF q.kind \in TempKinds /\ q.p > v THEN [q EXCEPT !.p = q.p - 1] ELSE q
                 ds == [j \in DOMAIN list.cmd |-> [list.cmd[j] EXCEPT !.p = [k \in 1 .. 3 |-> new(list.cmd[j].p[k])]]]
                 ts == RemoveAt(list.temp, v)
      <4>1. RemoveTempVar(list, v) = [list EXCEPT !.cmd = ds, !.temp = ts]
        BY DEF RemoveTempVar
      <4> HIDE DEF new, ts
      <4>2. ds = [j \in DOMAIN list.cmd |-> ds[j]]
        OBVIOUS
      <4> HIDE DEF ds
      <4>3. cs = ds
        BY <1>0, <4>1 DEF ListType
      <4> QED BY <4>2, <4>3
    <3>3. DOMAIN cs = 1 .. Len(list.cmd)
      BY <1>0, <3>2, ParamsTyped
    <3> QED BY <1>00, <3>1, <3>3
  <2> QED BY <2>1, SameLength
<1>9. ASSUME UNCHANGED list PROVE ~Meet(list, list')
  BY <1>9, SameLength
<1> QED BY <1>1, <1>2, <1>3, <1>4, <1>5, <1>6, <1>7, <1>8, <1>9 DEF Next

(* Every edit keeps the list well formed and no edit uncovers a use: whatever
   an operand names is live where it is named (CommandList::set_cmd_param,
   add_cmd, remove_cmd, remove_temp_var and the virtual registers). *)
THEOREM ListInvariant == Spec => []Inv
BY InitInv, StepInv, ListAssumption, PTL DEF Spec

THEOREM TypeCorrect == Spec => []TypeOK
BY ListInvariant, PTL DEF Inv

THEOREM UsesAreCovered == Spec => []Covered
BY ListInvariant, PTL DEF Inv

(* No insertion of a command that names neither of two registers and no removal
   makes their lives meet (CommandList::add_cmd, remove_cmd): a back end that
   looks for a free register finds as many after an edit as before. *)
THEOREM LivesStayApart == Spec => StaysApart
<1>1. Inv /\ [Next]_list => [~Meet(list, list')]_list
  BY StepApart, ListAssumption
<1>2. [~Meet(list, list')]_list =>
        [\A v, w \in DOMAIN list.vreg :
          /\ Len(list'.cmd) # Len(list.cmd)
          /\ v # w /\ Apart(list.vreg[v], list.vreg[w])
          /\ Len(list'.cmd) > Len(list.cmd) =>
                ~NamedAt(list', list.next, v) /\ ~NamedAt(list', list.next, w)
          => Apart(list'.vreg[v], list'.vreg[w])]_list
  BY DEF Meet
<1> QED BY <1>1, <1>2, ListInvariant, PTL DEF Spec, StaysApart
================================================================================
