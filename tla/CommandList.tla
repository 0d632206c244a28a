---------------------------- MODULE CommandList -----------------------------
(***************************************************************************)
(* kaba/compiler/CommandList: the list of serial commands of one function, *)
(* with the live ranges of its temporary variables and virtual registers.  *)
(* The serializer fills it, the back ends rebuild and edit it, and look    *)
(* for a scratch register in the ranges: what a range does not cover may   *)
(* be overwritten.                                                         *)
(*                                                                         *)
(* Positions count from 1 (the code counts from 0) and 0 is the code's -1, *)
(* a range never used.                                                     *)
(***************************************************************************)
EXTENDS Integers, SequencesExt

TempKinds == {"VarTemp", "DereferenceVarTemp"}
RegKinds == {"Register", "DereferenceRegister"}

(* An operand.  p: a temporary, a register root or whatever the kind names;
   vreg: the virtual register p stands for, 0 for none. *)
Param(kind, p, vreg, type, shift) ==
    [kind |-> kind, p |-> p, vreg |-> vreg, type |-> type, shift |-> shift]
p_none == Param("None", 0, 0, 0, 0)
Command(inst, p1, p2, p3) == [inst |-> inst, p |-> <<p1, p2, p3>>]

EmptyList == [cmd |-> <<>>, temp |-> <<>>, vreg |-> <<>>, next |-> 1]

(* Mutant: a range that starts or ends at the inserted command stays. *)
Inserted_AtStays(r, i) ==
    [r EXCEPT !.first = IF @ > i THEN @ + 1 ELSE @, !.last = IF @ > i THEN @ + 1 ELSE @]

(* What the insertion of a command at i does to a live range. *)
Inserted(r, i) ==
    [r EXCEPT !.first = IF @ >= i THEN @ + 1 ELSE @, !.last = IF @ >= i THEN @ + 1 ELSE @]

(* Mutant: both ends are compared alike. *)
Erased_Alike(r, i) ==
    [r EXCEPT !.first = IF @ >= i THEN @ - 1 ELSE @, !.last = IF @ >= i THEN @ - 1 ELSE @]

(* What the removal of command i does to a live range. *)
Erased(r, i) ==
    [r EXCEPT !.first = IF @ > i THEN @ - 1 ELSE @, !.last = IF @ >= i THEN @ - 1 ELSE @]

(* TempVar::use, use_virtual_reg *)
Used(r, a, b) ==
    [r EXCEPT !.first = IF @ = 0 \/ @ > a THEN a ELSE @, !.last = IF @ = 0 \/ @ < b THEN b ELSE @]

EachRange(ranges, Op(_, _), i) == [v \in DOMAIN ranges |-> Op(ranges[v], i)]
-----------------------------------------------------------------------------
(* stack: TempVar::force_stack *)
AddTemp(L, type, stack) ==
    [L EXCEPT !.temp = Append(@, [type |-> type, first |-> 0, last |-> 0, stack |-> stack])]

AddVirtualReg(L, root) ==
    [L EXCEPT !.vreg = Append(@, [root |-> root, first |-> 0, last |-> 0])]

SetVirtualReg(L, v, a, b) == [L EXCEPT !.vreg[v] = [@ EXCEPT !.first = a, !.last = b]]

UseVirtualReg(L, v, a, b) == [L EXCEPT !.vreg[v] = Used(@, a, b)]

UseParam(L, i, p) ==
    IF p.kind \in RegKinds /\ p.vreg # 0 THEN UseVirtualReg(L, p.vreg, i, i)
    ELSE IF p.kind \in TempKinds THEN [L EXCEPT !.temp[p.p] = Used(@, i, i)]
    ELSE L

SetCmdParam(L, i, k, p) == UseParam([L EXCEPT !.cmd[i].p[k] = p], i, p)

NextCmdTarget(L, i) == [L EXCEPT !.next = i]

(* Room for a command at next: the ranges are moved only when it is not the
   end of the list. *)
OpenAt(L, inst) ==
    LET blank == Command(inst, p_none, p_none, p_none) IN
    IF L.next = Len(L.cmd) + 1
    THEN [L EXCEPT !.cmd = Append(@, blank)]
    ELSE [L EXCEPT !.cmd = InsertAt(@, L.next, blank),
                   !.temp = EachRange(@, Inserted, L.next),
                   !.vreg = EachRange(@, Inserted, L.next)]

AddCmd(L, c) ==
    LET A == OpenAt(L, c.inst)
        B == SetCmdParam(A, L.next, 1, c.p[1])
        C == SetCmdParam(B, L.next, 2, c.p[2])
        D == SetCmdParam(C, L.next, 3, c.p[3])
    IN  [D EXCEPT !.next = Len(D.cmd) + 1]

(* Backend::insert_cmd *)
InsertCmd(L, c) == NextCmdTarget(AddCmd(L, c), L.next + 1)

(* A register that only a removed call has clobbered is free again. *)
ForgetClobber(L, i) ==
    IF L.cmd[i].inst = "CALL"
    THEN [L EXCEPT !.vreg = [v \in DOMAIN @ |->
            IF @[v].first = i /\ @[v].last = i THEN [@[v] EXCEPT !.first = 0, !.last = 0] ELSE @[v]]]
    ELSE L

(* Mutant: the next command still goes where the list was being written. *)
RemoveCmd_KeepsTarget(L, i) ==
    LET F == ForgetClobber(L, i) IN
    [F EXCEPT !.cmd = RemoveAt(@, i),
              !.temp = EachRange(@, Erased, i),
              !.vreg = EachRange(@, Erased, i)]

RemoveCmd(L, i) ==
    LET F == ForgetClobber(L, i) IN
    [F EXCEPT !.cmd = RemoveAt(@, i),
              !.temp = EachRange(@, Erased, i),
              !.vreg = EachRange(@, Erased, i),
              !.next = i]

(* Mutant: the temporaries behind the removed one keep their numbers. *)
RemoveTempVar_Unnumbered(L, v) == [L EXCEPT !.temp = RemoveAt(@, v)]

RemoveTempVar(L, v) ==
    LET Renumber(p) == IF p.kind \in TempKinds /\ p.p > v THEN [p EXCEPT !.p = @ - 1] ELSE p IN
    [L EXCEPT !.cmd = [i \in DOMAIN L.cmd |-> [L.cmd[i] EXCEPT !.p = [k \in 1 .. 3 |-> Renumber(L.cmd[i].p[k])]]],
              !.temp = RemoveAt(@, v)]
-----------------------------------------------------------------------------
(* The live range of what an operand names contains the position at which it
   is named: between two uses nobody may take its place. *)
Covers(r, i) == r.first \in 1 .. i /\ i <= r.last

InRange(L, p, i) ==
    /\ p.kind \in TempKinds => p.p \in DOMAIN L.temp /\ Covers(L.temp[p.p], i)
    /\ p.kind \in RegKinds /\ p.vreg # 0 => p.vreg \in DOMAIN L.vreg /\ Covers(L.vreg[p.vreg], i)

RangesCover(L) ==
    \A i \in DOMAIN L.cmd, k \in 1 .. 3 : InRange(L, L.cmd[i].p[k], i)
=============================================================================
