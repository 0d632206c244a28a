------------------------ MODULE CommandListMachine -------------------------
(***************************************************************************)
(* A CommandList and everybody who edits it: any sequence of calls that    *)
(* keeps the callers' side of the bargain, which is to name only           *)
(* temporaries and registers that exist, to set the range of a register    *)
(* only around its uses and to remove only temporaries nobody names.       *)
(***************************************************************************)
EXTENDS CommandList

CONSTANTS
    Roots,          \* register roots
    Insts,          \* instructions; "CALL" is the one remove_cmd looks for
    Kinds,          \* operand kinds
    MaxCmds,        \* bound: commands in the list
    MaxOperands,    \* bound: operands a command is given
    MaxVars         \* bound: temporaries and virtual registers

ASSUME ListAssumption ==
    /\ MaxCmds \in Nat /\ MaxVars \in Nat
    /\ "None" \in Kinds

VARIABLE list

Operand == [kind : Kinds, p : Nat, vreg : Nat, type : Nat, shift : Nat]
CommandType == [inst : Insts, p : [1 .. 3 -> Operand]]
TempType == [type : Nat, first : Nat, last : Nat, stack : BOOLEAN]
RegType == [root : Roots, first : Nat, last : Nat]

ListType == [cmd : Seq(CommandType), temp : Seq(TempType), vreg : Seq(RegType), next : Nat \ {0}]

TypeOK == list \in ListType /\ list.next <= Len(list.cmd) + 1

(* Operands a caller may name: of the temporaries and registers there are. *)
Known(L, p) ==
    /\ p.kind \in TempKinds => p.p \in DOMAIN L.temp
    /\ p.kind \in RegKinds /\ p.vreg # 0 => p.vreg \in DOMAIN L.vreg

Offered ==
    {p_none}
    \cup {Param(k, v, 0, 4, 0) : k \in Kinds \cap TempKinds, v \in DOMAIN list.temp}
    \cup {Param(k, 0, v, 4, 0) : k \in Kinds \cap RegKinds, v \in DOMAIN list.vreg}

Names(p, kinds, v) == p.kind \in kinds /\ v = (IF kinds = TempKinds THEN p.p ELSE p.vreg)
-----------------------------------------------------------------------------
Init == list = EmptyList

AddTempVar ==
    /\ Len(list.temp) + Len(list.vreg) < MaxVars
    /\ list' = AddTemp(list, 4, FALSE)

AddReg(root) ==
    /\ Len(list.temp) + Len(list.vreg) < MaxVars
    /\ list' = AddVirtualReg(list, root)

(* add_cmd leaves the end of the list as the next target. *)
Add(inst, p1, p2) ==
    /\ Len(list.cmd) < MaxCmds
    /\ list' = AddCmd(list, Command(inst, p1, p2, p_none))

(* Backend::insert_cmd goes on behind the command it has inserted. *)
Insert(inst, p1, p2) ==
    /\ Len(list.cmd) < MaxCmds
    /\ list' = InsertCmd(list, Command(inst, p1, p2, p_none))

Target(i) == list' = NextCmdTarget(list, i)

Replace(i, k, p) == list' = SetCmdParam(list, i, k, p)

Use(v, a, b) == a <= b /\ list' = UseVirtualReg(list, v, a, b)

Set(v, a, b) ==
    /\ a <= b
    /\ \A i \in DOMAIN list.cmd, k \in 1 .. 3 :
          Names(list.cmd[i].p[k], RegKinds, v) => a <= i /\ i <= b
    /\ list' = SetVirtualReg(list, v, a, b)

Erase(i) == list' = RemoveCmd(list, i)

RemoveTemp(v) ==
    /\ \A i \in DOMAIN list.cmd, k \in 1 .. 3 : ~Names(list.cmd[i].p[k], TempKinds, v)
    /\ list' = RemoveTempVar(list, v)

Next ==
    \/ AddTempVar
    \/ \E root \in Roots : AddReg(root)
    \/ \E inst \in Insts, p1, p2 \in Offered :
          (MaxOperands < 2 => p2 = p_none) /\ (Add(inst, p1, p2) \/ Insert(inst, p1, p2))
    \/ \E i \in 1 .. Len(list.cmd) + 1 : Target(i)
    \/ \E i \in DOMAIN list.cmd, k \in 1 .. 2, p \in Offered : k <= MaxOperands /\ Replace(i, k, p)
    \/ \E v \in DOMAIN list.vreg, a, b \in DOMAIN list.cmd : Use(v, a, b) \/ Set(v, a, b)
    \/ \E i \in DOMAIN list.cmd : Erase(i)
    \/ \E v \in DOMAIN list.temp : RemoveTemp(v)

Spec == Init /\ [][Next]_list
-----------------------------------------------------------------------------
(* No range ends before the last or begins after the first command that names
   its temporary or register, whatever was inserted and removed around it: a
   scratch register taken from a gap would be overwritten. *)
Covered == RangesCover(list)

(* Two registers whose lives do not meet; a life that never began meets none. *)
Apart(r, s) == r.first = 0 \/ s.first = 0 \/ r.last < s.first \/ s.last < r.first

NamedAt(L, i, v) == \E k \in 1 .. 3 : Names(L.cmd[i].p[k], RegKinds, v)

(* Inserting a command that names neither, or removing one, never makes the
   lives of two registers meet: the search for a scratch register would
   report a conflict that the program does not have. *)
StaysApart ==
    [][\A v, w \in DOMAIN list.vreg :
          /\ Len(list'.cmd) # Len(list.cmd)
          /\ v # w /\ Apart(list.vreg[v], list.vreg[w])
          /\ Len(list'.cmd) > Len(list.cmd) =>
                ~NamedAt(list', list.next, v) /\ ~NamedAt(list', list.next, w)
          => Apart(list'.vreg[v], list'.vreg[w])]_list
=============================================================================
