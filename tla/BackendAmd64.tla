---------------------------- MODULE BackendAmd64 ----------------------------
(***************************************************************************)
(* kaba/compiler/BackendAmd64 and the BackendX86 it derives from, for the  *)
(* System V calling convention: the serial commands of a function, over    *)
(* variables and temporaries of any size, become instructions that the     *)
(* processor has, over registers and the stack.  Virtual registers are not *)
(* allocated afterwards: each is one of A, C, D (or a parameter register)  *)
(* from the start, and the live ranges of CommandList tell which of them   *)
(* is free where a later pass needs a scratch register.                    *)
(*                                                                         *)
(* Labels, jumps and inline assembly pass through untouched, and are left  *)
(* out; a function is a straight line.                                     *)
(***************************************************************************)
EXTENDS CommandList

CONSTANTS
    Functions,      \* the functions to compile
    FarFrom         \* constants from this address on are out of reach of a
                    \* 32-bit distance from the code

ASSUME FarAssumption == FarFrom \in Nat

VARIABLES
    fn,             \* the function: [intro, var_size, temps, ret, code]
    pre_cmd,        \* Backend::pre_cmd, what the serializer has left
    list,           \* Backend::cmd
    phase, at,      \* the pass, and the command it has reached
    func_params,    \* operands pushed for the next call
    stack_offset,   \* bytes of the frame in use
    max_push_size   \* bytes of parameters pushed by any call

SizeOf == [void |-> 0, bool |-> 1, i8 |-> 1, u8 |-> 1, reg8 |-> 1, i32 |-> 4, f32 |-> 4, reg32 |-> 4,
           i64 |-> 8, f64 |-> 8, ref |-> 8, code_ref |-> 8, reg64 |-> 8, vec2 |-> 8, vec3 |-> 12, reg128 |-> 16,
           vec4 |-> 16, struct |-> 12]
IntTypes == {"bool", "i8", "u8", "i32", "i64", "ref"}
FloatReturns == {"f32", "f64", "vec2", "vec3", "vec4"}
ByMemory(type) == type = "struct"

map_reg_root == <<"A", "C", "D">>
param_regs_root == <<"DI", "SI", "D", "C", "R8", "R9">>
ParamXmm == <<"X0", "X1", "X2", "X3", "X4", "X5", "X6", "X7">>
ByteRoots == {"A", "C", "D"}

NoParam == [p_none EXCEPT !.type = "void"]      \* get_type_save
VReg(root, v, type) == Param("Register", root, v, type, 0)
DerefVReg(root, v, type) == Param("DereferenceRegister", root, v, type, 0)
PReg(root, type) == Param("Register", root, 0, type, 0)
Imm(type, x) == Param("Immediate", x, 0, type, 0)
LocalMemory(type, offset) == Param("LocalMemory", offset, 0, type, 0)
Xmm0 == PReg("X0", "reg128")
Xmm1 == PReg("X1", "reg128")
ParamShift(p, shift, type) == [p EXCEPT !.shift = @ + shift, !.type = type]
Cmd1(inst, p1) == Command(inst, p1, NoParam, NoParam)
Cmd2(inst, p1, p2) == Command(inst, p1, p2, NoParam)
Align(n, size) == ((n + size - 1) \div size) * size
-----------------------------------------------------------------------------
(* Mutant: a register whose last use is here counts as free. *)
RootUsed_Exclusive(L, root, first, last) ==
    \E v \in DOMAIN L.vreg : L.vreg[v].root = root /\ L.vreg[v].first <= last /\ L.vreg[v].last > first

RootUsed(L, root, first, last) ==
    \E v \in DOMAIN L.vreg : L.vreg[v].root = root /\ L.vreg[v].first <= last /\ L.vreg[v].last >= first

(* Backend::find_unused_reg, "none" for its error. *)
FreeRoot(L, i, exclude) ==
    LET free == SelectSeq(map_reg_root, LAMBDA r : r # exclude /\ ~RootUsed(L, r, i, i))
    IN  IF free = <<>> THEN "none" ELSE Head(free)

Scratch(L, i, exclude) == AddVirtualReg(L, FreeRoot(L, i, exclude))
Regs(L, roots) == FoldLeft(AddVirtualReg, L, roots)
NoRegister(L) == \E v \in DOMAIN L.vreg : L.vreg[v].root = "none"

Emit(L, cmds) == FoldLeft(InsertCmd, L, cmds)
End(L) == Len(L.cmd) + 1

(* The 8, 4 and 1 byte pieces of a move: [shift, type]. *)
Pieces(size) ==
    [j \in 1 .. size \div 8 |-> [shift |-> 8 * (j - 1), type |-> "i64"]]
        \o (IF size % 8 >= 4 THEN <<[shift |-> 8 * (size \div 8), type |-> "i32"]>> ELSE <<>>)
        \o [j \in 1 .. size % 4 |-> [shift |-> 4 * (size \div 4) + j - 1, type |-> "i8"]]

MovChunk(p1, p2, size) ==
    [j \in DOMAIN Pieces(size) |->
        LET x == Pieces(size)[j] IN Cmd2("MOV", ParamShift(p1, x.shift, x.type), ParamShift(p2, x.shift, x.type))]

(* MOVSX and MOVZX: i32 to i64, a byte to i32, or the lower part of an integer. *)
Convert(L, inst, p1, p2) ==
    LET S == Scratch(L, End(L), "none")
        v == Len(S.vreg)
        Reg(type) == VReg(S.vreg[v].root, v, type)
    IN  Emit(S,
          IF p1.type = "i64" /\ p2.type = "i32"
          THEN <<Cmd2("MOV", Reg("i32"), p2), Cmd2("MOVSXD", Reg("i64"), Reg("i32")), Cmd2("MOV", p1, Reg("i64"))>>
          ELSE IF p1.type = "i32" /\ SizeOf[p2.type] = 1
          THEN <<Cmd2(inst, Reg("i32"), p2), Cmd2("MOV", p1, Reg("i32"))>>
                    \o (IF p2.type = "u8" THEN <<Cmd2("AND", p1, Imm("i32", 255))>> ELSE <<>>)
          ELSE <<Cmd2("MOV", Reg(p2.type), p2), Cmd2("MOV", p1, Reg(p1.type))>>)

(* insert_lea *)
Lea(L, p1, p2) ==
    LET S == Regs(L, <<"A">>)
        reg == VReg("A", Len(S.vreg), "reg64")
    IN  Emit(S, <<Cmd2("LEA", reg, p2), Cmd2("MOV", p1, reg)>>)

(* MODULO and IDIV: the processor divides D:A. *)
Divide(L, r, p1, p2, result) ==
    LET S == Regs(L, <<"A", "D">>)
        type == IF p1.type = "i32" THEN "i32" ELSE "i64"
        veax == VReg("A", Len(S.vreg) - 1, type)
        vedx == VReg("D", Len(S.vreg), type)
    IN  Emit(S, <<Cmd2("MOV", veax, p1), Cmd2("MOV", vedx, veax),
                  Cmd2("SAR", vedx, Imm("i8", IF type = "i32" THEN 31 ELSE 63)),
                  Cmd2("IDIV", veax, p2), Cmd2("MOV", r, IF result = "D" THEN vedx ELSE veax)>>)

ShiftBits(L, inst, r, p1, p2) ==
    LET S == Regs(L, <<"C">>)
        v == Len(S.vreg)
    IN  Emit(S, <<Cmd2("MOV", VReg("C", v, p1.type), p2), Cmd2("MOV", r, p1), Cmd2(inst, r, VReg("C", v, "i8"))>>)

Arithmetic == {"IMUL", "ADD", "SUB", "AND", "OR", "XOR"}

Combine(L, inst, r, p1, p2) ==
    LET S == Scratch(L, End(L), "none")
        t == VReg(S.vreg[Len(S.vreg)].root, Len(S.vreg), p1.type)
    IN  IF p2.kind # "None"
        THEN Emit(S, <<Cmd2("MOV", t, p1), Cmd2(inst, t, p2), Cmd2("MOV", r, t)>>)
        ELSE IF p1.kind = "Immediate" /\ p1.p = 1 /\ inst \in {"ADD", "SUB"}
        THEN Emit(L, <<Cmd1(IF inst = "ADD" THEN "INC" ELSE "DEC", r)>>)
        ELSE Emit(L, <<Cmd2(inst, r, p1)>>)

FloatMov(type) == IF type = "f64" THEN "MOVSD" ELSE "MOVSS"
FloatInst == [FADD |-> <<"ADDSS", "ADDSD">>, FSUB |-> <<"SUBSS", "SUBSD">>,
              FMUL |-> <<"MULSS", "MULSD">>, FDIV |-> <<"DIVSS", "DIVSD">>]

FloatCombine(L, inst, p1, p2, p3) ==
    LET mov == FloatMov(p1.type)
        operands == IF p3.kind = "None" THEN <<p1, p2>> ELSE <<p2, p3>>
    IN  Emit(L, <<Cmd2(mov, Xmm0, operands[1]),
                  Cmd2(FloatInst[inst][IF p1.type = "f64" THEN 2 ELSE 1], Xmm0, operands[2]),
                  Cmd2(mov, p1, Xmm0)>>)

(* How a value of a float type is spread over X0 and X1. *)
Part(inst, shift, type, xmm) == [inst |-> inst, shift |-> shift, type |-> type, xmm |-> xmm]
FloatParts ==
    [f32 |-> <<Part("MOVSS", 0, "f32", Xmm0)>>,
     f64 |-> <<Part("MOVSD", 0, "f64", Xmm0)>>,
     vec2 |-> <<Part("MOVLPS", 0, "vec2", Xmm0)>>,
     vec3 |-> <<Part("MOVLPS", 0, "reg64", Xmm0), Part("MOVSS", 8, "f32", Xmm1)>>,
     vec4 |-> <<Part("MOVLPS", 0, "reg64", Xmm0), Part("MOVLPS", 8, "reg64", Xmm1)>>]

(* implement_return *)
Return(L, p) ==
    LET parts == FloatParts[fn.ret]
        S == Regs(L, <<"A">>)
        leave == <<Command("LEAVE", NoParam, NoParam, NoParam), Command("RET", NoParam, NoParam, NoParam)>>
    IN  IF p.kind = "None" THEN Emit(L, leave)
        ELSE IF fn.ret \in FloatReturns
        THEN Emit(L, [j \in DOMAIN parts |->
                        Cmd2(parts[j].inst, parts[j].xmm, ParamShift(p, parts[j].shift, parts[j].type))] \o leave)
        ELSE Emit(S, <<Cmd2("MOV", VReg("A", Len(S.vreg), fn.ret), p)>> \o leave)

(* One serial command that is not part of a call. *)
Implemented(L, c) ==
    LET p1 == c.p[1]
        p2 == c.p[2]
        p3 == c.p[3]
    IN  CASE c.inst = "MOV" -> Emit(L, MovChunk(p1, p2, SizeOf[p1.type]))
          [] c.inst \in {"MOVSX", "MOVZX"} -> Convert(L, c.inst, p1, p2)
          [] c.inst = "LEA" -> Lea(L, p1, p2)
          [] c.inst = "MODULO" -> Divide(L, p1, p2, p3, "D")
          [] c.inst = "IDIV" ->
                IF p3.kind = "None" THEN Divide(L, p1, p1, p2, "A") ELSE Divide(L, p1, p2, p3, "A")
          [] c.inst \in {"SHL", "SHR"} -> ShiftBits(L, c.inst, p1, p2, p3)
          [] c.inst \in Arithmetic -> Combine(L, c.inst, p1, p2, p3)
          [] c.inst \in DOMAIN FloatInst -> FloatCombine(L, c.inst, p1, p2, p3)
          [] c.inst = "FCMP" ->
                Emit(L, <<Cmd2(FloatMov(p1.type), Xmm0, p1),
                          Cmd2(IF p1.type = "f64" THEN "UCOMISD" ELSE "UCOMISS", Xmm0, p2)>>)
          [] c.inst = "CVTSI2SS" -> Emit(L, <<Cmd2("CVTSI2SS", Xmm0, p2), Cmd2("MOVSS", p1, Xmm0)>>)
          [] c.inst = "CVTTSS2SI" ->
                LET S == Regs(L, <<"A">>)
                    reg == VReg("A", Len(S.vreg), "i32")
                IN  Emit(S, <<Cmd2("MOVSS", Xmm0, p2), Cmd2("CVTTSS2SI", reg, Xmm0), Cmd2("MOV", p1, reg)>>)
          [] c.inst = "CVTSS2SD" -> Emit(Regs(L, <<"X0">>), <<Cmd2("CVTSS2SD", Xmm0, p2), Cmd2("MOVSD", p1, Xmm0)>>)
          [] c.inst = "CVTSD2SS" -> Emit(Regs(L, <<"X0">>), <<Cmd2("CVTSD2SS", Xmm0, p2), Cmd2("MOVSS", p1, Xmm0)>>)
          [] c.inst = "RET" -> Return(L, p1)
          [] OTHER -> Emit(L, <<c>>)          \* CMP, SETZ, ...
-----------------------------------------------------------------------------
(* Which parameters go into registers and which on the stack, for the caller
   and for the called function. *)
MapParam(m, p) ==
    IF p.type \in IntTypes
    THEN IF Len(m.reg) < Len(param_regs_root) THEN [m EXCEPT !.reg = Append(@, p)] ELSE [m EXCEPT !.stack = Append(@, p)]
    ELSE IF Len(m.xmm) < Len(ParamXmm) THEN [m EXCEPT !.xmm = Append(@, p)] ELSE [m EXCEPT !.stack = Append(@, p)]

MapParams(params) == FoldLeft(MapParam, [reg |-> <<>>, xmm |-> <<>>, stack |-> <<>>], params)

(* Not every register has a name for its lowest byte. *)
ByteRegister(p, root) == SizeOf[p.type] # 1 \/ root \in ByteRoots

(* A parameter register is in use from the beginning of the function. *)
IntroParam(L, p, root) ==
    LET v == Len(L.vreg) + 1
    IN  IF ByteRegister(p, root)
        THEN LET E == Emit(Regs(L, <<root>>), <<Cmd2("MOV", LocalMemory(p.type, p.offset), VReg(root, v, p.type))>>)
             IN  SetVirtualReg(E, v, 1, E.next - 1)
        ELSE LET E == Emit(Regs(L, <<root, "A">>),
                           <<Cmd2("MOV", VReg("A", v + 1, "reg32"), VReg(root, v, "reg32")),
                             Cmd2("MOV", LocalMemory(p.type, p.offset), VReg("A", v + 1, p.type))>>)
             IN  SetVirtualReg(SetVirtualReg(E, v, 1, E.next - 2), v + 1, E.next - 2, E.next - 1)

(* add_function_intro_params *)
Intro(L, params) ==
    LET m == MapParams(params)
        X == Emit(L, [j \in DOMAIN m.xmm |->
                        Cmd2(FloatMov(m.xmm[j].type), LocalMemory(m.xmm[j].type, m.xmm[j].offset), PReg(ParamXmm[j], "reg128"))])
        R == FoldLeft(LAMBDA K, j : IntroParam(K, m.reg[j], param_regs_root[j]), X, [j \in DOMAIN m.reg |-> j])
    IN  Emit(R, [j \in DOMAIN m.stack |->
                    Cmd2("MOV", LocalMemory(m.stack[j].type, m.stack[j].offset), LocalMemory(m.stack[j].type, 16 + (j - 1) * 8))])
-----------------------------------------------------------------------------
(* insert_reference: [list, param] *)
Referenced(L, p) ==
    CASE p.kind = "ConstantByAddress" -> [list |-> L, param |-> Imm("ref", p.p + p.shift)]
      [] p.kind \in {"Immediate", "Memory"} -> [list |-> L, param |-> Imm("ref", p.p)]
      [] p.kind = "DereferenceVarTemp" -> [list |-> L, param |-> [p EXCEPT !.kind = "VarTemp"]]
      [] p.kind \in {"LocalMemory", "VarTemp"} ->
            LET T == AddTemp(L, "ref", FALSE)
                t == Param("VarTemp", Len(T.temp), 0, "ref", 0)
            IN  [list |-> Lea(T, t, p), param |-> t]

(* Every parameter on the stack takes 8 bytes. *)
StackBytes(params) == 8 * Len(params)

(* The stack pointer is low enough already: it goes up before the pushes. *)
PushStackParams(L, params) ==
    IF params = <<>> THEN L
    ELSE FoldLeft(LAMBDA K, p : Emit(K, <<Cmd2("MOV", PReg("A", p.type), p), Cmd1("PUSH", PReg("A", "reg64"))>>),
                  Emit(L, <<Cmd2("ADD", PReg("SP", "ref"), Imm("i8", StackBytes(params)))>>),
                  Reverse(params))

LoadParam(L, p, root) ==
    LET v == Len(L.vreg) + 1
    IN  IF ByteRegister(p, root)
        THEN Emit(Regs(L, <<root>>), <<Cmd2("MOV", VReg(root, v, p.type), p)>>)
        ELSE Emit(Regs(L, <<root, "A">>),
                  <<Cmd2("MOV", VReg("A", v + 1, p.type), p), Cmd2("MOV", VReg(root, v, "reg32"), VReg("A", v + 1, "reg32"))>>)

(* The virtual registers that hold parameters: all those made while loading
   them that stand for a parameter register. *)
ParamVirts(before, after) == {v \in Len(before.vreg) + 1 .. Len(after.vreg) : after.vreg[v].root # "A"}

(* extend_reg_usage_to_call, mark_regs_busy_at_call: the call is the command
   before the end. *)
Clobbered(L, virts) ==
    LET used == FoldSet(LAMBDA v, K : UseVirtualReg(K, v, L.next - 1, L.next - 1), L, virts)
    IN  FoldLeft(LAMBDA K, j : UseVirtualReg(K, Len(L.vreg) + j, L.next - 1, L.next - 1),
                 Regs(used, map_reg_root), [j \in DOMAIN map_reg_root |-> j])

(* function_call_post *)
Result(L, ret) ==
    LET parts == FloatParts[ret.type]
        S == Regs(L, <<"A">>)
        E == Emit(S, <<Cmd2("MOV", ret, VReg("A", Len(S.vreg), ret.type))>>)
    IN  IF ret.kind = "None" \/ ByMemory(ret.type) THEN L
        ELSE IF ret.type \in FloatReturns
        THEN Emit(L, [j \in DOMAIN parts |->
                        Cmd2(parts[j].inst, ParamShift(ret, parts[j].shift, parts[j].type), parts[j].xmm)])
        ELSE SetVirtualReg(E, Len(S.vreg), E.next - 2, E.next - 1)

(* add_function_call and add_pointer_call.  callee: a Function operand, its
   type "far" if the distance needs a register, or a pointer. *)
CallBy(callee) ==
    IF callee.kind = "Function" /\ callee.type # "far" THEN <<Cmd1("CALL", callee)>>
    ELSE <<Cmd2("MOV", PReg("A", "reg64"), [callee EXCEPT !.type = "reg64"]), Cmd1("CALL", PReg("A", "reg64"))>>

LoadParams(L, ps) == FoldLeft(LAMBDA K, j : LoadParam(K, ps[j], param_regs_root[j]), L, [j \in DOMAIN ps |-> j])
LoadFloats(L, ps) == Emit(L, [j \in DOMAIN ps |-> Cmd2(FloatMov(ps[j].type), PReg(ParamXmm[j], "reg128"), ps[j])])

CallLoaded(before, L, callee) == Clobbered(Emit(L, CallBy(callee)), ParamVirts(before, L))
LoadAndCall(L, ps, callee) == CallLoaded(L, LoadParams(L, ps), callee)

(* m: where the parameters go. *)
Called(L, ret, callee, m) ==
    Result(LoadAndCall(LoadFloats(PushStackParams(L, m.stack), m.xmm), m.reg, callee), ret)
-----------------------------------------------------------------------------
(* try_map_param_to_stack, for all operands *)
MapOperand(p, v, offset) ==
    IF p.kind \in TempKinds /\ p.p = v
    THEN [p EXCEPT !.kind = IF @ = "VarTemp" THEN "LocalMemory" ELSE "DereferenceLocalMemory", !.p = offset]
    ELSE p

MapTemp(L, v, offset) ==
    [L EXCEPT !.cmd = [i \in DOMAIN @ |->
        [@[i] EXCEPT !.p = [k \in 1 .. 3 |-> MapOperand(L.cmd[i].p[k], v, offset)]]]]

(* add_stack_var: where the frame ends with one more variable in it. *)
StackVar(offset, type) == offset + Align(SizeOf[type], 4)

(* A temporary whose address is taken. *)
IsReferenced(L, v) ==
    \E i \in DOMAIN L.cmd : L.cmd[i].inst = "LEA" /\ L.cmd[i].p[2].kind = "VarTemp" /\ L.cmd[i].p[2].p = v

DerefKinds == {"DereferenceLocalMemory", "DereferenceVarTemp"}
Pointer(p) == LocalMemory("ref", p.p)

PointerMoves(reg, p) ==
    <<Cmd2("MOV", reg, Pointer(p))>> \o (IF p.shift > 0 THEN <<Cmd2("ADD", reg, Imm("i32", p.shift))>> ELSE <<>>)

(* Mutant: the addition of the displacement is not counted. *)
SolveDeref_ShortRange(L, i, k) ==
    LET p == L.cmd[i].p[k]
        S == Scratch(L, i, "none")
        v == Len(S.vreg)
        D == NextCmdTarget(SetCmdParam(S, i, k, DerefVReg(S.vreg[v].root, v, p.type)), i)
    IN  SetVirtualReg(Emit(D, PointerMoves(VReg(S.vreg[v].root, v, "ref"), p)), v, i, i + 1)

(* solve_deref_temp_local: the range is closed at the command itself. *)
SolveDeref(L, i, k) ==
    LET p == L.cmd[i].p[k]
        S == Scratch(L, i, "none")
        v == Len(S.vreg)
        D == NextCmdTarget(SetCmdParam(S, i, k, DerefVReg(S.vreg[v].root, v, p.type)), i)
    IN  SetVirtualReg(Emit(D, PointerMoves(VReg(S.vreg[v].root, v, "ref"), p)), v, i, IF p.shift > 0 THEN i + 2 ELSE i + 1)

(* Both operands behind pointers: two scratch registers. *)
SolveBoth(L, i) ==
    LET p1 == L.cmd[i].p[1]
        p2 == L.cmd[i].p[2]
        One == Scratch(L, i, "none")
        v == Len(One.vreg)
        S == Scratch(One, i, One.vreg[v].root)
        reg == VReg(S.vreg[v].root, v, p1.type)
        reg2 == VReg(S.vreg[v + 1].root, v + 1, "ref")
        deref2 == DerefVReg(S.vreg[v + 1].root, v + 1, p1.type)
        D == NextCmdTarget(SetCmdParam(SetCmdParam(S, i, 1, deref2), i, 2, reg), i)
        A == Emit(D, PointerMoves(reg2, p2))
        B == Emit(A, <<Cmd2("MOV", reg, deref2)>> \o PointerMoves(reg2, p1))
    IN  SetVirtualReg(SetVirtualReg(B, v, A.next, B.next), v + 1, i, B.next)

(* resolve_deref_temp_and_local, for one command.  What it inserts has
   nothing to resolve. *)
Resolved(L, i) ==
    LET p == L.cmd[i].p
    IN  IF p[1].kind \in DerefKinds /\ p[2].kind \in DerefKinds THEN SolveBoth(L, i)
        ELSE IF p[1].kind \in DerefKinds THEN SolveDeref(L, i, 1)
        ELSE IF p[2].kind \in DerefKinds THEN SolveDeref(L, i, 2)
        ELSE L
-----------------------------------------------------------------------------
(* instruction_names[]: no immediate operand, first operand written.  No
   instruction used here writes its second. *)
FloatInsts == {"MOVSS", "MOVSD", "MOVLPS", "ADDSS", "ADDSD", "SUBSS", "SUBSD", "MULSS", "MULSD", "DIVSS", "DIVSD",
               "CVTSS2SD", "CVTSD2SS", "CVTTSS2SI", "CVTSI2SS", "UCOMISS", "UCOMISD"}
AllowsConst(inst) == inst \notin FloatInsts \cup {"IDIV", "LEA"}
WritesFirst(inst) == inst \notin {"CMP", "CALL", "PUSH", "UCOMISS", "UCOMISD", "RET", "LEAVE"}

(* Mutant: a constant counts as simple. *)
IsSimple_Constant(p) == p.kind \in {"Register", "VarTemp", "None", "ConstantByAddress"}

IsSimple(p) == p.kind \in {"Register", "VarTemp", "None"}

(* param_combi_allowed *)
CombiAllowed(inst, p1, p2) ==
    /\ IsSimple(p1) \/ IsSimple(p2)
    /\ ~(WritesFirst(inst) /\ p1.kind = "Immediate")
    /\ p1.kind = "Immediate" \/ p2.kind = "Immediate" => AllowsConst(inst)

(* correct_params_indirect_in, for one command *)
Indirect(L, i) ==
    LET c == L.cmd[i]
        k == IF c.p[2].kind = "None" \/ c.p[1].kind \in {"ConstantByAddress", "Immediate"} THEN 1 ELSE 2
        S == Scratch(L, i, "none")
        v == Len(S.vreg)
        reg == VReg(S.vreg[v].root, v, c.p[k].type)
        M == Emit(NextCmdTarget(S, i), <<Cmd2("MOV", reg, c.p[k])>>)
    IN  IF CombiAllowed(c.inst, c.p[1], c.p[2]) THEN L
        ELSE SetVirtualReg(SetCmdParam(M, i + 1, k, reg), v, i, i + 1)

(* correct_unallowed_param_combis2 *)
ComparesLong(c) == c.inst = "CMP" /\ c.p[2].kind = "Immediate" /\ SizeOf[c.p[2].type] = 8
HasUpperHalf(n) == n < 0 \/ n \div 65536 >= 65536
ShortenCompare(c) == IF ComparesLong(c) THEN [c EXCEPT !.p[2].type = "i32"] ELSE c

IsFar(p) == p.kind = "ConstantByAddress" /\ p.p + p.shift >= FarFrom

(* correct_far_mem_access, for one command *)
FarCorrected(L, i) ==
    LET c == L.cmd[i]
        p == c.p[2]
        S == Scratch(L, i, "none")
        v == Len(S.vreg)
        root == S.vreg[v].root
        M == Emit(NextCmdTarget(S, i), <<Cmd2("MOV", VReg(root, v, "ref"), Imm("ref", p.p + p.shift))>>)
    IN  IF ~IsFar(p) \/ (AllowsConst(c.inst) /\ SizeOf[p.type] <= 4) THEN L
        ELSE SetVirtualReg(SetCmdParam(M, i + 1, 2, DerefVReg(root, v, p.type)), v, i, i + 1)

(* Mutant: the frame ends where it ends. *)
FrameSize_Exact == stack_offset + max_push_size

(* assemble: the frame of the function. *)
FrameSize == Align(stack_offset + max_push_size, 16)
-----------------------------------------------------------------------------
(* correct_parameters_variables_to_memory *)
ToMemory(p) ==
    CASE p.kind = "VarLocal" -> [p EXCEPT !.kind = "LocalMemory"]
      [] p.kind = "VarGlobal" -> [p EXCEPT !.kind = "Memory"]
      [] p.kind = "Constant" -> [p EXCEPT !.kind = "ConstantByAddress"]
      [] OTHER -> p

(* _add_temp: what stays on the stack in any case. *)
ForceStack(type) == SizeOf[type] > 8 \/ type = "vec2"

VariablesToMemory(cmds) == [i \in DOMAIN cmds |-> [cmds[i] EXCEPT !.p = [k \in 1 .. 3 |-> ToMemory(cmds[i].p[k])]]]

Init ==
    /\ fn \in Functions
    /\ pre_cmd = VariablesToMemory(fn.code)
    /\ list = [EmptyList EXCEPT !.temp = [v \in DOMAIN fn.temps |-> [type |-> fn.temps[v], first |-> 0, last |-> 0, stack |-> ForceStack(fn.temps[v])]]]
    /\ phase = "intro"
    /\ at = 1
    /\ func_params = <<>>
    /\ stack_offset = fn.var_size
    /\ max_push_size = 0

(* do_error where no register is free. *)
Proceed(L, next) ==
    /\ list' = L
    /\ phase' = IF NoRegister(L) THEN "failed" ELSE next

IntroParams ==
    /\ phase = "intro"
    /\ Proceed(Intro(list, fn.intro), "implement")
    /\ UNCHANGED <<fn, pre_cmd, at, func_params, stack_offset, max_push_size>>

Implementing == phase = "implement" /\ at \in DOMAIN pre_cmd
AtEnd == NextCmdTarget(list, End(list))
AfterCommand == IF at < Len(pre_cmd) THEN "implement" ELSE "map_referenced"

PushParam ==
    /\ Implementing /\ pre_cmd[at].inst = "PUSH"
    /\ func_params' = Append(func_params, pre_cmd[at].p[1])
    /\ at' = at + 1
    /\ UNCHANGED <<fn, pre_cmd, list, phase, stack_offset, max_push_size>>

(* A result in memory goes behind a reference that is the first parameter. *)
ReturnTo(L, ret) == IF ByMemory(ret.type) THEN Referenced(L, ret) ELSE [list |-> L, param |-> ret]
AllParams(ret, first) == IF ByMemory(ret.type) THEN <<first>> \o func_params ELSE func_params

ImplementCall ==
    /\ Implementing /\ pre_cmd[at].inst = "CALL"
    /\ \E to \in {ReturnTo(AtEnd, pre_cmd[at].p[1])} :
       \E m \in {MapParams(AllParams(pre_cmd[at].p[1], to.param))} :
          /\ Proceed(Called(to.list, pre_cmd[at].p[1], pre_cmd[at].p[2], m), AfterCommand)
          /\ max_push_size' = IF StackBytes(m.stack) > max_push_size THEN StackBytes(m.stack) ELSE max_push_size
    /\ func_params' = <<>>
    /\ at' = at + 1
    /\ UNCHANGED <<fn, pre_cmd, stack_offset>>

ImplementCommand ==
    /\ Implementing /\ pre_cmd[at].inst \notin {"PUSH", "CALL"}
    /\ Proceed(Implemented(AtEnd, pre_cmd[at]), AfterCommand)
    /\ at' = at + 1
    /\ UNCHANGED <<fn, pre_cmd, func_params, stack_offset, max_push_size>>

(* map_referenced_temp_vars_to_stack: the last of them goes first. *)
MapReferenced ==
    /\ phase = "map_referenced"
    /\ LET referenced == {v \in DOMAIN list.temp : IsReferenced(list, v) \/ list.temp[v].stack}
           v == CHOOSE w \in referenced : \A u \in referenced : u <= w
           offset == StackVar(stack_offset, list.temp[v].type)
       IN  IF referenced = {}
           THEN phase' = "map_remaining" /\ UNCHANGED <<list, stack_offset>>
           ELSE /\ list' = RemoveTempVar(MapTemp(list, v, -offset), v)
                /\ stack_offset' = offset
                /\ UNCHANGED phase
    /\ UNCHANGED <<fn, pre_cmd, at, func_params, max_push_size>>

(* map_remaining_temp_vars_to_stack *)
MapRemaining ==
    /\ phase = "map_remaining"
    /\ IF list.temp = <<>>
       THEN /\ phase' = "deref"
            /\ at' = Len(list.cmd)
            /\ UNCHANGED <<list, stack_offset>>
       ELSE LET v == Len(list.temp)
                offset == StackVar(stack_offset, list.temp[v].type)
            IN  /\ list' = [MapTemp(list, v, -offset) EXCEPT !.temp = Front(@)]
                /\ stack_offset' = offset
                /\ UNCHANGED <<phase, at>>
    /\ UNCHANGED <<fn, pre_cmd, func_params, max_push_size>>

ResolveDeref ==
    /\ phase = "deref"
    /\ IF at = 0 THEN phase' = "indirect" /\ at' = Len(list.cmd) /\ UNCHANGED list
       ELSE Proceed(Resolved(list, at), phase) /\ at' = at - 1
    /\ UNCHANGED <<fn, pre_cmd, func_params, stack_offset, max_push_size>>

CorrectIndirect ==
    /\ phase = "indirect"
    /\ IF at = 0 THEN phase' = "compare" /\ UNCHANGED <<list, at>>
       ELSE Proceed(Indirect(list, at), phase) /\ at' = at - 1
    /\ UNCHANGED <<fn, pre_cmd, func_params, stack_offset, max_push_size>>

ShortenCompares ==
    /\ phase = "compare"
    /\ phase' = IF \E i \in DOMAIN list.cmd : ComparesLong(list.cmd[i]) /\ HasUpperHalf(list.cmd[i].p[2].p)
                THEN "refused" ELSE "far"
    /\ at' = 1
    /\ list' = [list EXCEPT !.cmd = [i \in DOMAIN @ |-> ShortenCompare(@[i])]]
    /\ UNCHANGED <<fn, pre_cmd, func_params, stack_offset, max_push_size>>

CorrectFar ==
    /\ phase = "far"
    /\ IF at > Len(list.cmd) THEN phase' = "done" /\ UNCHANGED <<list, at>>
       ELSE Proceed(FarCorrected(list, at), phase) /\ at' = at + 1
    /\ UNCHANGED <<fn, pre_cmd, func_params, stack_offset, max_push_size>>
=============================================================================
