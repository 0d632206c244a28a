---------------------------- MODULE BackendArm64 ----------------------------
(***************************************************************************)
(* kaba/compiler/BackendArm64 and the parts of BackendARM it uses: every   *)
(* temporary goes to the stack at once, and each serial command becomes a  *)
(* short piece of code of its own that loads its operands into registers,  *)
(* works on them and stores the result.  Virtual registers live from       *)
(* vreg_alloc to vreg_free, on any of 15 registers.                        *)
(*                                                                         *)
(* A register operand is as wide as its type, but at least 4 bytes.  A     *)
(* float register S0 is the low half of D0: both are the root S0.          *)
(***************************************************************************)
EXTENDS BackendAmd64

CONSTANTS
    ArmFunctions,       \* the functions to compile
    KnownConstants      \* address of a constant -> its value; the value of any
                        \* other constant has no zeros in it

AnyRegister == "any"
arm_map_reg_root == <<"R0", "R1", "R2", "R3", "R4", "R5", "R6", "R7", "R9", "R10", "R11", "R12", "R13", "R14", "R15">>
r_reg == <<"R0", "R1", "R2", "R3", "R4", "R5", "R6", "R7">>
s_reg == <<"S0", "S1", "S2", "S3", "S4", "S5", "S6", "S7">>
R29 == PReg("R29", "ref")
R30 == PReg("R30", "ref")
R31 == PReg("R31", "ref")
Forever == 999999
-----------------------------------------------------------------------------
(* Mutant: only a register that was never used counts as free. *)
vreg_alloc_Fresh(L, root) ==
    LET free == SelectSeq(arm_map_reg_root, LAMBDA r : \A v \in DOMAIN L.vreg : L.vreg[v].root # r)
        r == IF root # AnyRegister THEN root ELSE IF free = <<>> THEN "none" ELSE Head(free)
    IN  SetVirtualReg(AddVirtualReg(L, r), Len(L.vreg) + 1, End(L), Forever)

(* From the next command on, until it is freed. *)
vreg_alloc(L, root) ==
    LET free == SelectSeq(arm_map_reg_root, LAMBDA r : ~RootUsed(L, r, End(L), End(L)))
        r == IF root # AnyRegister THEN root ELSE IF free = <<>> THEN "none" ELSE Head(free)
    IN  SetVirtualReg(AddVirtualReg(L, r), Len(L.vreg) + 1, End(L), Forever)

vreg_free(L, v) == [L EXCEPT !.vreg[v].last = Len(L.cmd)]

-----------------------------------------------------------------------------
(* The code for a command is put together from steps: get a register, have
   done with it, and one instruction.  A register has a number within the
   steps, and Below(v) is a register for the time it takes to reach v. *)
Alloc(v, root) == <<[do |-> "alloc", v |-> v, root |-> root]>>
Take(v, root) == <<[do |-> "take", v |-> v, root |-> root]>>        \* add_virtual_reg alone
Free(v) == <<[do |-> "free", v |-> v]>>
Spans(v, n) == <<[do |-> "spans", v |-> v, n |-> n]>>               \* set_virtual_reg to the last n + 1 commands
Out(inst, p0, p1, p2) == <<[do |-> "emit", cmd |-> Command(inst, p0, p1, p2)]>>
Out2(inst, p0, p1) == Out(inst, p0, p1, NoParam)
Below(v) == 10 * v
Free2(v, w) == Free(v) \o Free(w)

(* param_vreg_auto, param_deref_vreg *)
Auto(v, type) == Param("AutoRegister", 0, v, type, 0)
Deref(v, type) == Param("AutoDereference", 0, v, type, 0)
Add(v, p) == Out("ADD", Auto(v, "i64"), Auto(v, "i64"), p)

(* S: [list, v], the virtual register of each number. *)
Register(S, p) ==
    LET v == S.v[p.vreg]
        root == S.list.vreg[v].root
    IN  CASE p.kind = "AutoRegister" -> VReg(root, v, p.type)
          [] p.kind = "AutoDereference" -> DerefVReg(root, v, p.type)
          [] OTHER -> p

Do(S, step) ==
    LET Named(L) == [list |-> L, v |-> (step.v :> Len(L.vreg)) @@ S.v]
        end == Len(S.list.cmd)
    IN  CASE step.do = "alloc" -> Named(vreg_alloc(S.list, step.root))
          [] step.do = "take" -> Named(AddVirtualReg(S.list, step.root))
          [] step.do = "free" -> [S EXCEPT !.list = vreg_free(@, S.v[step.v])]
          [] step.do = "spans" -> [S EXCEPT !.list = SetVirtualReg(@, S.v[step.v], end - step.n, end)]
          [] step.do = "emit" ->
                [S EXCEPT !.list = InsertCmd(@, [step.cmd EXCEPT !.p = [k \in 1 .. 3 |-> Register(S, step.cmd.p[k])]])]

Follow(L, steps) == FoldLeft(Do, [list |-> L, v |-> <<>>], steps).list
-----------------------------------------------------------------------------
(* The 16-bit chunks of an immediate value that are not zero, or the first. *)
IntChunks(n, type) ==
    LET Chunk(k) == ((n \div 65536 ^ k) % 65536) * 65536 ^ k
        ks == SelectSeq(<<0, 1>>, LAMBDA k : Chunk(k) # 0)
    IN  IF n = 0 THEN <<Imm(type, 0)>> ELSE [j \in DOMAIN ks |-> Imm(type, Chunk(ks[j]))]

(* n bytes of a value that is known only to the linker or the constant's
   memory, from byte k on: a part of an immediate. *)
Inlined(p, n, type, k) ==
    Param(IF p.kind = "Function" THEN "InlinedCode" ELSE "Inlined", p.p + p.shift, n, type, k)

(* What the value of an operand without memory is put together from. *)
Parts(p) ==
    LET size == SizeOf[p.type]
        type == IF size = 8 THEN "i64" ELSE "i32"
        a == p.p + p.shift
        known == p.kind = "Constant" /\ a \in DOMAIN KnownConstants
        n == IF known THEN KnownConstants[a] ELSE p.p
    IN  IF p.kind = "Immediate" \/ known
        THEN IF size = 1 THEN <<Imm(type, n % 256)>> ELSE IntChunks(n, type)
        ELSE IF size = 1 THEN <<Inlined(p, 1, type, 0)>> ELSE [k \in 1 .. size \div 2 |-> Inlined(p, 2, type, 2 * (k - 1))]

(* _immediate_to_register_8, _32: through W5, whatever it holds. *)
Immediate32(v, parts) ==
    LET r == Auto(v, "i32")
        W5 == PReg("R5", "i32")
    IN  Out2("MOV", r, Head(parts))
            \o FlattenSeq([k \in DOMAIN Tail(parts) |-> Out2("MOV", W5, parts[k + 1]) \o Out("ADD", r, r, W5)])

(* _immediate_to_register_64 *)
Immediate64(v, parts) ==
    LET t == Below(v)
        Plus(p) == Alloc(t, AnyRegister) \o Out2("MOV", Auto(t, "i64"), p) \o Add(v, Auto(t, "i64")) \o Free(t)
    IN  Out2("MOV", Auto(v, "i64"), Head(parts)) \o FlattenSeq([k \in DOMAIN Tail(parts) |-> Plus(parts[k + 1])])

(* _immediate_to_register *)
ImmediateTo(v, p) == IF SizeOf[p.type] = 8 THEN Immediate64(v, Parts(p)) ELSE Immediate32(v, Parts(p))
AddressTo(v, address) == ImmediateTo(v, Imm("i64", address))

InlineKinds == {"Immediate", "Constant", "Function"}
LocalKinds == {"VarLocal", "LocalMemory"}
GlobalKinds == {"VarGlobal", "Memory"}

LoadInst(p) == IF SizeOf[p.type] = 1 THEN "LDRB" ELSE "LDR"

(* Global bytes are stored like words. *)
StoreInst(p) == IF SizeOf[p.type] = 1 /\ p.kind \notin GlobalKinds THEN "STRB" ELSE "STR"

(* How far from the stack pointer an instruction reaches. *)
WithinReach(p) == p.p + p.shift < 4096 * SizeOf[p.type]

(* _local_to_register, and its mirror in _from_register *)
AccessLocal(inst, v, p) ==
    LET r == Below(v)
    IN  IF WithinReach(p) THEN Out2(inst, Auto(v, p.type), LocalMemory(p.type, p.p + p.shift))
        ELSE Alloc(r, AnyRegister) \o AddressTo(r, p.p + p.shift) \o Add(r, R31)
                \o Out2(inst, Auto(v, p.type), Deref(r, p.type)) \o Free(r)

(* Behind a pointer, or at an address. *)
AccessBehind(inst, v, p) ==
    LET r == Below(v)
        pointer == AccessLocal("LDR", r, LocalMemory("i64", p.p))
        address == IF p.kind \in GlobalKinds THEN AddressTo(r, p.p + p.shift)
                   ELSE IF p.shift = 0 THEN pointer
                   ELSE pointer \o Add(r, Imm("i64", p.shift))
    IN  Alloc(r, AnyRegister) \o address \o Out2(inst, Auto(v, p.type), Deref(r, p.type)) \o Free(r)

Access(inst, v, p) == IF p.kind \in LocalKinds THEN AccessLocal(inst, v, p) ELSE AccessBehind(inst, v, p)

(* _to_register with a given register, or with one of its own *)
ToRegister(v, p) == IF p.kind \in InlineKinds THEN ImmediateTo(v, p) ELSE Access(LoadInst(p), v, p)
ToNew(v, p) == Alloc(v, AnyRegister) \o ToRegister(v, p)

(* _from_register *)
FromRegister(v, p) == Access(StoreInst(p), v, p)

(* _to_register_float, _from_register_float: through an integer register. *)
ToFloat(v, p) ==
    LET r == Below(v) IN ToNew(r, p) \o Out2("FMOV", Auto(v, p.type), Auto(r, p.type)) \o Free(r)

FromFloat(v, p) ==
    LET r == Below(v)
    IN  IF p.kind \in LocalKinds THEN Out2("STR", Auto(v, p.type), LocalMemory(p.type, p.p + p.shift))
        ELSE Alloc(r, AnyRegister) \o Out2("FMOV", Auto(r, p.type), Auto(v, p.type)) \o FromRegister(r, p) \o Free(r)

(* An addition of up to 24 bits, in two steps of 12. *)
InSteps(inst, r, from, n) ==
    Out(inst, r, from, Imm("i64", n % 4096))
        \o (IF n >= 4096 THEN Out(inst, r, r, Imm("i64", n - (n % 4096))) ELSE <<>>)

(* _reference_to_register_64, of what is in the frame *)
ReferenceTo(v, p) == InSteps("ADD", Auto(v, "i64"), R31, p.p)
-----------------------------------------------------------------------------
(* is_8b_aligned *)
Is8bAligned(p) ==
    \/ p.kind \in {"Constant", "VarLocal", "LocalMemory", "VarGlobal"} /\ (p.p + p.shift) % 8 = 0
    \/ p.kind = "DereferenceLocalMemory"

ArmPieces(p0, p1) ==
    LET size == SizeOf[p0.type]
        words == 4 * (size \div 4)
    IN  IF Is8bAligned(p0) /\ Is8bAligned(p1) THEN Pieces(size)
        ELSE [j \in 1 .. size \div 4 |-> [shift |-> 4 * (j - 1), type |-> "i32"]]
                \o [j \in 1 .. size - words |-> [shift |-> words + j - 1, type |-> "i8"]]

ArmMove(p0, p1) ==
    LET Copy(x) == ToNew(1, ParamShift(p1, x.shift, x.type)) \o FromRegister(1, ParamShift(p0, x.shift, x.type)) \o Free(1)
        pieces == ArmPieces(p0, p1)
    IN  FlattenSeq([j \in DOMAIN pieces |-> Copy(pieces[j])])

(* MOVSX: a load of a byte or of 32 bits has cleared the rest. *)
SignExtend(p0, p1) ==
    LET extension == IF p0.type = "i64" THEN Out2("SXTW", Auto(1, "i64"), Auto(1, "i32"))
                     ELSE IF p1.type = "i8" THEN Out2("SXTB", Auto(1, "i32"), Auto(1, "i8"))
                     ELSE <<>>
    IN  ToNew(1, p1) \o extension \o FromRegister(1, p0) \o Free(1)

ZeroExtend(p0, p1) ==
    Alloc(1, AnyRegister) \o ToNew(2, p1) \o Out2("MOV", Auto(1, "i64"), Auto(2, "i64"))
        \o FromRegister(1, p0) \o Free2(1, 2)

(* a = b o c, a o= b *)
Operands(c) == IF c.p[3].kind = "None" THEN <<c.p[1], c.p[2]>> ELSE <<c.p[2], c.p[3]>>
ToRegisters(ps) == ToRegister(1, ps[1]) \o ToRegister(2, ps[2])
ToFloats(ps) == ToFloat(1, ps[1]) \o ToFloat(2, ps[2])
Two(root1, root2) == Alloc(1, root1) \o Alloc(2, root2)

ArmInst(inst) == CASE inst = "IMUL" -> "MUL" [] inst = "IDIV" -> "DIV" [] OTHER -> inst

ArmCombine(c) ==
    LET Reg(v) == Auto(v, c.p[1].type)
    IN  Two(AnyRegister, AnyRegister) \o ToRegisters(Operands(c)) \o Out(ArmInst(c.inst), Reg(1), Reg(1), Reg(2))
            \o FromRegister(1, c.p[1]) \o Free2(1, 2)

(* a - (a / b) * b *)
ArmModulo(c) ==
    LET Reg(v) == Auto(v, c.p[1].type)
    IN  Two(AnyRegister, AnyRegister) \o Alloc(3, AnyRegister) \o Alloc(4, AnyRegister) \o ToRegisters(Operands(c))
            \o Out("DIV", Reg(3), Reg(1), Reg(2)) \o Out("MUL", Reg(4), Reg(3), Reg(2)) \o Out("SUB", Reg(1), Reg(1), Reg(4))
            \o FromRegister(1, c.p[1]) \o Free2(1, 2) \o Free2(3, 4)

ArmFloat(c) ==
    LET Reg(v) == Auto(v, c.p[1].type)
    IN  Two("S0", "S1") \o ToFloats(Operands(c)) \o Out(c.inst, Reg(1), Reg(1), Reg(2))
            \o FromFloat(1, c.p[1]) \o Free2(1, 2)

(* CMP, FCMP *)
ArmCompare(p0, p1) ==
    Two(AnyRegister, AnyRegister) \o ToRegisters(<<p0, p1>>)
        \o Out("SUBS", Auto(1, p0.type), Auto(1, p0.type), Auto(2, p1.type)) \o Free2(1, 2)

ArmCompareFloat(p0, p1) ==
    Two("S0", "S1") \o ToFloats(<<p0, p1>>) \o Out2("FCMP", Auto(1, p0.type), Auto(2, p0.type)) \o Free2(1, 2)

IntToFloat(p0, p1) ==
    ToNew(1, p1) \o Alloc(2, "S0") \o Out2("SCVTF", Auto(2, p0.type), Auto(1, p1.type)) \o FromFloat(2, p0) \o Free2(1, 2)

FloatToInt(p0, p1) ==
    Two("S0", AnyRegister) \o ToFloat(1, p1) \o Out2("FCVTZS", Auto(2, p0.type), Auto(1, p1.type))
        \o FromRegister(2, p0) \o Free2(2, 1)

FloatToFloat(p0, p1) ==
    Two("S0", "S1") \o ToFloat(2, p1) \o Out2("FCVT", Auto(1, p0.type), Auto(2, p1.type)) \o FromFloat(1, p0) \o Free2(2, 1)

(* Asm::ArmCond of the opposite: CSET of this assembler clears where it holds. *)
CsetCondition ==
    [SETZ |-> 1, SETNZ |-> 0, SETB |-> 2, SETNB |-> 3, SETBE |-> 8, SETNBE |-> 9, SETNL |-> 11, SETL |-> 10,
     SETNLE |-> 13, SETLE |-> 12]

ArmSet(inst, p0) ==
    LET W0 == Auto(1, "i32")
    IN  Alloc(1, "R0") \o Out2("CSET", W0, Imm("i32", CsetCondition[inst])) \o Out("AND", W0, W0, Imm("i32", 1))
            \o FromRegister(1, p0) \o Free(1)

ArmLea(p0, p1) == Alloc(1, AnyRegister) \o ReferenceTo(1, p1) \o FromRegister(1, p0) \o Free(1)
-----------------------------------------------------------------------------
(* assemble_cmd_arm's frame: the variables, then R29 and R30. *)
StackMaxSize == Align(stack_offset, 16)

SavedRegisters(pair, single) ==
    IF StackMaxSize >= 512
    THEN Out2(single, R29, LocalMemory("ref", StackMaxSize)) \o Out2(single, R30, LocalMemory("ref", StackMaxSize + 8))
    ELSE Out(pair, R29, R30, LocalMemory("ref", StackMaxSize))

(* Where a value of a float type is passed: [root, shift, type]. *)
ArmFloatParts(type) ==
    IF type = "f64" THEN <<[root |-> "S0", shift |-> 0, type |-> "f64"]>>
    ELSE [j \in 1 .. SizeOf[type] \div 4 |-> [root |-> s_reg[j], shift |-> 4 * (j - 1), type |-> "f32"]]

(* implement_return *)
ArmReturn(p) ==
    LET parts == ArmFloatParts(fn.ret)
        Load(j) == Alloc(j, parts[j].root) \o ToFloat(j, ParamShift(p, parts[j].shift, parts[j].type))
        load == IF p.kind = "None" THEN <<>>
                ELSE IF fn.ret \in FloatReturns THEN FlattenSeq([j \in DOMAIN parts |-> Load(j)])
                ELSE Alloc(1, "R0") \o ToRegister(1, p) \o Free(1)
    IN  load \o SavedRegisters("LDP", "LDR") \o InSteps("ADD", R31, R31, StackMaxSize + 16)
             \o Out2("RET", NoParam, NoParam)

(* One serial command that is not part of a call. *)
ArmSteps(c) ==
    LET p0 == c.p[1]
        p1 == c.p[2]
    IN  CASE c.inst = "MOV" -> ArmMove(p0, p1)
          [] c.inst = "MOVSX" -> SignExtend(p0, p1)
          [] c.inst = "MOVZX" -> ZeroExtend(p0, p1)
          [] c.inst \in Arithmetic \cup {"IDIV", "SHL", "SHR"} -> ArmCombine(c)
          [] c.inst = "MODULO" -> ArmModulo(c)
          [] c.inst \in DOMAIN FloatInst -> ArmFloat(c)
          [] c.inst = "CMP" -> ArmCompare(p0, p1)
          [] c.inst = "FCMP" -> ArmCompareFloat(p0, p1)
          [] c.inst = "CVTSI2SS" -> IntToFloat(p0, p1)
          [] c.inst = "CVTTSS2SI" -> FloatToInt(p0, p1)
          [] c.inst \in {"CVTSS2SD", "CVTSD2SS"} -> FloatToFloat(p0, p1)
          [] c.inst \in DOMAIN CsetCondition -> ArmSet(c.inst, p0)
          [] c.inst = "LEA" -> ArmLea(p0, p1)
          [] c.inst = "RET" -> ArmReturn(p0)

(* do_error: what this back end has no code for. *)
Supported(type) == type \in IntTypes \cup {"f32", "f64"}
Refused(c) ==
    \/ c.inst = "MOV" /\ c.p[2].kind = "Immediate" /\ Len(ArmPieces(c.p[1], c.p[2])) > 1
    \/ c.inst = "MOVSX" /\ <<c.p[1].type, c.p[2].type>> \notin {<<"i32", "i64">>, <<"i64", "i32">>, <<"i32", "i8">>}
    \/ c.inst = "LEA" /\ c.p[2].kind \notin LocalKinds
    \/ c.inst = "PUSH" /\ ~Supported(c.p[1].type)
    \/ c.inst = "CALL" /\ ByMemory(c.p[1].type) /\ c.p[1].kind \notin LocalKinds
    \/ c.inst = "RET" /\ ByMemory(fn.ret)
-----------------------------------------------------------------------------
UpTo(s, n) == SubSeq(s, 1, IF Len(s) > n THEN n ELSE Len(s))

(* fc_begin: the parameters that get a register; the others are forgotten. *)
IntParams(params) == UpTo(SelectSeq(params, LAMBDA p : p.type \in IntTypes), Len(r_reg))
FloatParams(params) == UpTo(SelectSeq(params, LAMBDA p : p.type \in {"f32", "f64"}), Len(s_reg))

(* Numbers of registers: float parameters, the address of the result,
   integer parameters, what to call. *)
AddressNumber == 9
IntNumber(j) == 10 + j
CalleeNumber == 19

fc_begin(ret, params) ==
    LET floats == FloatParams(params)
        ints == IntParams(params)
        LoadFloat(j) == Alloc(j, s_reg[j]) \o ToFloat(j, floats[j])
        LoadInt(j) == Alloc(IntNumber(j), r_reg[j]) \o ToRegister(IntNumber(j), ints[j])
    IN  FlattenSeq([j \in DOMAIN floats |-> LoadFloat(j)])
            \o (IF ByMemory(ret.type) THEN Alloc(AddressNumber, "R8") \o ReferenceTo(AddressNumber, ret) ELSE <<>>)
            \o FlattenSeq([j \in DOMAIN ints |-> LoadInt(j)])

(* add_function_call, add_pointer_call *)
ArmCallBy(callee) ==
    IF callee.kind = "Function" /\ callee.type # "far" THEN Out2("BL", callee, NoParam)
    ELSE ToNew(CalleeNumber, [callee EXCEPT !.type = "ref"]) \o Out2("BLR", Auto(CalleeNumber, "ref"), NoParam)
            \o Free(CalleeNumber)

fc_end(ret, params) ==
    LET parts == ArmFloatParts(ret.type)
        Store(j) == FromFloat(j, ParamShift(ret, parts[j].shift, parts[j].type)) \o Free(j)
        done == FlattenSeq([j \in DOMAIN FloatParams(params) |-> Free(j)])
                    \o (IF ByMemory(ret.type) THEN Free(AddressNumber) ELSE <<>>)
                    \o FlattenSeq([j \in DOMAIN IntParams(params) |-> Free(IntNumber(j))])
    IN  IF ret.kind = "None" \/ ByMemory(ret.type) THEN done
        ELSE IF ret.type \in FloatReturns
        THEN done \o FlattenSeq([j \in DOMAIN parts |-> Alloc(j, parts[j].root)]) \o FlattenSeq([j \in DOMAIN parts |-> Store(j)])
        ELSE done \o Alloc(1, "R0") \o FromRegister(1, ret) \o Spans(1, 1) \o Free(1)

ArmCallSteps(ret, callee, params) == fc_begin(ret, params) \o ArmCallBy(callee) \o fc_end(ret, params)

(* add_function_intro_params *)
ArmIntro(params) ==
    LET floats == FloatParams(params)
        ints == IntParams(params)
        Local(p) == LocalMemory(p.type, p.offset)
        StoreFloat(j) == Take(j, s_reg[j]) \o FromFloat(j, Local(floats[j]))
        StoreInt(j) == Take(IntNumber(j), r_reg[j]) \o FromRegister(IntNumber(j), Local(ints[j])) \o Spans(IntNumber(j), 0)
    IN  FlattenSeq([j \in DOMAIN floats |-> StoreFloat(j)]) \o FlattenSeq([j \in DOMAIN ints |-> StoreInt(j)])

(* Parameters of other types, or on the stack. *)
IntroRefused(params) ==
    Len(IntParams(params)) + Len(FloatParams(params)) < Len(params)

(* add_function_intro_frame *)
ArmFrame(L) ==
    Follow(NextCmdTarget(L, 1),
           SelectSeq(InSteps("SUB", R31, R31, StackMaxSize + 16), LAMBDA step : step.cmd.p[3].p > 0)
              \o SavedRegisters("STP", "STR") \o InSteps("ADD", R29, R31, StackMaxSize))
-----------------------------------------------------------------------------
ArmInit ==
    /\ fn \in ArmFunctions
    /\ pre_cmd = <<>>
    /\ list = FoldLeft(AddCmd,
                       [EmptyList EXCEPT !.temp = [v \in DOMAIN fn.temps |-> [type |-> fn.temps[v], first |-> 0, last |-> 0, stack |-> FALSE]]],
                       fn.code)
    /\ phase = "arm_map"
    /\ at = 1
    /\ func_params = <<>>
    /\ stack_offset = fn.var_size
    /\ max_push_size = 0

(* A temporary is a variable at its offset from the stack pointer: the
   displacement goes into the offset. *)
Settled(p) == IF p.kind = "LocalMemory" THEN [p EXCEPT !.p = @ + p.shift, !.shift = 0] ELSE p

(* add_stack_var *)
ArmStackAlign(type) == IF SizeOf[type] > 4 THEN 8 ELSE 4

(* do_mapping: the last temporary first. *)
ArmMapTemp ==
    /\ phase = "arm_map" /\ list.temp # <<>>
    /\ LET v == Len(list.temp)
           align == ArmStackAlign(list.temp[v].type)
           offset == Align(stack_offset, align)
           mapped == MapTemp(list, v, offset)
       IN  /\ list' = [mapped EXCEPT !.temp = Front(@),
                                     !.cmd = [i \in DOMAIN @ |-> [@[i] EXCEPT !.p = [k \in 1 .. 3 |-> Settled(mapped.cmd[i].p[k])]]]]
           /\ stack_offset' = offset + Align(SizeOf[list.temp[v].type], align)
    /\ UNCHANGED <<fn, pre_cmd, phase, at, func_params, max_push_size>>

(* correct: a new list is made from the old one. *)
ArmCorrect ==
    /\ phase = "arm_map" /\ list.temp = <<>>
    /\ pre_cmd' = list.cmd
    /\ list' = NextCmdTarget([list EXCEPT !.cmd = <<>>], 1)
    /\ phase' = "arm_implement"
    /\ UNCHANGED <<fn, at, func_params, stack_offset, max_push_size>>

ArmImplementing == phase = "arm_implement" /\ at \in DOMAIN pre_cmd

ArmProceed(steps) ==
    /\ list' = Follow(AtEnd, steps)
    /\ phase' = IF NoRegister(list') THEN "failed" ELSE IF at < Len(pre_cmd) THEN "arm_implement" ELSE "arm_intro"
    /\ at' = at + 1

ArmPushParam ==
    /\ ArmImplementing /\ pre_cmd[at].inst = "PUSH" /\ ~Refused(pre_cmd[at])
    /\ func_params' = Append(func_params, pre_cmd[at].p[1])
    /\ at' = at + 1
    /\ UNCHANGED <<fn, pre_cmd, list, phase, stack_offset, max_push_size>>

ArmImplementCall ==
    /\ ArmImplementing /\ pre_cmd[at].inst = "CALL" /\ ~Refused(pre_cmd[at])
    /\ ArmProceed(ArmCallSteps(pre_cmd[at].p[1], pre_cmd[at].p[2], func_params))
    /\ func_params' = <<>>
    /\ UNCHANGED <<fn, pre_cmd, stack_offset, max_push_size>>

ArmImplementCommand ==
    /\ ArmImplementing /\ pre_cmd[at].inst \notin {"PUSH", "CALL"} /\ ~Refused(pre_cmd[at])
    /\ ArmProceed(ArmSteps(pre_cmd[at]))
    /\ UNCHANGED <<fn, pre_cmd, func_params, stack_offset, max_push_size>>

ArmRefuse ==
    /\ \/ ArmImplementing /\ Refused(pre_cmd[at])
       \/ phase = "arm_intro" /\ IntroRefused(fn.intro)
    /\ phase' = "refused"
    /\ UNCHANGED <<fn, pre_cmd, list, at, func_params, stack_offset, max_push_size>>

(* The code that makes room for the variables comes before the one that
   stores the parameters. *)
ArmIntroduce ==
    /\ phase = "arm_intro" /\ ~IntroRefused(fn.intro)
    /\ list' = ArmFrame(Follow(NextCmdTarget(list, 1), ArmIntro(fn.intro)))
    /\ phase' = "done"
    /\ UNCHANGED <<fn, pre_cmd, at, func_params, stack_offset, max_push_size>>
=============================================================================
