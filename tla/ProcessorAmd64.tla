--------------------------- MODULE ProcessorAmd64 ---------------------------
(***************************************************************************)
(* What instructions do to a machine with the registers of an x86-64       *)
(* processor, the System V calling convention, and which instructions the  *)
(* assembler has an encoding for.                                          *)
(***************************************************************************)
EXTENDS BackendMachine

(* The calling convention: where parameter j of a function is found. *)
IntsUpTo(types, j) == Cardinality({h \in 1 .. j : types[h] \in IntTypes})
OnStack(types, j) == IF types[j] \in IntTypes THEN IntsUpTo(types, j) > 6 ELSE j - IntsUpTo(types, j) > 8
IntArgs == <<"DI", "SI", "D", "C", "R8", "R9">>
FloatArgs == <<"X0", "X1", "X2", "X3", "X4", "X5", "X6", "X7">>
ArgRoot(types, j) ==
    IF types[j] \in IntTypes THEN IntArgs[IntsUpTo(types, j)] ELSE FloatArgs[j - IntsUpTo(types, j)]
StackSlot(types, j) == Cardinality({h \in 1 .. j - 1 : OnStack(types, h)})
StackSlots(types) == Cardinality({h \in DOMAIN types : OnStack(types, h)})

Roots == {"A", "C", "D", "DI", "SI", "R8", "R9", "SP"} \cup {FloatArgs[j] : j \in 1 .. 8}

ArgOf(m, types, j) ==
    IF OnStack(types, j) THEN Load(m, AddressIn(m.reg.SP) + 8 * StackSlot(types, j), SizeOf[types[j]])
    ELSE Low(m.reg[ArgRoot(types, j)], SizeOf[types[j]])

(* What a call leaves in the registers, in its stack parameters and in the
   place of its result. *)
AfterCall(m, types, sig) ==
    LET n == Len(m.events)
        result == ResultOf(m, SizeOf[sig.ret])
        regs == [r \in Roots |->
                    IF r = "SP" THEN m.reg[r]
                    ELSE IF (sig.ret \in IntTypes /\ r = "A") \/ (sig.ret \in FloatReturns /\ r = "X0")
                    THEN Low(result \o Junk(<<"call", n>>), 8)
                    ELSE IF sig.ret \in {"vec3", "vec4"} /\ r = "X1"
                    THEN Low(SubSeq(result, 9, Len(result)) \o Junk(<<"call", n>>), 8)
                    ELSE Junk(<<"call", n, r>>)]
        clean == Store([m EXCEPT !.reg = regs], AddressIn(m.reg.SP),
                       Fresh(<<"junk", n>>, 8 * StackSlots(types)))
    IN  IF ByMemory(sig.ret) THEN Store(clean, AddressIn(ArgOf(m, types, 1)), result) ELSE clean

(* A function returns where its type says. *)
Returned(m) ==
    IF fn.ret \in IntTypes THEN Low(m.reg.A, SizeOf[fn.ret])
    ELSE IF fn.ret \in FloatReturns THEN Low(m.reg.X0 \o m.reg.X1, SizeOf[fn.ret])
    ELSE <<>>

FloatOf == [ADDSS |-> "FADD", ADDSD |-> "FADD", SUBSS |-> "FSUB", SUBSD |-> "FSUB",
            MULSS |-> "FMUL", MULSD |-> "FMUL", DIVSS |-> "FDIV", DIVSD |-> "FDIV"]
FloatWidth(inst) ==
    IF inst \in {"MOVSD", "MOVLPS", "ADDSD", "SUBSD", "MULSD", "DIVSD", "UCOMISD", "CVTSD2SS"} THEN 8 ELSE 4

(* One instruction. *)
Execution(m, c) ==
    LET p1 == c.p[1]
        p2 == c.p[2]
        size == IF c.inst \in FloatInsts THEN FloatWidth(c.inst) ELSE SizeOf[p1.type]
        a == Value(m, p1, size)
        b == Value(m, p2, size)
        Set(x) == Flags(Put(m, p1, x), <<"junk">>)
    IN  CASE c.inst \in {"MOV", "MOVSS", "MOVSD", "MOVLPS"} -> Put(m, p1, b)
          [] c.inst \in {"MOVSX", "MOVZX", "MOVSXD"} -> Put(m, p1, Extended(ValueOf(m, p2), c.inst # "MOVZX", size))
          [] c.inst = "LEA" -> Put(m, p1, Ints(Address(m, p2), 8))
          [] c.inst \in Arithmetic -> Set(Operation(c.inst, a, b))
          [] c.inst = "INC" -> Set(Operation("ADD", a, Ints(1, size)))
          [] c.inst = "DEC" -> Set(Operation("SUB", a, Ints(1, size)))
          [] c.inst \in {"SHL", "SHR", "SAR"} -> Set(Operation(c.inst, a, <<Value(m, p2, 1)[1]>>))
          [] c.inst = "IDIV" ->
                LET extended == Low(m.reg.D, size) = Operation("SAR", a, Ints(8 * size - 1, 1))
                    Of(op) == IF extended THEN Operation(op, a, b) ELSE Fresh(<<"wrong", a, b>>, size)
                IN  Flags(SetReg(SetReg(m, "A", Of("IDIV")), "D", Of("MODULO")), <<"junk">>)
          [] c.inst = "CMP" -> Flags(m, <<"CMP", a, b>>)
          [] c.inst \in {"UCOMISS", "UCOMISD"} -> Flags(m, <<"FCMP", a, b>>)
          [] c.inst \in SetInsts -> Put(m, p1, <<<<"set", c.inst, m.flags>>>>)
          [] c.inst \in DOMAIN FloatOf -> Put(m, p1, Operation(FloatOf[c.inst], a, b))
          [] c.inst \in {"CVTSI2SS", "CVTTSS2SI", "CVTSS2SD", "CVTSD2SS"} ->
                Put(m, p1, Converted(c.inst, b, IF c.inst = "CVTSS2SD" THEN 8 ELSE 4))
          [] c.inst = "PUSH" ->
                LET sp == AddressIn(m.reg.SP) - 8
                IN  Store(SetReg(m, "SP", Ints(sp, 8)), sp, a)
          [] c.inst = "CALL" ->
                LET sig == want.events[Len(m.events) + 1].sig
                    types == (IF ByMemory(sig.ret) THEN <<"ref">> ELSE <<>>) \o sig.params
                    args == [j \in DOMAIN types |-> ArgOf(m, types, j)]
                    e == Noted(m, Value(m, p1, 8), sig, IF ByMemory(sig.ret) THEN Tail(args) ELSE args)
                IN  Flags([AfterCall(e, types, sig) EXCEPT !.aligned = @ /\ AddressIn(m.reg.SP) % 16 = 0], <<"junk">>)
          [] c.inst = "LEAVE" -> m
          [] c.inst = "RET" -> [m EXCEPT !.returned = Returned(m)]

(* The processor finds them where the caller has left them: on the stack
   behind the saved base pointer and the return address. *)
CpuEntry ==
    LET types == IntroTypes
        Enter(m, j) ==
            IF OnStack(types, j) THEN Store(m, 16 + 8 * StackSlot(types, j), Arg(j))
            ELSE [m EXCEPT !.reg[ArgRoot(types, j)] = Low(Arg(j) \o @, 8)]
    IN  FoldLeft(Enter, SetReg(Machine(Roots), "SP", Ints(-FrameSize, 8)), [j \in DOMAIN types |-> j])
-----------------------------------------------------------------------------
(* What the processor has an encoding for (asm_x86.cpp). *)
IsXmm(p) == p.kind = "Register" /\ p.p \in {FloatArgs[j] : j \in 1 .. 8}
IsReg(p) == p.kind = "Register" /\ ~IsXmm(p) /\ (SizeOf[p.type] = 1 => p.p \in ByteRoots)
IsConst(inst, p) ==
    \/ p.kind = "Immediate"
    \/ p.kind = "ConstantByAddress" /\ AllowsConst(inst) /\ (p.type = "ref" \/ SizeOf[p.type] <= 4)
IsMem(inst, p) ==
    \/ p.kind \in {"LocalMemory", "Memory"}
    \/ p.kind = "DereferenceRegister" /\ SizeOf[p.type] <= 8
    \/ p.kind = "ConstantByAddress" /\ ~IsConst(inst, p) /\ ~IsFar(p)
IsOperand(inst, p) == IsReg(p) \/ IsMem(inst, p)
Same(p1, p2) == SizeOf[p1.type] = SizeOf[p2.type]

Encoded(c) ==
    LET inst == c.inst
        p1 == c.p[1]
        p2 == c.p[2]
        size == SizeOf[p1.type]
    IN  /\ ~(IsMem(inst, p1) /\ IsMem(inst, p2))
        /\ CASE inst = "MOV" ->
                  /\ IsOperand(inst, p1) /\ size \in {1, 4, 8} /\ Same(p1, p2)
                  /\ \/ IsOperand(inst, p2)
                     \/ p2.kind = "Function" /\ IsReg(p1)
                     \/ IsConst(inst, p2) /\ (size = 8 => IsReg(p1))
             [] inst \in {"ADD", "SUB", "AND", "OR", "XOR", "CMP"} ->
                  /\ IsOperand(inst, p1) /\ size \in {1, 4, 8}
                  /\ IF IsConst(inst, p2) THEN SizeOf[p2.type] <= 4 /\ SizeOf[p2.type] <= size
                     ELSE IsOperand(inst, p2) /\ Same(p1, p2)
             [] inst = "IMUL" ->
                  /\ IsReg(p1) /\ size \in {4, 8}
                  /\ IF IsConst(inst, p2) THEN p1.p = "A" /\ SizeOf[p2.type] = 4    \* the factor's result is always in A
                     ELSE IsOperand(inst, p2) /\ Same(p1, p2)
             [] inst \in {"INC", "DEC"} -> IsOperand(inst, p1) /\ size \in {1, 4, 8}
             [] inst \in {"SHL", "SHR"} -> IsOperand(inst, p1) /\ p2.kind = "Register" /\ p2.p = "C" /\ SizeOf[p2.type] = 1
             [] inst = "SAR" -> IsOperand(inst, p1) /\ p2.kind = "Immediate" /\ SizeOf[p2.type] = 1
             [] inst = "IDIV" -> IsReg(p1) /\ p1.p = "A" /\ size \in {4, 8} /\ IsOperand(inst, p2) /\ Same(p1, p2)
             [] inst \in {"MOVSX", "MOVZX"} -> IsReg(p1) /\ size = 4 /\ IsOperand(inst, p2) /\ SizeOf[p2.type] = 1
             [] inst = "MOVSXD" -> IsReg(p1) /\ size = 8 /\ IsOperand(inst, p2) /\ SizeOf[p2.type] = 4
             [] inst = "LEA" -> IsReg(p1) /\ size = 8 /\ p2.kind = "LocalMemory"
             [] inst \in SetInsts -> IsOperand(inst, p1) /\ size = 1
             [] inst \in {"MOVSS", "MOVSD", "MOVLPS"} ->
                  \/ IsXmm(p1) /\ IsMem(inst, p2) /\ SizeOf[p2.type] = FloatWidth(inst)
                  \/ IsXmm(p2) /\ IsMem(inst, p1) /\ SizeOf[p1.type] = FloatWidth(inst)
             [] inst = "CVTTSS2SI" -> IsReg(p1) /\ size = 4 /\ IsXmm(p2)
             [] inst = "CVTSI2SS" -> IsXmm(p1) /\ IsOperand(inst, p2) /\ SizeOf[p2.type] = 4
             [] inst \in FloatInsts \ {"MOVSS", "MOVSD", "MOVLPS", "CVTTSS2SI", "CVTSI2SS"} ->
                  IsXmm(p1) /\ (IsXmm(p2) \/ (IsMem(inst, p2) /\ SizeOf[p2.type] = FloatWidth(inst)))
             [] inst = "PUSH" -> IsReg(p1) /\ size = 8
             [] inst = "CALL" -> p1.kind = "Function" \/ (IsReg(p1) /\ size = 8)
             [] inst \in {"LEAVE", "RET"} -> TRUE
             [] OTHER -> FALSE
=============================================================================
