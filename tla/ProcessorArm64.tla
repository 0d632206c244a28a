--------------------------- MODULE ProcessorArm64 ---------------------------
(***************************************************************************)
(* What instructions do to a machine with the registers of an ARM64        *)
(* processor, its calling convention, and which instructions the assembler *)
(* has an encoding for.  A register operand is W or S (4 bytes) or X or D  *)
(* (8 bytes), by its type.                                                 *)
(***************************************************************************)
EXTENDS BackendMachine

IntRoots == {arm_map_reg_root[j] : j \in DOMAIN arm_map_reg_root} \cup {"R8", "R29", "R30", "R31"}
FloatRoots == {s_reg[j] : j \in DOMAIN s_reg}
ArmRoots == IntRoots \cup FloatRoots

RegWidth(p) == IF SizeOf[p.type] = 8 THEN 8 ELSE 4

(* An operand that is not in memory.  R31 is the stack pointer next to an
   immediate and zero next to other registers. *)
PartValue(m, p, w) ==
    LET all == IF p.kind = "InlinedCode" THEN Fresh(<<"code", p.p>>, 8) ELSE Load(m, p.p, p.shift + p.vreg)
    IN  [k \in 1 .. w |-> IF k \in p.shift + 1 .. p.shift + p.vreg THEN all[k] ELSE Zero]

Operand(m, p, w) ==
    CASE p.kind = "Register" -> Low(m.reg[p.p], w)
      [] p.kind = "Immediate" -> Ints(p.p, w)
      [] p.kind \in {"Inlined", "InlinedCode"} -> PartValue(m, p, w)

ArmAddress(m, p) ==
    IF p.kind = "LocalMemory" THEN AddressIn(m.reg.R31) + p.p + p.shift ELSE AddressIn(m.reg[p.p])

(* Both are bytes that a load has extended. *)
ZeroExtended(a, b) == \A k \in 2 .. Len(a) : a[k] = Zero /\ b[k] = Zero

IsProduct(b, a) ==
    /\ b[1][1] = "op" /\ b[1][2][1] = "IMUL"
    /\ LET q == b[1][2][2] IN q = Fresh(<<"IDIV", a, b[1][2][3]>>, Len(a))

OperationName(inst) == CASE inst = "MUL" -> "IMUL" [] inst = "DIV" -> "IDIV" [] OTHER -> inst

ArmOperation(inst, a, b) ==
    CASE inst = "SUB" /\ IsInt(a) /\ IsInt(b) -> Ints(IntOf(a) - IntOf(b), Len(a))
      [] inst = "SUB" /\ IsProduct(b, a) -> Fresh(<<"MODULO", a, b[1][2][3]>>, Len(a))
      [] inst = "AND" /\ IsInt(b) /\ IntOf(b) = 1 /\ a[1][1] = "set" -> a
      [] inst \in {"SHL", "SHR"} -> Operation(inst, a, <<b[1]>>)
      [] ~(IsInt(a) /\ IsInt(b)) /\ ZeroExtended(a, b) ->
            Operation(OperationName(inst), <<a[1]>>, <<b[1]>>) \o Fresh(<<"carry", inst, a, b>>, Len(a) - 1)
      [] OTHER -> Operation(OperationName(inst), a, b)

(* Comparing bytes that were extended with zeros says nothing about their
   signs. *)
Compared(a, b) == IF ZeroExtended(a, b) THEN <<"CMP", <<a[1]>>, <<b[1]>>>> ELSE <<"CMP", a, b>>
Unsigned == [SETL |-> "SETB", SETLE |-> "SETBE", SETNL |-> "SETNB", SETNLE |-> "SETNBE"]
Condition(k) ==
    CASE k = 0 -> "SETNZ" [] k = 1 -> "SETZ" [] k = 2 -> "SETB" [] k = 3 -> "SETNB" [] k = 8 -> "SETBE" [] k = 9 -> "SETNBE"
      [] k = 10 -> "SETL" [] k = 11 -> "SETNL" [] k = 12 -> "SETLE" [] k = 13 -> "SETNLE"
Decided(k, flags) ==
    LET inst == Condition(k)
    IN  <<"set", IF flags[1] = "CMP" /\ Len(flags[2]) = 1 /\ inst \in DOMAIN Unsigned THEN Unsigned[inst] ELSE inst, flags>>
-----------------------------------------------------------------------------
(* The calling convention (AAPCS64). *)
ArmIntsUpTo(types, j) == Cardinality({h \in 1 .. j : types[h] \in IntTypes})
ArmOnStack(types, j) == IF types[j] \in IntTypes THEN ArmIntsUpTo(types, j) > 8 ELSE j - ArmIntsUpTo(types, j) > 8
ArmArgRoot(types, j) == IF types[j] \in IntTypes THEN r_reg[ArmIntsUpTo(types, j)] ELSE s_reg[j - ArmIntsUpTo(types, j)]

ArmArgOf(m, types, j) ==
    IF ArmOnStack(types, j)
    THEN Load(m, AddressIn(m.reg.R31) + 8 * Cardinality({h \in 1 .. j - 1 : ArmOnStack(types, h)}), SizeOf[types[j]])
    ELSE Low(m.reg[ArmArgRoot(types, j)], SizeOf[types[j]])

(* The stack pointer and the frame pointer survive; a value of a float type
   is spread over the registers. *)
AfterArmCall(m, sig) ==
    LET n == Len(m.events)
        result == ResultOf(m, SizeOf[sig.ret])
        parts == ArmFloatParts(sig.ret)
        regs == [r \in ArmRoots |->
                    IF r \in {"R31", "R29"} THEN m.reg[r] ELSE Junk(<<"call", n, r>>)]
        Returns(x, root, bs) == [x EXCEPT !.reg[root] = Low(bs \o @, 8)]
        after == [m EXCEPT !.reg = regs]
    IN  IF sig.ret = "void" THEN after
        ELSE IF ByMemory(sig.ret) THEN Store(after, AddressIn(m.reg.R8), result)
        ELSE IF sig.ret \in FloatReturns
        THEN FoldLeft(LAMBDA x, part : Returns(x, part.root, SubSeq(result, part.shift + 1, part.shift + SizeOf[part.type])), after, parts)
        ELSE Returns(after, "R0", result)

(* Where the type of the function says, if the caller finds its own stack
   pointer, frame pointer and return address. *)
ArmEntryPointer == FrameBase + StackMaxSize + 16
ArmReturned(m) ==
    LET parts == ArmFloatParts(fn.ret)
    IN  IF m.reg.R31 # Ints(ArmEntryPointer, 8) \/ \E r \in {"R29", "R30"} : m.reg[r] # Junk(<<"entry", r>>) THEN <<"lost">>
        ELSE IF fn.ret \in IntTypes THEN Low(m.reg.R0, SizeOf[fn.ret])
        ELSE IF fn.ret \in FloatReturns
        THEN FoldLeft(LAMBDA bs, part : bs \o Low(m.reg[part.root], SizeOf[part.type]), <<>>, parts)
        ELSE <<>>

ArmEntry ==
    LET types == IntroTypes
    IN  FoldLeft(LAMBDA m, j : [m EXCEPT !.reg[ArmArgRoot(types, j)] = Low(Arg(j) \o @, 8)],
                 SetReg(Machine(ArmRoots), "R31", Ints(ArmEntryPointer, 8)), [j \in DOMAIN types |-> j])

ArmArithmetic == {"ADD", "SUB", "MUL", "DIV", "AND", "OR", "XOR", "SHL", "SHR"}

(* One instruction. *)
ArmExecution(m, c) ==
    LET p1 == c.p[1]
        p2 == c.p[2]
        p3 == c.p[3]
        w == RegWidth(p1)
        To(bs) == SetReg(m, p1.p, bs)
        a == IF p2.p = "R31" /\ p3.kind = "Register" THEN Zeros(w) ELSE Operand(m, p2, w)
        b == IF p3.kind = "Register" /\ p3.p = "R31" THEN Zeros(w) ELSE Operand(m, p3, w)
    IN  CASE c.inst = "MOV" -> To(Operand(m, p2, w))
          [] c.inst = "SXTW" -> To(Extended(Low(m.reg[p2.p], 4), TRUE, 8))
          [] c.inst = "SXTB" -> To(Extended(Low(m.reg[p2.p], 1), TRUE, 4))
          [] c.inst = "MUL" /\ w = 8 -> To(ArmOperation("MUL", Low(a, 4), Low(b, 4)) \o Zeros(4))
          [] c.inst \in ArmArithmetic -> To(ArmOperation(c.inst, a, b))
          [] c.inst \in DOMAIN FloatInst -> To(Operation(c.inst, a, b))
          [] c.inst = "LDR" -> To(Load(m, ArmAddress(m, p2), w))
          [] c.inst = "LDRB" -> To(Load(m, ArmAddress(m, p2), 1) \o Zeros(3))
          [] c.inst = "STR" -> Store(m, ArmAddress(m, p2), Low(m.reg[p1.p], w))
          [] c.inst = "STRB" -> Store(m, ArmAddress(m, p2), Low(m.reg[p1.p], 1))
          [] c.inst = "STP" -> Store(m, ArmAddress(m, p3), m.reg[p1.p] \o m.reg[p2.p])
          [] c.inst = "LDP" ->
                SetReg(To(Load(m, ArmAddress(m, p3), 8)), p2.p, Load(m, ArmAddress(m, p3) + 8, 8))
          [] c.inst = "SUBS" -> Flags(To(ArmOperation("SUB", a, b)), Compared(a, b))
          [] c.inst = "FCMP" -> Flags(m, <<"FCMP", Low(m.reg[p1.p], w), Low(m.reg[p2.p], w)>>)
          [] c.inst = "CSET" -> To(<<Decided(p2.p, m.flags)>> \o Zeros(w - 1))
          [] c.inst = "FMOV" -> To(Low(m.reg[p2.p], w))
          [] c.inst = "SCVTF" -> To(Converted("CVTSI2SS", Low(m.reg[p2.p], RegWidth(p2)), w))
          [] c.inst = "FCVTZS" -> To(Converted("CVTTSS2SI", Low(m.reg[p2.p], 4), w))
          [] c.inst = "FCVT" ->
                To(Converted(IF w = 8 THEN "CVTSS2SD" ELSE "CVTSD2SS", Low(m.reg[p2.p], RegWidth(p2)), w))
          [] c.inst \in {"BL", "BLR"} ->
                LET sig == want.events[Len(m.events) + 1].sig
                    args == [j \in DOMAIN sig.params |-> ArmArgOf(m, sig.params, j)]
                    e == Noted(m, Value(m, p1, 8), sig, args)
                IN  Flags([AfterArmCall(e, sig) EXCEPT !.aligned = @ /\ AddressIn(m.reg.R31) % 16 = 0], <<"junk">>)
          [] c.inst = "RET" -> [m EXCEPT !.returned = ArmReturned(m)]
-----------------------------------------------------------------------------
(* arm64_init, apply_param *)
IsX(p) == p.kind = "Register" /\ p.p \in IntRoots /\ RegWidth(p) = 8
IsW(p) == p.kind = "Register" /\ p.p \in IntRoots /\ RegWidth(p) = 4
IsD(p) == p.kind = "Register" /\ p.p \in FloatRoots /\ RegWidth(p) = 8
IsS(p) == p.kind = "Register" /\ p.p \in FloatRoots /\ RegWidth(p) = 4

(* [register + displacement], the displacement counted in units of size. *)
IsDeref(p, size) ==
    \/ p.kind = "DereferenceRegister" /\ p.p \in IntRoots
    \/ p.kind = "LocalMemory" /\ p.p % size = 0 /\ p.p \div size \in 0 .. 4095
IsPair(p) == p.kind = "LocalMemory" /\ p.p % 8 = 0 /\ p.p \in 0 .. 511

(* arm_encode_imm *)
IsImm12(p) == p.kind = "Immediate" /\ p.p \in 0 .. 4095
IsImm12Shifted(p) == IsImm12(p) \/ (p.kind = "Immediate" /\ p.p % 4096 = 0 /\ p.p \div 4096 \in 0 .. 4095)
IsImm16(p) ==
    \/ p.kind = "Immediate" /\ (p.p \in 0 .. 65535 \/ p.p % 65536 = 0)
    \/ p.kind \in {"Inlined", "InlinedCode"} /\ p.vreg <= 2 /\ p.shift % 2 = 0

ArmEncoded(c) ==
    LET p1 == c.p[1]
        p2 == c.p[2]
        p3 == c.p[3]
        XXX == IsX(p1) /\ IsX(p2) /\ IsX(p3)
        WWW == IsW(p1) /\ IsW(p2) /\ IsW(p3)
    IN  CASE c.inst = "MOV" -> (IsX(p1) /\ IsX(p2)) \/ ((IsX(p1) \/ IsW(p1)) /\ IsImm16(p2))
          [] c.inst = "SXTW" -> IsX(p1) /\ IsW(p2)
          [] c.inst = "SXTB" -> IsW(p1) /\ IsW(p2)
          [] c.inst \in {"ADD", "SUB"} ->
                XXX \/ WWW \/ (IsX(p1) /\ IsX(p2) /\ IsImm12Shifted(p3)) \/ (IsW(p1) /\ IsW(p2) /\ IsImm12(p3))
          [] c.inst = "AND" ->
                XXX \/ WWW \/ (((IsX(p1) /\ IsX(p2)) \/ (IsW(p1) /\ IsW(p2))) /\ p3.kind = "Immediate" /\ p3.p = 1)
          [] c.inst \in {"MUL", "DIV", "XOR", "OR", "SHL", "SHR", "SUBS"} -> XXX \/ WWW
          [] c.inst \in {"LDR", "STR"} ->
                ((IsX(p1) \/ IsD(p1)) /\ IsDeref(p2, 8)) \/ ((IsW(p1) \/ IsS(p1)) /\ IsDeref(p2, 4))
          [] c.inst \in {"LDRB", "STRB"} -> IsW(p1) /\ IsDeref(p2, 1)
          [] c.inst \in {"LDP", "STP"} -> IsX(p1) /\ IsX(p2) /\ IsPair(p3)
          [] c.inst = "CSET" -> (IsX(p1) \/ IsW(p1)) /\ p2.kind = "Immediate" /\ p2.p \in 0 .. 15
          [] c.inst = "FMOV" ->
                \/ IsS(p1) /\ (IsS(p2) \/ IsW(p2))
                \/ IsD(p1) /\ (IsD(p2) \/ IsX(p2))
                \/ IsW(p1) /\ IsS(p2)
                \/ IsX(p1) /\ IsD(p2)
          [] c.inst \in DOMAIN FloatInst ->
                (IsS(p1) /\ IsS(p2) /\ IsS(p3)) \/ (IsD(p1) /\ IsD(p2) /\ IsD(p3))
          [] c.inst = "FCMP" -> (IsS(p1) /\ IsS(p2)) \/ (IsD(p1) /\ IsD(p2))
          [] c.inst = "SCVTF" -> (IsS(p1) \/ IsD(p1)) /\ (IsW(p2) \/ IsX(p2))
          [] c.inst = "FCVTZS" -> IsW(p1) /\ IsS(p2)
          [] c.inst = "FCVT" -> (IsD(p1) /\ IsS(p2)) \/ (IsS(p1) /\ IsD(p2))
          [] c.inst = "BL" -> p1.kind = "Function"
          [] c.inst = "BLR" -> IsX(p1)
          [] c.inst = "RET" -> TRUE
          [] OTHER -> FALSE
=============================================================================
