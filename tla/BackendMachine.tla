--------------------------- MODULE BackendMachine ---------------------------
(***************************************************************************)
(* What the serial commands of a function mean: an ideal machine that has  *)
(* a place for every temporary, byte by byte, and what it shares with the  *)
(* models of the processors.                                               *)
(*                                                                         *)
(* A byte is a token that tells where it comes from: the k-th byte of a    *)
(* known integer, of an operation on other bytes, of memory as it was, of  *)
(* a parameter, of the result of a call, or junk.                          *)
(***************************************************************************)
EXTENDS BackendArm64

VARIABLE want       \* the ideal machine

FrameBase == 50000       \* where variables begin on ARM64; the base pointer is 0 on amd64
TempBase == 100000
HeapBase == 1000
HeapSize == 48

Zero == <<"int", 0, 0>>
IntByte(n, k) == IF n \in 0 .. 255 /\ k > 0 THEN Zero ELSE <<"int", n, k>>
Ints(n, size) == [k \in 1 .. size |-> IntByte(n, k - 1)]
IsInt(bs) == bs[1][1] = "int" /\ bs = Ints(bs[1][2], Len(bs))
IntOf(bs) == bs[1][2]

Fresh(what, size) == [k \in 1 .. size |-> <<"op", what, k>>]
Zeros(n) == [k \in 1 .. n |-> Zero]
Low(bs, n) == SubSeq(bs, 1, n)

(* The bytes that an operation makes of its operands'. *)
Operation(inst, a, b) ==
    CASE inst = "ADD" /\ IsInt(a) /\ IsInt(b) -> Ints(IntOf(a) + IntOf(b), Len(a))
      [] inst = "ADD" /\ (\A k \in DOMAIN a : a[k] = Zero \/ b[k] = Zero) ->
            [k \in DOMAIN a |-> IF a[k] = Zero THEN b[k] ELSE a[k]]
      [] inst = "AND" /\ IsInt(b) /\ IntOf(b) = 255 -> <<a[1]>> \o Zeros(Len(a) - 1)
      [] OTHER -> Fresh(<<inst, a, b>>, Len(a))
Extended(bs, signed, size) ==
    Low(bs \o [k \in 1 .. size |-> IF signed /\ bs[Len(bs)] # Zero THEN <<"sign", bs[Len(bs)]>> ELSE Zero], size)
Converted(inst, bs, size) == Fresh(<<inst, bs>>, size)
-----------------------------------------------------------------------------
(* Machines: registers of 8 bytes, memory that was written to, flags, what
   was pushed, calls made, and the value returned. *)
Load(m, address, size) ==
    [k \in 1 .. size |-> LET x == address + k - 1 IN IF x \in DOMAIN m.mem THEN m.mem[x] ELSE <<"mem", x, 0>>]

Store(m, address, bs) ==
    [m EXCEPT !.mem = [x \in address .. address + Len(bs) - 1 |-> bs[x - address + 1]] @@ @]

SetReg(m, root, bs) ==
    [m EXCEPT !.reg[root] = CASE Len(bs) = 1 -> [@ EXCEPT ![1] = bs[1]]
                              [] Len(bs) = 4 -> bs \o Zeros(4)
                              [] Len(bs) = 8 -> bs]

Nowhere == -1000000
AddressIn(bs) == IF IsInt(bs) THEN IntOf(bs) ELSE Nowhere

OnArm == fn.target = "arm64"
LocalBase == IF OnArm THEN FrameBase ELSE 0

Address(m, p) ==
    CASE p.kind \in LocalKinds -> LocalBase + p.p + p.shift
      [] p.kind \in {"VarGlobal", "Memory", "Constant", "ConstantByAddress"} -> p.p + p.shift
      [] p.kind = "VarTemp" -> TempBase + 100 * p.p + p.shift
      [] p.kind = "DereferenceVarTemp" -> AddressIn(Load(m, TempBase + 100 * p.p, 8)) + p.shift
      [] p.kind = "DereferenceRegister" -> AddressIn(m.reg[p.p]) + p.shift

Value(m, p, size) ==
    CASE p.kind = "Immediate" -> Ints(p.p, size)
      [] p.kind = "Function" -> Fresh(<<"code", p.p>>, size)
      [] p.kind = "Register" -> Low(m.reg[p.p], size)
      [] OTHER -> Load(m, Address(m, p), size)
ValueOf(m, p) == Value(m, p, SizeOf[p.type])

Put(m, p, bs) == IF p.kind = "Register" THEN SetReg(m, p.p, bs) ELSE Store(m, Address(m, p), bs)
Flags(m, what) == [m EXCEPT !.flags = what]
Junk(what) == Fresh(<<"junk", what>>, 8)

SetInsts == {"SETZ", "SETNZ", "SETL", "SETNLE", "SETLE", "SETNL", "SETB", "SETNB", "SETBE", "SETNBE"}
ResultOf(m, size) == Fresh(<<"result", Len(m.events)>>, size)

(* A call as its callee sees it, a reference as what it refers to.
   sig: [params, ret]. *)
Seen(m, bs) == IF Len(bs) = 8 /\ IsInt(bs) THEN Load(m, IntOf(bs), 4) ELSE bs
Noted(m, code, sig, args) ==
    [m EXCEPT !.events = Append(@, [code |-> code, sig |-> sig, args |-> [j \in DOMAIN args |-> Seen(m, args[j])]])]
-----------------------------------------------------------------------------
(* One serial command. *)
Ideal(m, c) ==
    LET p1 == c.p[1]
        size == SizeOf[p1.type]
        two == c.p[3].kind = "None"
        a == IF two THEN ValueOf(m, p1) ELSE Value(m, c.p[2], size)
        b == Value(m, IF two THEN c.p[2] ELSE c.p[3], size)
        from == ValueOf(m, c.p[2])
    IN  CASE c.inst = "MOV" -> Put(m, p1, Value(m, c.p[2], size))
          [] c.inst \in {"MOVSX", "MOVZX"} ->
                Put(m, p1, Extended(from, c.inst = "MOVSX" /\ c.p[2].type # "u8", size))
          [] c.inst = "LEA" -> Put(m, p1, Ints(Address(m, c.p[2]), 8))
          [] c.inst \in {"SHL", "SHR"} -> Put(m, p1, Operation(c.inst, a, <<b[1]>>))
          [] c.inst \in Arithmetic \cup {"MODULO", "IDIV"} \cup DOMAIN FloatInst -> Put(m, p1, Operation(c.inst, a, b))
          [] c.inst \in {"CVTSI2SS", "CVTTSS2SI", "CVTSS2SD", "CVTSD2SS"} -> Put(m, p1, Converted(c.inst, from, size))
          [] c.inst = "CMP" -> Flags(m, <<"CMP", ValueOf(m, p1), b>>)
          [] c.inst = "FCMP" -> Flags(m, <<"FCMP", ValueOf(m, p1), b>>)
          [] c.inst \in SetInsts -> Put(m, p1, <<<<"set", c.inst, m.flags>>>>)
          [] c.inst = "PUSH" -> [m EXCEPT !.pushed = Append(@, c.p[1].type), !.args = Append(@, ValueOf(m, p1))]
          [] c.inst = "CALL" ->
                LET e == Noted(m, Value(m, c.p[2], 8), [params |-> m.pushed, ret |-> p1.type], m.args)
                    r == IF p1.kind = "None" THEN e ELSE Put(e, p1, ResultOf(e, size))
                IN  [r EXCEPT !.pushed = <<>>, !.args = <<>>]
          [] c.inst = "RET" -> [m EXCEPT !.returned = IF p1.kind = "None" THEN <<>> ELSE ValueOf(m, p1)]
-----------------------------------------------------------------------------
Machine(roots) ==
    [reg |-> [r \in roots |-> Junk(<<"entry", r>>)],
     mem |-> FoldSet(LAMBDA a, known : [x \in a .. a + 7 |-> Ints(KnownConstants[a], 8)[x - a + 1]] @@ known,
                     <<>>, DOMAIN KnownConstants),
     flags |-> <<"junk">>, pushed |-> <<>>, args |-> <<>>, events |-> <<>>, returned |-> <<>>, aligned |-> TRUE]
Arg(j) == Fresh(<<"arg", j>>, SizeOf[fn.intro[j].type])
IntroTypes == [j \in DOMAIN fn.intro |-> fn.intro[j].type]

(* The ideal machine finds parameters in their variables. *)
IdealEntry ==
    FoldLeft(LAMBDA m, j : Store(m, LocalBase + fn.intro[j].offset, Arg(j)), Machine({}), [j \in DOMAIN fn.intro |-> j])
=============================================================================
