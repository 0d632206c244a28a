----------------------------- MODULE MCBackend ------------------------------
(* Functions for BackendMeaning: every kind of command with operands of every
   kind, calls with every mix of parameters, and every kind of signature. *)
EXTENDS BackendMeaning

Var(n, t) == Param("VarLocal", -16 * n, 0, t, 0)
Tmp(k, t) == Param("VarTemp", k, 0, t, 0)
Ptr(k, t, shift) == Param("DereferenceVarTemp", k, 0, t, shift)
Near(t) == Param("Constant", 3000, 0, t, 0)
Far(t) == Param("Constant", 7000, 0, t, 0)
Global(t) == Param("VarGlobal", 2000, 0, t, 0)
MCFarFrom == 5000

(* Constants with a known value: two pointers, zero, and a number of 17 bits. *)
MCKnownConstants == (4000 :> HeapBase) @@ (4008 :> HeapBase + 24) @@ (4016 :> 0) @@ (4024 :> 70000)

Cmd3(inst, r, p, q) == Command(inst, r, p, q)

(* Temporaries 1 and 2 point to the heap, 3 and 4 hold values of type t. *)
Func(intro, t, ret, code) ==
    [target |-> "amd64", intro |-> intro, var_size |-> 16 * 5, temps |-> <<"ref", "ref", t, t>>, ret |-> ret, code |-> code]
Pointers == <<Cmd2("MOV", Tmp(1, "ref"), Imm("ref", HeapBase)), Cmd2("MOV", Tmp(2, "ref"), Imm("ref", HeapBase + 24))>>
Values(t) == <<Cmd2("MOV", Tmp(3, t), Var(3, t)), Cmd2("MOV", Tmp(4, t), Var(4, t))>>
Body(t, code) == Func(<<>>, t, "void", Pointers \o Values(t) \o code \o <<Cmd2("MOV", Var(5, t), Tmp(3, t))>>)
Does(t, inst, r, p, q) == Body(t, <<Cmd3(inst, r, p, q)>>)

Targets(t) == {Var(1, t), Tmp(3, t), Ptr(1, t, 8)}
Sources(t) == {Var(2, t), Tmp(4, t), Ptr(2, t, 0), Ptr(2, t, 8)}
Constants(t) == {Near(t), Far(t)}

Moves ==
    UNION {{Does(t, "MOV", r, p, NoParam) : r \in Targets(t) \cup {Ptr(1, t, 0)}, p \in Sources(t) \cup Constants(t)} :
              t \in {"u8", "i32", "i64", "struct"}}
    \cup {Does("vec4", "MOV", Var(1, "vec4"), p, NoParam) : p \in Sources("vec4")}
    \cup {Does("i32", "MOV", r, Imm("i32", 5), NoParam) : r \in Targets("i32") \cup {Global("i32")}}
    \cup {Does("i32", "MOV", r, Global("i32"), NoParam) : r \in Targets("i32")}

Conversions ==
    {Does("i64", "MOVSX", r, p, NoParam) : r \in Targets("i64"), p \in {Var(2, "i32"), Ptr(2, "i32", 8), Far("i32")}}
    \cup {Does("i32", inst, r, p, NoParam) : inst \in {"MOVSX", "MOVZX"}, r \in Targets("i32"),
                                           p \in {Var(2, "i8"), Ptr(2, "i8", 8)}}
    \cup {Does("i32", "MOVZX", r, p, NoParam) : r \in Targets("i32"), p \in {Var(2, "u8"), Ptr(2, "u8", 8)}}
    \cup {Does("i8", "MOVSX", r, p, NoParam) : r \in Targets("i8"), p \in {Var(2, "i32"), Ptr(2, "i32", 8)}}
    \cup {Does("i32", "MOVSX", r, p, NoParam) : r \in Targets("i32"), p \in {Var(2, "i64"), Ptr(2, "i64", 8)}}

Arithmetics ==
    UNION {{Does(t, inst, r, p, q) :
              inst \in IF t = "i32" THEN {"IMUL", "IDIV"} ELSE IF t = "i64" THEN {"SUB", "MODULO", "SHL"} ELSE {"AND"},
              r \in Targets(t), p \in Sources(t), q \in {Tmp(3, t), Ptr(1, t, 8), Far(t)}} : t \in {"u8", "i32", "i64"}}
    \cup {Does(t, inst, r, p, NoParam) : inst \in {"ADD", "SUB", "OR"}, t \in {"i32"},
             r \in Targets("i32"), p \in Sources("i32") \cup {Imm("i32", 1), Imm("i32", 5), Far("i32")}}
    \cup {Does("u8", "ADD", r, p, NoParam) : r \in Targets("u8"), p \in Sources("u8")}
    \cup {Does("i64", "IDIV", r, p, NoParam) : r \in Targets("i64"), p \in Sources("i64") \cup {Far("i64")}}

Comparisons ==
    UNION {{Body(t, <<Cmd2("CMP", p, q), Cmd1("SETL", Var(1, "bool"))>>) :
              p \in Targets(t), q \in Sources(t) \cup Constants(t) \cup {Imm(t, 0)}} : t \in {"bool", "i32", "ref"}}
    \cup UNION {{Body(t, <<Cmd2("FCMP", p, q), Cmd1("SETB", Var(5, "bool")), Cmd2("MOV", Var(4, "bool"), Var(5, "bool"))>>) :
              p \in Targets(t), q \in Sources(t) \cup Constants(t)} : t \in {"f32", "f64"}}

Floats ==
    UNION {{Does(t, inst, r, p, q) : inst \in {"FMUL", "FSUB"}, r \in Targets(t), p \in {Tmp(4, t), Ptr(2, t, 8), Far(t)},
                                     q \in {NoParam, Var(2, t), Ptr(1, t, 0)}} : t \in {"f32", "f64"}}
    \cup {Does("f32", "CVTSI2SS", r, p, NoParam) : r \in Targets("f32"), p \in {Var(2, "i32"), Ptr(2, "i32", 8)}}
    \cup {Does("i32", "CVTTSS2SI", r, p, NoParam) : r \in Targets("i32"), p \in {Var(2, "f32"), Ptr(2, "f32", 8), Far("f32")}}
    \cup {Does("f64", "CVTSS2SD", r, p, NoParam) : r \in Targets("f64"), p \in {Var(2, "f32"), Ptr(2, "f32", 8), Far("f32")}}
    \cup {Does("f32", "CVTSD2SS", r, p, NoParam) : r \in Targets("f32"), p \in {Var(2, "f64"), Ptr(2, "f64", 8)}}
-----------------------------------------------------------------------------
Push(p) == Cmd1("PUSH", p)
Pushes(ps) == [j \in DOMAIN ps |-> Push(ps[j])]
F == Param("Function", 1, 0, "near", 0)
G == Param("Function", 2, 0, "far", 0)
P == Tmp(4, "code_ref")
Results(t) == IF t = "void" THEN {NoParam} ELSE IF ByMemory(t) THEN {Tmp(3, t)} ELSE Targets(t)

Doing(t, code) ==
    [Func(<<>>, t, "void", Pointers \o <<Cmd2("MOV", Tmp(3, t), Var(3, t)), Cmd2("MOV", P, Var(4, "code_ref"))>> \o code
                            \o <<Cmd2("MOV", Var(5, t), Tmp(3, t))>>) EXCEPT !.temps[4] = "code_ref"]

Calling(t, f, r, ps) == Doing(t, Pushes(ps) \o <<Cmd3("CALL", r, f, NoParam)>>)

Ints6 == <<Var(2, "i32"), Ptr(2, "i64", 8), Tmp(3, "i32"), Var(1, "u8"), Ptr(1, "ref", 0), Far("i32")>>
Mixed == <<Ptr(2, "u8", 0), Var(2, "f32"), Ptr(2, "i32", 8), Near("f64"), Ptr(1, "bool", 8), Ptr(1, "f32", 0), Far("f64")>>
Eight == Ints6 \o <<Ptr(2, "i32", 8), Var(2, "u8")>>
Nine == [j \in 1 .. 9 |-> IF j % 2 = 0 THEN Ptr(1, "f32", 4) ELSE Near("f32")]
Bytes == <<Var(2, "bool"), Tmp(3, "i32"), Var(1, "i32"), Var(2, "i32"), Var(1, "u8"), Near("u8")>>
PointedByte == [Bytes EXCEPT ![5] = Ptr(1, "u8", 0)]

Calls ==
    UNION {{Calling(t, f, r, ps) : f \in {F, P}, r \in Results(t), ps \in {<<>>, <<Ptr(2, "i32", 8), Var(2, "f32")>>}} :
              t \in {"bool", "i32", "i64", "f32", "f64", "vec2", "vec3", "vec4", "struct"}}
    \cup {Calling("i32", f, r, ps) : f \in {F, G, P}, r \in {Var(1, "i32"), Ptr(1, "i32", 8)},
                                    ps \in {Ints6, Mixed, Eight, Nine, Bytes, PointedByte}}
    \cup {Calling("struct", F, Tmp(3, "struct"), Bytes)}
    \cup {Calling("struct", F, Var(1, "struct"), Ints6)}
    \cup {Doing("i32", Pushes(Eight) \o <<Cmd3("CALL", Var(1, "i32"), F, NoParam)>>
                       \o Pushes(<<Var(1, "i32"), Tmp(3, "i32")>>) \o <<Cmd3("CALL", Tmp(3, "i32"), G, NoParam)>>)}

AddressTaking ==
    {Doing("struct", <<Cmd2("LEA", Tmp(1, "ref"), p), Push(Tmp(1, "ref")), Push(Tmp(2, "ref")), Cmd3("CALL", NoParam, F, NoParam)>>) :
        p \in {Var(1, "struct"), Tmp(3, "struct")}}
    \cup {Doing("i32", <<Cmd2("LEA", Tmp(1, "ref"), Tmp(3, "i32")), Cmd2("MOV", Ptr(1, "i32", 0), Var(1, "i32"))>>)}

Returns ==
    UNION {{Func(<<>>, t, t, Pointers \o Values(t) \o <<Cmd1("RET", p)>>) : p \in Sources(t) \cup Constants(t)} :
              t \in {"bool", "i32", "i64", "f32", "f64", "vec2", "vec3", "vec4"}}

Signatures == {
    <<"i32">>, <<"u8", "i8">>, <<"f32", "f64", "i64", "bool">>, <<"ref", "u8", "i32">>,
    <<"i32", "i64", "u8", "i32", "u8", "bool", "i32", "u8">>,
    <<"f32", "f32", "f32", "f32", "f64", "f32", "f32", "f32", "f32", "i32">> }
Intros ==
    {Func([j \in DOMAIN ts |-> [type |-> ts[j], offset |-> -8 * j]], "i32", "void", <<Cmd1("RET", NoParam)>>) : ts \in Signatures}

MCFunctions ==
    Moves \cup Conversions \cup Arithmetics \cup Comparisons \cup Floats \cup Calls \cup AddressTaking \cup Returns \cup Intros

-----------------------------------------------------------------------------
(* The same functions for ARM64: variables are above the stack pointer, and
   pointers are constants. *)
ArmParam(f, p) ==
    IF p.kind = "VarLocal" THEN [p EXCEPT !.p = @ + f.var_size]
    ELSE IF p.kind = "Immediate" /\ p.type = "ref" /\ p.p >= HeapBase
    THEN Param("Constant", IF p.p = HeapBase THEN 4000 ELSE 4008, 0, "ref", 0)
    ELSE p
ForArm(f) ==
    [f EXCEPT !.target = "arm64",
              !.intro = [j \in DOMAIN @ |-> [@[j] EXCEPT !.offset = @ + f.var_size]],
              !.code = [i \in DOMAIN @ |-> [@[i] EXCEPT !.p = [k \in 1 .. 3 |-> ArmParam(f, f.code[i].p[k])]]]]

(* Variables behind n bytes of others. *)
Deeper(f, n) ==
    [f EXCEPT !.var_size = @ + n,
              !.code = [i \in DOMAIN @ |-> [@[i] EXCEPT !.p = [k \in 1 .. 3 |->
                            IF f.code[i].p[k].kind = "VarLocal" THEN [f.code[i].p[k] EXCEPT !.p = @ + n] ELSE f.code[i].p[k]]]]]

Known(t) == {Param("Constant", a, 0, t, 0) : a \in {4016, 4024}}
ArmMoves ==
    Moves
    \cup UNION {{Does(t, "MOV", r, p, NoParam) : r \in Targets(t), p \in Known(t)} : t \in {"i32", "i64"}}
    \cup {Does("struct", "MOV", r, ParamShift(p, 4, "vec2"), NoParam) :
             r \in {Var(1, "vec2"), Ptr(1, "vec2", 8), ParamShift(Tmp(3, "struct"), 4, "vec2")}, p \in Sources("struct")}

ArmArithmetics ==
    {f \in Arithmetics : \A i \in DOMAIN f.code : f.code[i].inst # "MODULO"}
    \cup {Does("i32", "MODULO", r, p, q) : r \in Targets("i32"), p \in Sources("i32"), q \in {Tmp(3, "i32"), Far("i32"), NoParam}}

ArmComparisons ==
    {f \in Comparisons : f.temps[3] # "bool"}
    \cup UNION {{Body("i32", <<Cmd2("CMP", p, q), Cmd1(inst, Var(1, "bool"))>>) :
              p \in Targets("i32"), q \in {Ptr(2, "i32", 8), Near("i32"), Imm("i32", 0)}} :
              inst \in {"SETZ", "SETNZ", "SETL", "SETLE", "SETNL", "SETNLE"}}
    \cup UNION {{Body("u8", <<Cmd2("CMP", p, q), Cmd1(inst, Ptr(2, "bool", 12))>>) :
              p \in Targets("u8"), q \in {Ptr(2, "u8", 8), Near("u8")}} : inst \in {"SETZ", "SETB", "SETNBE"}}

ArmInts8 == <<Var(2, "i32"), Ptr(2, "i64", 8), Tmp(3, "i32"), Var(1, "u8"), Ptr(1, "ref", 0), Var(3, "i32"), Var(2, "bool"), Far("u8")>>
ArmCalls ==
    {f \in Calls : /\ \A i \in DOMAIN f.code : f.code[i].inst = "PUSH" => f.code[i].p[1] # Far("i32")
                   /\ Cardinality({i \in DOMAIN f.code : f.code[i].inst = "PUSH"}) # Len(Nine)}
    \cup {Calling("i32", f, r, ps) : f \in {F, G, P}, r \in {Var(1, "i32"), Ptr(1, "i32", 8)}, ps \in {ArmInts8, Mixed}}

(* Bytes cannot be reached there. *)
ArmDeep ==
    {Deeper(ForArm(Calling("i32", P, Var(1, "i32"), Mixed)), n) : n \in {424, 440, 4000, 8000}}
    \cup {Deeper(ForArm(Does("u8", "MOV", Var(1, "u8"), Ptr(2, "u8", 8), NoParam)), n) : n \in {424, 440}}

MCArmFunctions ==
    {ForArm(f) : f \in ArmMoves \cup Conversions \cup ArmArithmetics \cup ArmComparisons \cup Floats \cup ArmCalls
                        \cup AddressTaking \cup Returns \cup Intros}
    \cup ArmDeep

(* i *= 10 *)
ImulInPlace ==
    {Does("i32", "IMUL", r, p, NoParam) : r \in Targets("i32"), p \in Sources("i32") \cup Constants("i32")}
NoFunctions == {}
=============================================================================
