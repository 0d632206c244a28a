------------------------- MODULE MCCompiledFunction -------------------------
(***************************************************************************)
(* Functions for CompiledFunction: small statements of every kind, alone,   *)
(* in sequence, and inside of branches, loops and handlers.                 *)
(***************************************************************************)
EXTENDS CompiledFunction

a == Local(1, "obj")
b == Local(2, "obj")
i == Local(3, "int")
w == Local(4, "chunk")

Make == Call("make", <<>>, "obj")
F == Call("f", <<i>>, "int")
Cond == Call("cond", <<a>>, "bool")
Less == Compare("less", i, F)
Use(e) == Call("use", <<e>>, "void")
Constructor(args) == Node("constructor", "", args, "obj")
List(args) == Node("array", "", args, "obj")
IfThen(c, s) == Node("if", "", <<c, s>>, "void")
IfElse(c, s, r, t) == Node("if", "", <<c, s, r>>, t)
While(c, s) == Statement("while", <<c, s>>)
For(array, s) == [Statement("for", <<array, s>>) EXCEPT !.v = 5]
Try(s, v, handler) == [Statement("try", <<s, handler>>) EXCEPT !.v = v]
Raise(e) == Statement("raise", <<e>>)
Match(args, t) == Node("match", "", args, t)
Group(args, t) == Node("group", "", args, t)
Do(ss) == Block(<<>>, ss, "void")
Value(ss, e) == Block(<<>>, ss \o <<e>>, e.t)

(* e! inside of a try: e goes into a hidden variable of its block; if there is
   no value, an error is raised. *)
Definitely(e) ==
    LET cached == Local(8, "int")
    IN Group(<<Assign(8, "int", e), IfThen(Call("missing", <<cached>>, "bool"), Do(<<Raise(cached)>>)), cached>>, "int")

Simple == {
    Assign(3, "int", F),
    Assign(1, "obj", Make),
    Use(Constructor(<<F>>)),
    Use(Make) }

Valued == {
    Use(List(<<i, F>>)),
    Use(Less),
    Use(Match(<<F, a, b>>, "obj")),
    Assign(4, "chunk", Call("wide", <<w, F>>, "chunk")),
    Assign(4, "chunk", w),
    Assign(3, "int", IfElse(Cond, i, F, "int")),
    Assign(3, "int", IfElse(Less, Value(<<Use(Make)>>, F), Value(<<>>, i), "int")),
    Assign(1, "obj", IfElse(Less, Value(<<>>, a), Value(<<Assign(2, "obj", Make)>>, b), "obj")),
    Assign(3, "int", Match(<<F, i, Call("g", <<i>>, "int"), F>>, "int")),
    Use(Constructor(<<Call("length", <<Make>>, "int")>>)) }

Inside == Simple \cup Valued

Own == <<Variable(6, "obj"), Variable(7, "obj")>>
OwnUses == <<Assign(6, "obj", Make), Use(Local(6, "obj"))>>

(* Bodies of branches and loops: with objects of their own, or with jumps
   past statements that have none yet. *)
Bodies == {Do(<<s>>) : s \in Inside} \cup {Block(Own, OwnUses \o <<s>>, "void") : s \in Simple}
JumpBodies == {Do(<<IfThen(c, Do(<<Statement(k, <<>>)>>)), s>>) :
                  c \in {Cond, Less}, k \in {"break", "continue"}, s \in Simple}

Compound ==
    {IfThen(c, s) : c \in {Cond, Less}, s \in Bodies}
    \cup {IfElse(Cond, Do(<<s>>), Block(Own, OwnUses, "void"), "void") : s \in Inside}
    \cup {While(c, s) : c \in {Cond, Less}, s \in Bodies \cup JumpBodies}
    \cup {For(array, s) : array \in {a, Make, List(<<i>>)}, s \in Bodies \cup JumpBodies}
    \cup {Try(Do(<<Assign(1, "obj", Make), Use(Definitely(F)), s>>), 3, Do(<<Use(i)>>)) : s \in Simple}
    \cup {While(Cond, Do(<<For(a, s)>>)) : s \in JumpBodies}

Function(body, result, t) ==
    [body |-> Block((IF t = "obj" THEN <<Variable(ReturnVar, "obj")>> ELSE <<>>)
                        \o <<Variable(1, "obj"), Variable(2, "obj"), Variable(3, "int"), Variable(4, "chunk")>>,
                    <<Assign(3, "int", Call("first", <<>>, "int")), Assign(4, "chunk", Call("wide", <<>>, "chunk"))>>
                        \o body \o result, "void"),
     t |-> t]

Ends == { <<<<>>, "void">>, <<<<Statement("return", <<a>>)>>, "obj">>,
          <<<<Statement("return", <<i>>)>>, "int">> }

(* Loops and handlers in each other: raises and jumps that leave both. *)
Failing == Use(Definitely(F))
Handler == Do(<<Use(i)>>)
Nested ==
    {Try(Do(<<For(a, Do(<<Failing, s>>))>>), 3, Handler) : s \in Simple}
    \cup {While(Less, Do(<<Try(Do(<<IfThen(Cond, Do(<<Statement(k, <<>>)>>)), Failing>>), 3, Handler), s>>)) :
             k \in {"break", "continue"}, s \in Simple}
    \cup {Try(Do(<<Try(Do(<<Failing>>), 3, Do(<<s, Failing>>)), s>>), 3, Handler) : s \in Simple \ {Use(Constructor(<<F>>))}}
    \cup {IfElse(Less, Do(<<While(Cond, s)>>), Do(<<For(Make, s)>>), "void") : s \in JumpBodies}

(* Returns from inside of blocks, in functions without objects of their own. *)
PlainFunction(body) ==
    [body |-> Block(<<Variable(3, "int"), Variable(4, "chunk")>>, <<Assign(3, "int", F)>> \o body, "void"),
     t |-> "int"]
ReturnI == IfThen(Less, Do(<<Statement("return", <<i>>)>>))
Leaving == {ReturnI, While(Less, Do(<<ReturnI, Assign(3, "int", F)>>)),
            While(Less, Do(<<Try(Do(<<Failing, ReturnI>>), 3, Do(<<ReturnI>>))>>)),
            IfElse(Less, Do(<<ReturnI, Failing>>), Do(<<ReturnI>>), "void")}

SafePrograms ==
    {Function(<<s>>, <<>>, "void") : s \in Compound \cup Nested}
    \cup {Function(<<s, r>>, e[1], e[2]) : s \in Inside, r \in Simple, e \in Ends}
    \cup {PlainFunction(<<s, Assign(4, "chunk", Call("wide", <<i>>, "chunk")), Statement("return", <<F>>)>>) :
              s \in Leaving \ {IfElse(Less, Do(<<ReturnI, Failing>>), Do(<<ReturnI>>), "void")}}

(* optional |> mapped: try_build_pipe_map_optional_unwrap *)
PipeMap ==
    Block(<<>>, <<Assign(2, "obj", Make),
                  IfElse(Call("has value", <<b>>, "bool"), Constructor(<<Call("mapped", <<b>>, "int")>>),
                         Constructor(<<>>), "obj")>>, "obj")
PipePrograms ==
    {Function(<<Assign(1, "obj", PipeMap), s>>, <<>>, "void") : s \in Inside}
    \cup {Function(<<IfThen(Less, Do(<<s, Assign(1, "obj", PipeMap)>>))>>, <<>>, "void") : s \in Simple}

(* A pipeline calls the mapped function only on a value that exists: the doc
   says it bypasses none-values.  In the code the constructor call around it
   is inserted before the whole `if`, and the call goes with it. *)
NoneBypassed ==
    \A j \in DOMAIN trace :
        trace[j].f = "mapped" =>
            \E h \in 1 .. j - 1 : trace[h].f = "has value" /\ trace[h].val = 1

(* Known differences, one set for each; CompiledFunction's invariants fail
   with Programs set to them.
   Objects a jump leaves behind: insert_destructors_block(block, true) ignores
   `recursive`, break, continue and raise destruct nothing (Lifetimes,
   NothingLeft). *)
JumpPrograms ==
    {Function(<<IfThen(Less, Do(<<Statement("return", <<>>)>>))>>, <<>>, "void"),
     Function(<<While(Less, Block(Own, OwnUses \o <<IfThen(Less, Do(<<Statement("break", <<>>)>>))>>, "void"))>>,
              <<>>, "void"),
     Function(<<Try(Block(Own, OwnUses \o <<Failing>>, "void"), 3, Handler)>>, <<>>, "void"),
     Function(<<>>, <<Statement("return", <<Call("length", <<Make>>, "int")>>)>>, "int")}

(* Temporaries of code that runs more than once, or not at all, destructed
   where it was generated: conditions of loops, values of branches. *)
TemporaryPrograms ==
    {Function(<<While(Call("test", <<Make>>, "bool"), Do(<<Use(i)>>))>>, <<>>, "void"),
     Function(<<Assign(1, "obj", IfElse(Less, Value(<<>>, Make), Value(<<>>, Make), "obj"))>>, <<>>, "void"),
     Function(<<Assign(1, "obj", Match(<<F, Make, Make>>, "obj"))>>, <<>>, "void")}

(* Hidden variables filled before the statement although the expression stands
   in a condition that is evaluated again, or behind other calls. *)
HoistedPrograms ==
    {Function(<<While(Call("test", <<Constructor(<<F>>)>>, "bool"), Do(<<Use(i)>>))>>, <<>>, "void"),
     Function(<<Call("use both", <<F, Constructor(<<Call("g", <<i>>, "int")>>)>>, "void")>>, <<>>, "void")}

(* `raise` of a call, with a handler that has no variable: not evaluated. *)
RaisePrograms ==
    {PlainFunction(<<Try(Do(<<Raise(F)>>), 0, Handler), Statement("return", <<i>>)>>)}

(* A comparison nobody uses before a test of a variable: the test is fused
   with the comparison. *)
FusedPrograms ==
    {PlainFunction(<<Less, IfThen(i, Do(<<Use(i)>>)), Statement("return", <<F>>)>>)}
=============================================================================
