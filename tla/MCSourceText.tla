---------------------------- MODULE MCSourceText ----------------------------
(***************************************************************************)
(* Programs for SourceText.                                                 *)
(***************************************************************************)
EXTENDS SourceText

(* How tokens are spelled: as their names say, but for an asm block, and with a
   string that has an escaped quote and an interpolation in it. *)
Chars(t) == [i \in 1..Len(t) |-> SubSeq(t, i, i)]
Words ==
    {"a", "b", "c", "d", "f", "g", "x", "T", "i32", "if", "else", "for", "in", "while", "match", "try", "except", "as",
     "return", "raise", "break", "continue", "pass", "new", "del", "let", "var", "lambda", "func", "raw_function_pointer",
     "trust_me", "const", "enum", "class", "struct", "interface", "namespace", "extends", "static", "extern", "mut",
     "pure", "virtual", "shared", "shared!", "macro", "use", "and", "or", "not", "is", "@compiletime", "@export",
     "12", "1.5", "2e-7", "0x1f", "\"a\\\"{{b\"c}}#\"", "'\\''"}
Symbols ==
    {"==", "!=", "<=", ">=", "+=", "-=", "*=", "/=", "++", "--", "<<", ">>", "&=", "|=", "|>", "=>", "->", ":=",
     ".", ":", ",", "+", "-", "*", "%", "/", "=", "<", ">", "^", "(", ")", "{", "}", "&", "|", "!", "[", "]",
     "\\", "?"}
MCSpelling == (Asm :> Chars("asm {\n \tmov }")) @@ [t \in Words \cup Symbols |-> Chars(t)]

Tok(t) == Node("token", t, {}, <<>>)
a == Tok("a")
b == Tok("b")
c == Tok("c")
BlockOf(of) == Of("block", of)
Func(f, name, result, params, template, body) ==
    Node("function", "", f, <<name, result, Of("list", params), template, body>>)
Main(commands) == <<Func({"static"}, Tok("f"), Nil, <<>>, Nil, BlockOf(commands))>>

(* Operators: two and three of them in all the ways they can be grouped. *)
Bin(op, l, r) == IF op = "," THEN Tuple(<<l, r>>) ELSE Operator(op, <<l, r>>)
Neg(x) == Operator("-", <<x>>)
Pairs(p, q) ==
    <<Bin(q, Bin(p, a, b), c), Bin(p, a, Bin(q, b, c)), Bin(p, Neg(a), Bin(q, b, Neg(c))),
      Neg(Bin(q, Bin(p, a, b), c)), Bin(q, Neg(Bin(p, a, b)), c), Bin(p, a, Neg(Bin(q, b, c))),
      Bin(q, Bin(p, a, Operator("not", <<b>>)), c)>>
Triples(p, q, r) ==
    <<Bin(r, Bin(q, Bin(p, a, b), c), a), Bin(r, Bin(p, a, Bin(q, b, c)), a), Bin(q, Bin(p, a, b), Bin(r, c, a)),
      Bin(p, a, Bin(r, Bin(q, b, c), a)), Bin(p, a, Bin(q, b, Bin(r, c, a)))>>
Several == {"=", "|>", "and", "==", "+", "*", "^"}
OperatorPrograms ==
    {Main(Pairs(p, q)) : p, q \in DOMAIN Level} \cup {Main(Triples(p, q, r)) : p, q, r \in Several}

(* What else an expression can be. *)
Call(f, of) == Of("call", <<f>> \o of)
Element(x, t) == Of("element", <<x, Tok(t)>>)
Slice(x, y, z) == Of("slice", <<x, y, z>>)
Lambda(of) == Of("lambda", <<Func({"static"}, Nil, Nil, <<Tok("x"), Tok("i32"), Nil>>, Nil, BlockOf(of))>>)
Operands ==
    {a, Tok("12"), Tok("1.5"), Tok("2e-7"), Tok("0x1f"), Tok("\"a\\\"{{b\"c}}#\""), Tok("'\\''"), Call(a, <<>>), Call(a, <<b, c>>),
     Call(a, <<b, Node("named parameter", "x", {}, <<c>>)>>), Element(a, "b"), Of("index", <<a, b>>),
     Of("index", <<a, Tuple(<<b, Bin("+", b, c)>>)>>), Of("index", <<a, Slice(Zero, MagicEnd, Nil)>>),
     Of("index", <<a, Slice(b, c, Nil)>>), Of("index", <<a, Slice(b, MagicEnd, c)>>), Of("definitely", <<a>>),
     Operator("++", <<a>>), Of("reference", <<a>>), Of("dereference", <<a>>), Of("array", <<>>),
     Of("array", <<a, Bin("+", b, c)>>), Of("dict", <<>>), Of("dict", <<a, b, b, c>>), Neg(a),
     Of("set builder", <<For(a, Nil, b, <<>>), c, Nil>>),
     Of("set builder", <<For(a, b, Slice(Zero, c, Nil), <<>>), Bin("*", a, a), Bin("<", a, b)>>),
     Node("new", "", {}, <<Call(a, <<b>>)>>), Node("new", "", {"shared"}, <<Call(a, <<b>>)>>), Of("del", <<a>>),
     Of("raw_function_pointer", <<a>>), Lambda(<<Bin("+", a, b)>>), Tuple(<<a, b>>), Bin("as", a, b)}
Wrapped(x) == <<x, Element(x, "b"), Call(x, <<a>>), Call(a, <<x, b>>), Of("index", <<x, a>>), Bin("*", x, a), Bin("*", a, x),
                Bin("=", a, x), Of("dereference", <<x>>), Of("array", <<x>>), Operator("not", <<x>>), Of("return", <<x>>)>>
ExpressionPrograms == {Main(Wrapped(x)) : x \in Operands}

(* Statements in each other, with a command behind. *)
If(x) == Of("if", <<a, BlockOf(x)>>)
Either(x, y) == Of("if", <<a, BlockOf(x), BlockOf(y)>>)
Loop(x) == For(b, Nil, a, <<BlockOf(x)>>)
Inner(x, y) ==
    {If(x), Either(x, y), Either(x, <<If(y)>>), Either(x, <<Either(y, x)>>), Of("if compiletime", <<a, BlockOf(x)>>),
     Loop(x), For([b EXCEPT !.f = {"mut"}], c, a, <<BlockOf(x), BlockOf(y)>>), Loop(<<Loop(x)>>),
     Of("while", <<a, BlockOf(x)>>), Of("match", <<a, b, BlockOf(x), c, BlockOf(y), Pass, BlockOf(x)>>),
     Of("try", <<BlockOf(x), Of("except", <<Nil, Nil>>), BlockOf(y)>>),
     Of("try", <<BlockOf(x), Of("except", <<b, Nil>>), BlockOf(y), Of("except", <<b, c>>), BlockOf(x)>>),
     Of("try", <<BlockOf(x)>>), Of("trust_me", <<BlockOf(x)>>), Lambda(x), Bin("=", a, Either(x, y)),
     Node("var", "", {}, <<Nil, b, Bin("=", b, Either(x, y))>>), Of("return", <<Either(x, y)>>)}
Small == Inner(<<a>>, <<b, c>>)
Leaving == {Loop(<<Of("break", <<>>), If(<<Of("continue", <<>>)>>)>>), Loop(<<Lambda(<<If(<<Of("break", <<>>)>>)>>)>>)}
StatementPrograms ==
    {Main(<<s, a>>) : s \in Small \cup Leaving \cup UNION {Inner(<<s>>, <<a>>) \cup Inner(<<a, s>>, <<s, b>>) : s \in Small}}

(* Declarations and definitions. *)
I32 == Tok("i32")
Type(k, t) == Of(k, <<t>>)
TypesOf(t) == {Type(k, t) : k \in Types \ {"callable type"}} \cup {Of("callable type", <<t, I32>>), Of("callable type", <<I32, t>>)}
SomeTypes == {I32} \cup TypesOf(I32) \cup UNION {TypesOf(t) : t \in TypesOf(I32)}
Var(f, type, name, value) == Node("var", "", f, <<type, name, Bin("=", name, value)>>)
Variable(type, value) == Node("variable", "", {"mut"}, <<b, type, value>>)
Declarations(t) ==
    <<Var({"mut"}, t, a, b), Of("group", <<Node("var", "", {"mut"}, <<t, a>>), Node("var", "", {"mut"}, <<t, b>>)>>),
      Node("var", "", {}, <<Nil, Tuple(<<a, b>>), Bin("=", Tuple(<<a, b>>), Tuple(<<b, a>>))>>), Of("asm", <<>>), Of("raise", <<a>>)>>
DeclarationPrograms ==
    {Main(Declarations(t)) \o <<Variable(t, Nil), Variable(t, a), Of("const", <<a, t, b>>),
                                Func({"static", "pure"}, a, t, <<a, t, Nil, [b EXCEPT !.f = {"mut"}], t, Bin("+", a, b), c, Nil, c>>,
                                     Nil, BlockOf(<<Pass>>))>> : t \in SomeTypes}
    \cup {Main(<<Var({}, Nil, a, b)>>) \o <<Variable(Nil, b), Of("const", <<a, Nil, b>>)>>}
ClassOf1(meta, f, parent, template, traits, of) == Node("class", "", f, <<Tok(meta), Tok("T"), parent, template, traits>> \o of)
EnumOf == Node("enum", "", {}, <<a, Nil, a, Nil, Nil, b, Bin("+", a, c), Nil, c, Nil, I32>>)
Method(f) == Func(f, Tok("g"), I32, <<>>, Nil, BlockOf(<<Of("return", <<Tok("x")>>)>>))
ClassPrograms ==
    {<<ClassOf1("class", {}, p, Nil, t, of), Of("const", <<a, Nil, b>>)>> \o Main(<<a>>) :
         p \in {Nil, b}, t \in {Nil, Of("list", <<a, b>>)},
         of \in {<<>>, <<Variable(I32, Nil)>>, <<EnumOf, Method({}), Variable(I32, a)>>, <<Method({"virtual"}), Of("use", <<a>>)>>,
                  <<ClassOf1("struct", {}, Nil, Nil, Nil, <<Variable(I32, Nil), Method({"mut"})>>), Of("const", <<a, I32, b>>)>>}}
    \cup {<<ClassOf1("interface", {}, Nil, Nil, Nil, <<Func({"virtual"}, Tok("g"), Nil, <<>>, Nil, Nil)>>),
            ClassOf1("namespace", {}, Nil, Nil, Nil, <<Method({"static"})>>),
            ClassOf1("class", {"template"}, Nil, Tok("T"), Nil, <<Variable(Tok("T"), Nil)>>), EnumOf,
            Func({"static", "template"}, Tok("g"), Nil, <<a, Tok("T"), Nil>>, Of("list", <<Tok("T"), b>>), BlockOf(<<a>>)),
            Func({"static", "extern"}, Tok("g"), I32, <<>>, Nil, Nil),
            Func({"static", "macro"}, Tok("g"), Nil, <<>>, Nil, BlockOf(<<a>>))>>}

Imports ==
    {<<Node("import", "", f, <<Of("list", x[1]), x[2]>>), Of("const", <<a, Nil, b>>)>> :
        f \in {{}, {"@export"}},
        x \in {<<<<a>>, Nil>>, <<<<a, b, c>>, Nil>>, <<<<Nil, Nil, a, b>>, Nil>>, <<<<a, Tok("*")>>, Nil>>, <<<<a, b>>, c>>}}

(* With a token missing or doubled.  (What stands behind the result of a match
   or the command of a 'try' in the same line is skipped: blocks of several
   commands, which have lines of their own.) *)
MCDamaged == {Main(<<s, a>>) : s \in Inner(<<b, c>>, <<c, a>>) \cup Leaving} \cup {Main(<<x>>) : x \in Operands}
             \cup ClassPrograms \cup {Main(Declarations(Type("optional type", I32)))}
MCPrograms == OperatorPrograms \cup ExpressionPrograms \cup StatementPrograms \cup DeclarationPrograms \cup ClassPrograms
              \cup Imports \cup MCDamaged
MCLayouts == {"plain", "tight", "spaced", "wrapped"}
=============================================================================
