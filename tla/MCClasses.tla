----------------------------- MODULE MCClasses -----------------------------
(* Classes for TLC: three types, methods, constructors and destructors. *)
EXTENDS Classes

MCNames == <<"A", "B", "C">>
MCHeaders ==
    {Header("A", meta, Nobody, Nobody) : meta \in {"trait", "struct", "class"}}
    \cup {Header("B", "struct", "A", Nobody)}
    \cup {Header("B", "class", e, Nobody) : e \in {Nobody, "A", "C"}}
    \cup {Header("C", "class", "B", "A")} \cup {Header("C", "class", e, Nobody) : e \in {Nobody, "B"}}
MCBasic == [t \in {"byte", "pointer", "list"} |->
              [size |-> CASE t = "byte" -> 1 [] t = "pointer" -> 8 [] OTHER -> 16,
               align |-> IF t = "byte" THEN 1 ELSE 8, managed |-> t = "list"]]

MCVariableLines ==
    {<<"byte", "none">>, <<"list", "assign">>, <<"list", "build">>}
    \cup {<<"A", "none">>, <<"A", "build">>, <<"B", "none">>}
FunctionLine(name, params, flags, super) ==
    [name |-> name, params |-> params, flags |-> flags, super |-> super]
Method(name, flags) == FunctionLine(name, <<>>, flags, {})
One == <<"pointer">>
MCFunctionLines ==
    <<Method("f", {}), Method("f", {"virtual"}), Method("f", {"override"}),
      FunctionLine("init", <<>>, {}, {}), FunctionLine("init", <<>>, {"override"}, {One}),
      FunctionLine("init", One, {}, {}),
      Method("delete", {"virtual"}), Method("delete", {"override"}), Method("delete", {"override", "early"})>>
=============================================================================
