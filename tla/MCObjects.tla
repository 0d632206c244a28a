----------------------------- MODULE MCObjects -----------------------------
(***************************************************************************)
(* Declarations for Objects: two variables of a type, and where statements  *)
(* need one, a variable of its element type.                                *)
(***************************************************************************)
EXTENDS Objects

MCKeys == 1..2

Two(t, x) == <<t, t>> \o x

Lists == {Two(List(t), <<t>>) : t \in {I32, String, List(I32), Shared, Owned}}
         \cup {<<List(Optional(I32)), Optional(I32), I32>>}
Maybe == {Two(Optional(t), <<t>>) : t \in {I32, String, List(I32), Shared}}
         \cup {Two(Optional(Optional(String)), <<Optional(String), String>>)}
Results == {Two(Result(t), <<t>>) : t \in {I32, String, List(I32)}}
Dicts == {Two(Dict(I32), <<I32>>)}
Composed == {Two(Product(<<I32, String>>), <<I32, String>>), Two(Array(String, 2), <<String>>),
             Two(Product(<<Optional(String), List(I32)>>), <<Optional(String), String>>)}
Pointing == {<<Shared, Shared, Shared>>, <<Owned, Owned>>}

PassingDeclarations == Lists \cup Maybe \cup Results \cup Dicts \cup Composed \cup Pointing
=============================================================================
