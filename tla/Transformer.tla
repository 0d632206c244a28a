---------------------------- MODULE Transformer ----------------------------
(***************************************************************************)
(* The syntax tree of a function after type checking, and what             *)
(* parser/Transformer.cpp makes of it before the Serializer sees it.       *)
(*                                                                         *)
(* Expressions that need an object of their own (constructor calls, array  *)
(* literals), loops over a collection and `match` are broken down: the     *)
(* object becomes a hidden variable of the enclosing block, and the        *)
(* commands that fill it are inserted before the statement being           *)
(* transformed (_transform_insert_before_).                                *)
(***************************************************************************)
EXTENDS Integers, Sequences, SequencesExt

(* Types: "int" for whatever fits a register, "chunk" for larger plain data,
   "obj" for classes with constructor, destructor and assignment. *)
Types == {"void", "bool", "int", "chunk", "obj"}

(* A node: its kind, the function called, the variable named, its parameters,
   its type and, for a block, its variables. *)
Node(k, f, args, t) ==
    [k |-> k, f |-> f, v |-> 0, args |-> args, t |-> t, vars |-> <<>>]

Local(v, t) == [Node("local", "", <<>>, t) EXCEPT !.v = v]
Call(f, args, t) == Node("call", f, args, t)
Compare(f, a, b) == Node("inline", f, <<a, b>>, "bool")
Assign(v, t, e) == Node("assign", "assign", <<Local(v, t), e>>, "void")
Statement(k, args) == Node(k, "", args, "void")
Block(vars, args, t) == [Node("block", "", args, t) EXCEPT !.vars = vars]

(* A variable of a block; an explicitly constructed one gets no constructor
   call at the start of its block. *)
Variable(v, t) == [v |-> v, t |-> t, explicit |-> FALSE]

ReturnVar == 0      \* "-return-": where the caller wants a returned object
FirstHidden == 10   \* variables of the program are numbered below

(* node_is_executable *)
Executable(n) == n.k # "local"

(* The state of a pass over one statement: what to insert before it, the
   variables of its block, the next hidden name. *)
Pass(vars, next) == [pre |-> <<>>, vars |-> vars, next |-> next]

WithVar(st, t, explicit) ==
    [st EXCEPT !.vars = Append(@, [v |-> st.next, t |-> t, explicit |-> explicit]),
               !.next = @ + 1]

(* _transform_insert_before_.add *)
InsertBefore(st, n) == [st EXCEPT !.pre = Append(@, n)]

(* A constructor call as an expression: T(args). *)
BreakDownConstructor(n, st) ==
    LET hidden == Local(st.next, "obj")
    IN [n |-> hidden,
        st |-> InsertBefore(WithVar(st, "obj", TRUE),
                            Call("construct", <<hidden>> \o n.args, "void"))]

(* An array literal: [args]. *)
BreakDownArray(n, st) ==
    LET hidden == Local(st.next, "obj")
        adds == [i \in DOMAIN n.args |-> Call("add", <<hidden, n.args[i]>>, "void")]
    IN [n |-> hidden,
        st |-> InsertBefore(WithVar(st, "obj", FALSE), Block(<<>>, adds, "void"))]

(* `for n.v in array`: the array goes into a variable unless it is one. *)
BreakDownFor(n, st) ==
    LET src == n.args[1]
        array == IF Executable(src) THEN Local(st.next, "obj") ELSE src
        body == [n.args[2] EXCEPT
                    !.args = <<Assign(n.v, "int", Call("element", <<array>>, "int"))>> \o @]
    IN [n |-> Statement("fordigest", <<Call("start", <<>>, "void"), Call("more", <<array>>, "bool"),
                                       body, Call("step", <<>>, "void")>>),
        st |-> IF Executable(src)
               THEN InsertBefore(WithVar(st, "obj", FALSE), Assign(st.next, "obj", src))
               ELSE st]

(* `match args[1]` with the values of its cases; the last is the default.  The
   cases become a chain of if/else, none of them a block. *)
BreakDownMatch(n, st) ==
    LET temp == Local(st.next, "int")
        RECURSIVE Chain(_)
        Chain(i) == IF i = Len(n.args) THEN n.args[i]
                    ELSE Node("if", "", <<Call("equal", <<temp>>, "bool"), n.args[i], Chain(i + 1)>>, n.t)
    IN [n |-> Block(<<>>, <<Assign(st.next, "int", n.args[1]), Chain(2)>>, n.t),
        st |-> WithVar(st, "int", FALSE)]

(* conv_break_down_high_level *)
BreakDown(n, st) ==
    CASE n.k = "constructor" -> BreakDownConstructor(n, st)
      [] n.k = "array" -> BreakDownArray(n, st)
      [] n.k = "for" -> BreakDownFor(n, st)
      [] n.k = "match" -> BreakDownMatch(n, st)
      [] OTHER -> [n |-> n, st |-> st]

RECURSIVE TransformNode(_, _), TransformParams(_, _), TransformStatements(_, _, _)

(* transformb_node: parameters first, from left to right; a block collects
   its insertions itself. *)
TransformNode(n, st) ==
    IF n.k = "block"
    THEN LET b == TransformStatements(n.args, n.vars, st.next)
         IN [n |-> [n EXCEPT !.args = b.ns, !.vars = b.vars],
             st |-> [st EXCEPT !.next = b.next]]
    ELSE LET p == TransformParams(n.args, st)
         IN BreakDown([n EXCEPT !.args = p.ns], p.st)

TransformParams(ns, st) ==
    IF ns = <<>> THEN [ns |-> <<>>, st |-> st]
    ELSE LET first == TransformNode(Head(ns), st)
             rest == TransformParams(Tail(ns), first.st)
         IN [ns |-> <<first.n>> \o rest.ns, st |-> rest.st]

(* transformb_block with handle_insert_before *)
TransformStatements(ns, vars, next) ==
    IF ns = <<>> THEN [ns |-> <<>>, vars |-> vars, next |-> next]
    ELSE LET first == TransformNode(Head(ns), Pass(vars, next))
             rest == TransformStatements(Tail(ns), first.st.vars, first.st.next)
         IN [rest EXCEPT !.ns = first.st.pre \o <<first.n>> \o @]

RECURSIVE ReturnByMemory(_)

(* conv_return_by_memory: `return e` of an object assigns e to *-return-. *)
ReturnByMemory(n) ==
    LET Converted(c) ==
            IF c.k = "return" /\ c.args # <<>>
            THEN <<Assign(ReturnVar, "obj", c.args[1]), Statement("return", <<>>)>>
            ELSE <<ReturnByMemory(c)>>
    IN IF n.k = "block"
       THEN [n EXCEPT !.args = FlattenSeq([i \in DOMAIN n.args |-> Converted(n.args[i])])]
       ELSE [n EXCEPT !.args = [i \in DOMAIN n.args |-> ReturnByMemory(n.args[i])]]

(* fully_transform of a function with the given body and return type. *)
Transformed(body, t) ==
    LET broken == TransformNode(body, Pass(<<>>, FirstHidden)).n
    IN IF t = "obj" THEN ReturnByMemory(broken) ELSE broken
=============================================================================
