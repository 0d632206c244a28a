---------------------------- MODULE ObjectTypes ----------------------------
(***************************************************************************)
(* What a program may expect of the values of list, dictionary, optional,   *)
(* result, product, array and pointer types: statements on variables, and   *)
(* the values the variables have afterwards.  Nothing here knows of memory. *)
(*                                                                         *)
(* A type is a kind and its parameters: Type("list", <<Int>>) is i32[].     *)
(* A value is a kind, a number, and the values it is made of.               *)
(***************************************************************************)
EXTENDS Integers, SequencesExt

CONSTANTS Numbers, Keys, MaxLen
ASSUME ObjectConstants == /\ IsFiniteSet(Numbers) /\ Numbers \subseteq Nat \ {0}
                          /\ IsFiniteSet(Keys) /\ Keys \subseteq Nat \ {0}
                          /\ MaxLen \in Nat

Type(k, of) == [k |-> k, of |-> of]
I32 == Type("int", <<>>)
String == Type("string", <<>>)
List(t) == Type("list", <<t>>)
Dict(t) == Type("dict", <<t>>)
Optional(t) == Type("optional", <<t>>)
Result(t) == Type("result", <<t>>)
Product(ts) == Type("product", ts)
Array(t, n) == Type("array", [i \in 1..n |-> t])
Shared == Type("shared", <<>>)
Owned == Type("owned", <<>>)
Xfer == Type("xfer", <<>>)

Pointers == {Shared, Owned}
Content(t) == t.of[1]

Plain(t) == t.k \in {"int", "xfer"}

(* Values.  A list has the values of its elements, a dictionary one optional
   value for every key, an optional the value it has, if any; a result has its
   state as number; a pointer the name of its object, or 0. *)
Val(k, v, of) == [k |-> k, v |-> v, of |-> of]
None == Val("optional", 0, <<>>)
Some(x) == Val("optional", 1, <<x>>)

RECURSIVE Default(_)
Default(t) ==
    CASE t.k \in {"product", "array"} -> Val(t.k, 0, [i \in DOMAIN t.of |-> Default(t.of[i])])
      [] t.k = "dict" -> Val("dict", 0, [i \in Keys |-> None])
      [] OTHER -> Val(t.k, 0, <<>>)

(* The elements of a list or dictionary, or the value of an optional, and
   everything inside of them. *)
RECURSIVE Within(_)
Within(x) == {x} \cup UNION {Within(x.of[i]) : i \in DOMAIN x.of}

(* Objects some pointer among the values points to. *)
Named(values) == {x.v : x \in {y \in UNION {Within(values[i]) : i \in DOMAIN values} :
                               y.k \in {"shared", "owned"}}} \ {0}

(* Self-assignment keeps a value of this type.  For pointers, dictionaries,
   and optionals of managed values it does not. *)
RECURSIVE SelfAssignable(_)
SelfAssignable(t) ==
    /\ t.k \notin {"shared", "owned", "dict"}
    /\ t.k = "optional" => Plain(Content(t))
    /\ \A i \in DOMAIN t.of : SelfAssignable(t.of[i])

RECURSIVE Copyable(_)
Copyable(t) == t # Owned /\ \A i \in DOMAIN t.of : Copyable(t.of[i])

(* Types with ==, and with an == that compares what they contain. *)
RECURSIVE Comparable(_)
Comparable(t) ==
    /\ t.k \notin {"dict", "array", "owned"}
    /\ t.k \in {"list", "product"} => \A i \in DOMAIN t.of : t.of[i].k # "product"
    /\ \A i \in DOMAIN t.of : Comparable(t.of[i])

(* Equal values; all errors are alike. *)
RECURSIVE Same(_, _)
Same(x, y) ==
    IF x.k = "result" /\ x.v # 1 THEN x.v = y.v
    ELSE /\ x.k = y.k /\ x.v = y.v /\ DOMAIN x.of = DOMAIN y.of
         /\ \A i \in DOMAIN x.of : Same(x.of[i], y.of[i])

(***************************************************************************)
(* Statements on the variables u, w of a declaration.                       *)
(***************************************************************************)
St(op, u, w, n) == [op |-> op, u |-> u, w |-> w, n |-> n]

Of(decl, kinds) == {u \in DOMAIN decl : decl[u].k \in kinds}

(* u = w *)
Assignments(decl) ==
    UNION {LET same == {w \in DOMAIN decl : decl[w] = decl[u] /\ (u = w => SelfAssignable(decl[u]))}
           IN {St("assign", u, w, 0) : w \in same}
           : u \in {u \in DOMAIN decl : Copyable(decl[u])}}

(* u = n, u = nil or none, u = w for an optional of w's type,
   u = ok(w) and u = error(n) for a result *)
Settings(decl) ==
    {St("set", u, u, n) : u \in Of(decl, {"int", "string"}), n \in Numbers}
    \cup {St("none", u, u, 0) : u \in Of(decl, {"optional", "shared", "owned"})}
    \cup {St("error", u, u, n) : u \in Of(decl, {"result"}), n \in Numbers}
    \cup UNION {{St("value", u, w, 0) : w \in {w \in DOMAIN decl : Content(decl[u]) = decl[w]}} :
                u \in Of(decl, {"optional", "result"})}

(* u.e_n = w and w = u.e_n *)
Parts(decl) ==
    UNION {UNION {{St("set part", u, w, n), St("get part", w, u, n)} :
                  n \in {n \in DOMAIN decl[u].of : decl[u].of[n] = decl[w]}} :
           u \in Of(decl, {"product", "array"}), w \in DOMAIN decl}

(* u.add(w), u.remove(n), u.resize(n), u.clear(), u |= w, u = w | n, w = u[n] *)
ListStatements(decl) ==
    UNION {LET t == decl[u]
               same == {w \in DOMAIN decl : decl[w] = t /\ Copyable(t)}
               elements == {w \in DOMAIN decl : decl[w] = Content(t)}
           IN {St("add", u, w, 0) : w \in elements}
              \cup {St("get", w, u, n) : w \in {w \in elements : Copyable(decl[w])}, n \in 1..MaxLen}
              \cup {St("remove", u, u, n) : n \in 1..MaxLen}
              \cup {St("resize", u, u, n) : n \in 0..MaxLen}
              \cup {St("clear", u, u, 0)}
              \cup {St("join into", u, w, 0) : w \in same \ {u}}
              \cup {St("join", u, w, n) : w \in same, n \in same}
              \cup IF Content(t) = Owned THEN {St("give", u, w, 0) : w \in {w \in DOMAIN decl : decl[w] = t}} ELSE {}
           : u \in Of(decl, {"list"})}

(* u[n] = w, w = u[n], u.clear() *)
DictStatements(decl) ==
    UNION {LET elements == {w \in DOMAIN decl : decl[w] = Content(decl[u])}
           IN {St("set key", u, w, n) : w \in elements, n \in Keys}
              \cup {St("get key", w, u, n) : w \in elements, n \in Keys}
              \cup {St("clear", u, u, 0)}
           : u \in Of(decl, {"dict"})}

(* u = new C(n), u = give(w) *)
PointerStatements(decl) ==
    {St("new", u, u, n) : u \in Of(decl, {"shared", "owned"}), n \in Numbers}
    \cup {St("give", u, w, 0) : u \in Of(decl, {"owned"}), w \in Of(decl, {"owned"})}

(* The block of u ends, and is entered again.  (A plain number would keep
   whatever its memory holds.) *)
Redeclarations(decl) ==
    {St("declare", u, u, 0) : u \in {u \in DOMAIN decl : ~Plain(decl[u]) /\ (decl[u].k = "product" =>
                                                            \A i \in DOMAIN decl[u].of : ~Plain(decl[u].of[i]))}}

(* What the statement needs of the values: an index in range, a key that is
   there, and lists within the bound. *)
Allowed(s, old) ==
    LET u == old[s.u]
        w == old[s.w]
    IN CASE s.op = "add" -> Len(u.of) < MaxLen
         [] s.op = "get" -> s.n \in DOMAIN w.of
         [] s.op = "remove" -> s.n \in DOMAIN u.of
         [] s.op = "join into" -> Len(u.of) + Len(w.of) <= MaxLen
         [] s.op = "join" -> Len(w.of) + Len(old[s.n].of) <= MaxLen
         [] s.op = "get key" -> w.of[s.n] # None
         [] OTHER -> TRUE

Resized(x, t, n) == [x EXCEPT !.of = [i \in 1..n |-> IF i \in DOMAIN @ THEN @[i] ELSE Default(Content(t))]]

(***************************************************************************)
(* The values after the statement: those it names are set, every other      *)
(* keeps its value.                                                         *)
(***************************************************************************)
Promise(s, decl, old, new) ==
    LET Only(x) == new = [old EXCEPT ![s.u] = x]
        Moved(x) == new = [old EXCEPT ![s.w] = Default(decl[s.w]), ![s.u] = x]
        u == old[s.u]
        w == old[s.w]
        t == decl[s.u]
    IN CASE s.op = "assign" -> Only(w)
         [] s.op = "set" -> Only(Val(t.k, s.n, <<>>))
         [] s.op \in {"none", "declare", "clear"} -> Only(Default(t))
         [] s.op = "error" -> Only(Val("result", 2, <<Val("string", s.n, <<>>)>>))
         [] s.op = "value" -> Only(Val(t.k, 1, <<w>>))
         [] s.op = "set part" -> Only([u EXCEPT !.of[s.n] = w])
         [] s.op \in {"get part", "get"} -> Only(w.of[s.n])
         [] s.op = "add" /\ Content(t) # Owned -> Only([u EXCEPT !.of = Append(@, w)])
         [] s.op = "add" /\ Content(t) = Owned -> Moved([u EXCEPT !.of = Append(@, w)])
         [] s.op = "remove" -> Only([u EXCEPT !.of = RemoveAt(@, s.n)])
         [] s.op = "resize" -> Only(Resized(u, t, s.n))
         [] s.op = "join into" -> Only([u EXCEPT !.of = @ \o w.of])
         [] s.op = "join" -> Only([w EXCEPT !.of = @ \o old[s.n].of])
         [] s.op = "set key" -> Only([u EXCEPT !.of[s.n] = Some(w)])
         [] s.op = "get key" -> Only(w.of[s.n].of[1])
         [] s.op = "new" -> /\ new[s.u].v \notin {0} \cup Named(old)
                            /\ Only(Val(t.k, new[s.u].v, <<>>))
         [] s.op = "give" -> Moved(w)
=============================================================================
