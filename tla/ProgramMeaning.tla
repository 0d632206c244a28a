--------------------------- MODULE ProgramMeaning ---------------------------
(***************************************************************************)
(* What a function of the language does, read off its syntax tree as the   *)
(* language documents it: expressions from left to right, statements in    *)
(* order, a branch only if its condition says so.  This is the reference   *)
(* for the Transformer and the Serializer.                                 *)
(*                                                                         *)
(* A function is known by the calls it makes: the trace of events, each    *)
(* with the values of its arguments.  A call that returns a bool answers   *)
(* what `outcomes` says next; any other call returns a value of its own.   *)
(***************************************************************************)
EXTENDS Transformer

Event(f, args, t, val) == [f |-> f, args |-> args, t |-> t, val |-> val]

(* A run so far: variables, events, outcomes left, whether it goes on, and
   the value of the last expression. *)
Start(outcomes) ==
    [env |-> [v \in 0 .. 30 |-> 0], trace |-> <<>>, outcomes |-> outcomes, sig |-> "go", val |-> 0]

Called(r, f, args, t) ==
    IF t = "bool"
    THEN IF r.outcomes = <<>> THEN [r EXCEPT !.sig = "wait"]
         ELSE [r EXCEPT !.trace = Append(@, Event(f, args, t, Head(r.outcomes))),
                        !.outcomes = Tail(@), !.val = Head(r.outcomes)]
    ELSE [r EXCEPT !.trace = Append(@, Event(f, args, t, Len(r.trace) + 1)),
                   !.val = Len(r.trace) + 1]

RECURSIVE Run(_, _), RunAll(_, _), RunParams(_, _, _), RunAdds(_, _, _), Loop(_, _), Cases(_, _, _)

(* Statements in order; the value is that of the last one. *)
RunAll(ns, r) == IF ns = <<>> \/ r.sig # "go" THEN r ELSE RunAll(Tail(ns), Run(Head(ns), r))

(* Arguments in order, and their values. *)
RunParams(ns, r, vals) ==
    IF ns = <<>> THEN [r |-> r, vals |-> vals]
    ELSE LET first == Run(Head(ns), r) IN RunParams(Tail(ns), first, Append(vals, first.val))

Then(r, next) == IF r.sig = "go" THEN next ELSE r

(* The elements of an array literal are added to it one after the other. *)
RunAdds(ns, r, array) ==
    IF ns = <<>> \/ r.sig # "go" THEN [r EXCEPT !.val = array]
    ELSE LET element == Run(Head(ns), r)
             added == Then(element, Called(element, "add", <<array, element.val>>, "void"))
         IN RunAdds(Tail(ns), added, added.val)

(* args: the test before every round, the body, what follows the body. *)
Loop(args, r) ==
    LET test == Run(args[1], r)
        body == Run(args[2], test)
        round == IF body.sig = "continue" THEN [body EXCEPT !.sig = "go"] ELSE body
        next == RunAll(SubSeq(args, 3, Len(args)), round)
    IN IF test.sig # "go" \/ test.val = 0 THEN test
       ELSE IF body.sig = "break" THEN [body EXCEPT !.sig = "go"]
       ELSE IF next.sig # "go" THEN next ELSE Loop(args, next)

(* The first case that equals the value, or the last one. *)
Cases(ns, r, val) ==
    IF Len(ns) = 1 THEN Run(ns[1], r)
    ELSE LET test == Called(r, "equal", <<val>>, "bool")
         IN Then(test, IF test.val # 0 THEN Run(ns[1], test) ELSE Cases(Tail(ns), test, val))

RunIf(n, r) ==
    LET test == Run(n.args[1], r)
    IN Then(test, IF test.val # 0 THEN Run(n.args[2], test)
                  ELSE IF Len(n.args) = 3 THEN Run(n.args[3], test) ELSE test)

(* A collection that is not a variable is evaluated once; an element is
   fetched every round. *)
RunFor(n, r) ==
    LET array == Run(n.args[1], r)
        begun == [array EXCEPT !.env[FirstHidden + n.v] = array.val]
        stored == IF Executable(n.args[1]) THEN Local(FirstHidden + n.v, "obj") ELSE n.args[1]
    IN Then(array, Loop(<<Call("more", <<stored>>, "bool"),
                          Node("group", "", <<Assign(n.v, "int", Call("element", <<stored>>, "int")),
                                              n.args[2]>>, "void"),
                          Call("step", <<>>, "void")>>,
                        Called(begun, "start", <<>>, "void")))

RunReturn(n, r) ==
    LET p == RunParams(n.args, r, <<>>)
    IN Then(p.r, [Called(p.r, "return", p.vals, "void") EXCEPT !.sig = "return"])

RunTry(n, r) ==
    LET body == Run(n.args[1], r)
    IN IF body.sig # "raise" THEN body
       ELSE Run(n.args[2], [body EXCEPT !.sig = "go", !.env[n.v] = body.val])

RunCall(n, r) ==
    LET p == RunParams(n.args, r, <<>>)
    IN Then(p.r, CASE n.k = "assign" -> [p.r EXCEPT !.env[n.args[1].v] = p.r.val]
                   [] n.k = "constructor" -> Called(p.r, "construct", p.vals, "obj")
                   [] OTHER -> LET c == Called(p.r, n.f, p.vals, n.t)
                               IN IF n.t = "void" THEN [c EXCEPT !.val = 0] ELSE c)

Run(n, r) ==
    IF r.sig # "go" THEN r
    ELSE CASE n.k = "local" -> [r EXCEPT !.val = r.env[n.v]]
           [] n.k \in {"block", "group"} ->
                RunAll(n.args, [r EXCEPT !.env = [v \in DOMAIN @ |->
                    IF \E i \in DOMAIN n.vars : n.vars[i].v = v /\ n.vars[i].t = "obj" THEN 0 ELSE @[v]]])
           [] n.k = "array" -> RunAdds(n.args, r, 0)
           [] n.k = "if" -> RunIf(n, r)
           [] n.k = "match" -> LET value == Run(n.args[1], r)
                               IN Then(value, Cases(Tail(n.args), value, value.val))
           [] n.k = "while" -> Loop(n.args, r)
           [] n.k = "for" -> RunFor(n, r)
           [] n.k \in {"break", "continue"} -> [r EXCEPT !.sig = n.k]
           [] n.k = "return" -> RunReturn(n, r)
           [] n.k = "raise" -> LET p == Run(n.args[1], r) IN Then(p, [p EXCEPT !.sig = "raise"])
           [] n.k = "try" -> RunTry(n, r)
           [] OTHER -> RunCall(n, r)

(* The run of a function body; at its end it returns. *)
Meaning(body, outcomes) ==
    LET r == Run(body, Start(outcomes))
    IN Then(r, RunReturn(Statement("return", <<>>), r))
=============================================================================
