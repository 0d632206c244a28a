----------------------------- MODULE Serializer -----------------------------
(***************************************************************************)
(* Serializer.cpp: from the transformed syntax tree of a function to a list *)
(* of commands on variables and temporaries, with labels and jumps, and     *)
(* with the constructor and destructor calls of every object.               *)
(*                                                                         *)
(* Passing by reference (LEA, dereferences) is abstracted to operands that  *)
(* name places.  The inline functions are InlineFunctions' subject; here    *)
(* only comparisons are inline, as simplify_if_statements rewrites them.    *)
(***************************************************************************)
EXTENDS Transformer

(* A SerialNodeParam: a variable, a temporary, or nothing. *)
Place(kind, n, t) == [kind |-> kind, n |-> n, t |-> t]
NoPlace == Place("none", 0, "void")
Zero == Place("zero", 0, "int")

Command(op, f, ret, args) == [op |-> op, f |-> f, ret |-> ret, args |-> args, to |-> 0]
Jump(op, f, label) == [Command(op, f, NoPlace, <<>>) EXCEPT !.to = label]

(* The Serializer: commands so far, inserted_temp, counters of temporaries
   and labels, cur_block_level, loop_stack and try_stack. *)
Empty == [code |-> <<>>, inserted |-> <<>>, temps |-> 0, labels |-> 0, level |-> 0,
          loops |-> <<>>, tries |-> <<>>]

Emit(s, commands) == [s EXCEPT !.code = @ \o commands]
Label(label) == Jump("label", "", label)
Enter(s) == [s EXCEPT !.level = @ + 1]
Leave(s) == [s EXCEPT !.level = @ - 1]

Construct(p) == IF p.t = "obj" THEN <<Command("construct", "", p, <<>>)>> ELSE <<>>
Destruct(p) == IF p.t = "obj" THEN <<Command("destruct", "", p, <<>>)>> ELSE <<>>

(* add_temp *)
AddTemp(s, t, constructor) ==
    IF t = "void" THEN [s |-> s, ret |-> NoPlace]
    ELSE LET r == Place("temp", s.temps + 1, t)
             added == [s EXCEPT !.temps = @ + 1,
                                !.inserted = IF t = "obj" THEN Append(@, [p |-> r, level |-> s.level]) ELSE @]
         IN [s |-> IF constructor THEN Emit(added, Construct(r)) ELSE added, ret |-> r]

(* Which temporaries insert_destructors_temp destructs. *)
DueTemps(s) == SelectSeq(s.inserted, LAMBDA i : i.level >= s.level)

(* insert_destructors_temp *)
InsertDestructorsTemp(s) ==
    LET due == Reverse(DueTemps(s))
    IN [Emit(s, FlattenSeq([i \in DOMAIN due |-> Destruct(due[i].p)]))
            EXCEPT !.inserted = SelectSeq(@, LAMBDA i : i.level < s.level)]

(* insert_constructors_block *)
InsertConstructorsBlock(vars) ==
    FlattenSeq([i \in DOMAIN vars |->
        IF vars[i].explicit THEN <<>> ELSE Construct(Place("local", vars[i].v, vars[i].t))])

(* Mutant: explicitly constructed variables are not destructed. *)
InsertDestructorsBlock_Implicit(vars) ==
    LET r == SelectSeq(Reverse(vars), LAMBDA x : ~x.explicit)
    IN FlattenSeq([i \in DOMAIN r |-> Destruct(Place("local", r[i].v, r[i].t))])

(* insert_destructors_block: never the caller's object behind -return-. *)
InsertDestructorsBlock(vars) ==
    LET r == SelectSeq(Reverse(vars), LAMBDA x : x.v # ReturnVar)
    IN FlattenSeq([i \in DOMAIN r |-> Destruct(Place("local", r[i].v, r[i].t))])

(* serialize_assign *)
SerializeAssign(s, dst, src) ==
    CASE dst.t = "void" -> s
      [] dst.t = "obj" -> Emit(s, <<Command("call", "assign", NoPlace, <<dst, src>>)>>)
      [] OTHER -> Emit(s, <<Command("mov", "", dst, <<src>>)>>)

(* node_is_assign_mem, and the call whose result goes straight to its target *)
OverridesRet(n) ==
    /\ n.k = "assign" /\ n.args[1].t = "chunk"
    /\ n.args[2].k \in {"call", "inline"}

(* cmp; jz *)
TestAndJump(cond, label) ==
    <<Command("cmp", "", NoPlace, <<cond, Zero>>), Jump("jump unless", "nonzero", label)>>

NewLabels(s, n) == [s EXCEPT !.labels = @ + n]
PushLoop(s, continue, break) == [s EXCEPT !.loops = Append(@, [continue |-> continue, break |-> break])]
PopLoop(s) == [s EXCEPT !.loops = Front(@)]
PushTry(s, except, v) == [s EXCEPT !.tries = Append(@, [except |-> except, v |-> v])]
PopTry(s) == [s EXCEPT !.tries = Front(@)]

RECURSIVE SerializeNode(_, _, _), SerializeGroup(_, _, _)

SerializeBlock(n, s) ==
    LET begun == Emit(Enter(s), InsertConstructorsBlock(n.vars))
        g == SerializeGroup(n.args, n, begun)
    IN [g EXCEPT !.s = Leave(Emit(@, InsertDestructorsBlock(n.vars)))]

(* Mutant: the value of a group is destructed with the other temporaries. *)
KeptAlive_Not(s, ret) == s

(* "keep return temp vars alive longer" *)
KeptAlive(s, ret) ==
    [s EXCEPT !.inserted = [i \in DOMAIN @ |->
        IF @[i].p = ret THEN [p |-> ret, level |-> s.level - 1] ELSE @[i]]]

(* serialize_group, and the parameters of serialize_block *)
SerializeGroup(ns, block, s) ==
    LET RECURSIVE From(_)
        From(done) ==
            IF done.n = Len(ns) THEN [s |-> Leave(done.s), ret |-> done.ret]
            ELSE LET r == SerializeNode(ns[done.n + 1], block, done.s)
                     kept == IF done.n + 1 = Len(ns) THEN KeptAlive(r.s, r.ret) ELSE r.s
                 IN From([n |-> done.n + 1, s |-> InsertDestructorsTemp(kept), ret |-> r.ret])
    IN From([n |-> 0, s |-> Enter(s), ret |-> NoPlace])

(* serialize_params *)
SerializeParams(ns, block, s) ==
    LET RECURSIVE From(_)
        From(done) ==
            IF Len(done.params) = Len(ns) THEN done
            ELSE LET r == SerializeNode(ns[Len(done.params) + 1], block, done.s)
                 IN From([s |-> r.s, params |-> Append(done.params, r.ret)])
    IN From([s |-> s, params |-> <<>>])

(* Calls and inline functions: the result's temporary, the parameters, the
   call itself. *)
SerializeCall(n, block, s) ==
    LET target == IF OverridesRet(n) THEN SerializeNode(n.args[1], block, s)
                  ELSE AddTemp(s, n.t, n.k = "inline")
        com == IF OverridesRet(n) THEN n.args[2] ELSE n
        p == SerializeParams(com.args, block, target.s)
        commands == CASE com.k = "call" -> <<Command("call", com.f, target.ret, p.params)>>
                      [] com.k = "inline" -> <<Command("cmp", "", NoPlace, p.params),
                                               Command("set", com.f, target.ret, <<>>)>>
                      [] OTHER -> SerializeAssign(Empty, p.params[1], p.params[2]).code
    IN [s |-> Emit(p.s, commands), ret |-> target.ret]

SerializeIf(n, block, s) ==
    LET after == s.labels + 1
        cond == SerializeNode(n.args[1], block, NewLabels(s, 1))
        then == SerializeNode(n.args[2], block, Emit(cond.s, TestAndJump(cond.ret, after)))
    IN [s |-> Emit(then.s, <<Label(after)>>), ret |-> NoPlace]

SerializeIfElse(n, block, s) ==
    LET afterTrue == s.labels + 1
        afterFalse == s.labels + 2
        value == AddTemp(NewLabels(s, 2), n.t, TRUE)
        cond == SerializeNode(n.args[1], block, value.s)
        then == SerializeNode(n.args[2], block, Emit(cond.s, TestAndJump(cond.ret, afterTrue)))
        middle == Emit(SerializeAssign(then.s, value.ret, then.ret),
                       <<Jump("jmp", "", afterFalse), Label(afterTrue)>>)
        else == SerializeNode(n.args[3], block, middle)
    IN [s |-> Emit(SerializeAssign(else.s, value.ret, else.ret), <<Label(afterFalse)>>),
        ret |-> value.ret]

SerializeWhile(n, block, s) ==
    LET before == s.labels + 1
        after == s.labels + 2
        cond == SerializeNode(n.args[1], block, Emit(NewLabels(s, 2), <<Label(before)>>))
        body == SerializeNode(n.args[2], block,
                    PushLoop(Emit(cond.s, TestAndJump(cond.ret, after)), before, after))
    IN [s |-> Emit(PopLoop(body.s), <<Jump("jmp", "", before), Label(after)>>), ret |-> NoPlace]

ContinueLabel(s) == s.labels + 3

SerializeFor(n, block, s) ==
    LET before == s.labels + 1
        after == s.labels + 2
        init == SerializeNode(n.args[1], block, NewLabels(s, 3))
        cond == SerializeNode(n.args[2], block, Emit(init.s, <<Label(before)>>))
        body == SerializeNode(n.args[3], block,
                    PushLoop(Emit(cond.s, TestAndJump(cond.ret, after)), ContinueLabel(s), after))
        step == SerializeNode(n.args[4], block, Emit(PopLoop(body.s), <<Label(s.labels + 3)>>))
    IN [s |-> Emit(step.s, <<Jump("jmp", "", before), Label(after)>>), ret |-> NoPlace]

(* The destructors are those of the innermost block alone. *)
SerializeReturn(n, block, s) ==
    LET p == SerializeParams(n.args, block, s)
    IN [s |-> Emit(p.s, InsertDestructorsBlock(block.vars)
                            \o <<Command("ret", "", NoPlace, p.params)>>),
        ret |-> NoPlace]

(* The expression is evaluated only when the handler has a variable for it. *)
SerializeRaise(n, block, s) ==
    LET handler == Last(s.tries)
        p == SerializeNode(n.args[1], block, s)
        assigned == IF handler.v = 0 THEN s
                    ELSE SerializeAssign(p.s, Place("local", handler.v, "int"), p.ret)
    IN [s |-> Emit(assigned, <<Jump("jmp", "", handler.except)>>), ret |-> NoPlace]

SerializeTry(n, block, s) ==
    LET except == s.labels + 1
        after == s.labels + 2
        body == SerializeNode(n.args[1], block, PushTry(NewLabels(s, 2), except, n.v))
        handler == SerializeNode(n.args[2], block,
                       Emit(PopTry(body.s), <<Jump("jmp", "", after), Label(except)>>))
    IN [s |-> Emit(handler.s, <<Label(after)>>), ret |-> NoPlace]

JumpTo(s, label) == [s |-> Emit(s, <<Jump("jmp", "", label)>>), ret |-> NoPlace]

(* serialize_node and serialize_statement *)
SerializeNode(n, block, s) ==
    CASE n.k = "local" -> [s |-> s, ret |-> Place("local", n.v, n.t)]
      [] n.k = "block" -> SerializeBlock(n, s)
      [] n.k = "group" -> SerializeGroup(n.args, block, s)
      [] n.k = "if" -> IF Len(n.args) = 2 THEN SerializeIf(n, block, s)
                       ELSE SerializeIfElse(n, block, s)
      [] n.k = "while" -> SerializeWhile(n, block, s)
      [] n.k = "fordigest" -> SerializeFor(n, block, s)
      [] n.k = "break" -> JumpTo(s, Last(s.loops).break)
      [] n.k = "continue" -> JumpTo(s, Last(s.loops).continue)
      [] n.k = "return" -> SerializeReturn(n, block, s)
      [] n.k = "raise" -> SerializeRaise(n, block, s)
      [] n.k = "try" -> SerializeTry(n, block, s)
      [] OTHER -> SerializeCall(n, block, s)

(* cmp a, b; set t; cmp t, 0; jz l: what simplify_if_statements looks for.  It
   does not look at t, nor at the last four commands. *)
Fusible(code, j) ==
    /\ j \in 1 .. Len(code) - 4
    /\ code[j].op = "cmp" /\ code[j + 1].op = "set"
    /\ code[j + 2].op = "cmp" /\ code[j + 3].op = "jump unless"

(* Mutant: the jump keeps testing for zero. *)
FusedJump_Nonzero(set, jump) == jump

(* The jump tests the first comparison. *)
FusedJump(set, jump) == [jump EXCEPT !.f = set.f]

(* simplify_if_statements *)
SimplifyIf(code) ==
    LET kept == SelectSeq([j \in DOMAIN code |-> j],
                          LAMBDA j : ~Fusible(code, j - 1) /\ ~Fusible(code, j - 2))
        At(j) == IF Fusible(code, j - 3) THEN FusedJump(code[j - 2], code[j]) ELSE code[j]
    IN [k \in DOMAIN kept |-> At(kept[k])]

(* A function without a result that does not end with `return` gets one. *)
AddFunctionOutro(t) == IF t = "void" THEN <<Command("ret", "", NoPlace, <<>>)>> ELSE <<>>
Outro(body, t) ==
    IF body.args # <<>> /\ Last(body.args).k = "return" THEN <<>> ELSE AddFunctionOutro(t)

(* serialize_function *)
Serialized(body, t) ==
    LET s == InsertDestructorsTemp(SerializeBlock(body, Empty).s)
    IN SimplifyIf(s.code \o Outro(body, t))
=============================================================================
