-------------------------- MODULE CompiledFunction --------------------------
(***************************************************************************)
(* A function on its way through the compiler and its execution: the       *)
(* Transformer, the Serializer, and then its commands one by one on        *)
(* variables and temporaries.  Calls of other functions are events; those  *)
(* that return a bool may answer either way, up to MaxOutcomes times, and  *)
(* no from then on.                                                        *)
(***************************************************************************)
EXTENDS Serializer, FiniteSets

CONSTANTS
    Programs,       \* function bodies with their return types: [body, t]
    MaxOutcomes     \* bound: bool calls that may answer yes

ASSUME OutcomesAssumption == MaxOutcomes \in Nat

Reference == INSTANCE ProgramMeaning

VARIABLES
    program,    \* the function as type checked
    code,       \* its commands, <<>> before they are generated
    pc,         \* next command
    store,      \* the place operands refer to: [alive, val]
    flags,      \* what the last comparison compared
    trace       \* events so far

vars == <<program, code, pc, store, flags, trace>>

(* Places that some command refers to. *)
PlacesOf(c) ==
    UNION {{c[i].ret} \cup {c[i].args[j] : j \in DOMAIN c[i].args} : i \in DOMAIN c}
        \cup {Place("local", ReturnVar, "obj")}

Running == pc \in DOMAIN code
Returned == code # <<>> /\ ~Running
Cmd == code[pc]
Values(places) == [i \in DOMAIN places |-> store[places[i]].val]
Objects(places) == {p \in places : p.t = "obj"}

Init ==
    /\ program \in Programs
    /\ code = <<>>
    /\ pc = 1
    /\ store = <<>>
    /\ flags = <<0, 0>>
    /\ trace = <<>>

Compile ==
    /\ code = <<>>
    /\ code' = Serialized(Transformed(program.body, program.t), program.t)
    /\ store' = [p \in PlacesOf(code') |-> [alive |-> FALSE, val |-> 0]]
    /\ UNCHANGED <<program, pc, flags, trace>>

At(op) == Running /\ Cmd.op = op
Step == pc' = pc + 1 /\ UNCHANGED <<program, code>>
Target(label) == CHOOSE i \in DOMAIN code : code[i].op = "label" /\ code[i].to = label

Outcomes == SelectSeq(trace, LAMBDA e : e.t = "bool")
Answers == IF Len(Outcomes) < MaxOutcomes THEN {0, 1} ELSE {0}

Happens(f, args, t, val) == trace' = Append(trace, Reference!Event(f, args, t, val))

(* The constructor of a variable or a temporary. *)
ConstructObject ==
    /\ At("construct")
    /\ store' = [store EXCEPT ![Cmd.ret] = [alive |-> TRUE, val |-> 0]]
    /\ Step /\ UNCHANGED <<flags, trace>>

DestructObject ==
    /\ At("destruct")
    /\ store' = [store EXCEPT ![Cmd.ret].alive = FALSE]
    /\ Step /\ UNCHANGED <<flags, trace>>

(* __assign__, `add` of an array and explicit constructors write their first
   parameter. *)
WriteFirst ==
    /\ At("call") /\ Cmd.f \in {"assign", "add", "construct"}
    /\ LET this == Cmd.args[1]
           others == IF Cmd.f = "construct" THEN Tail(Cmd.args) ELSE Cmd.args
       IN IF Cmd.f = "assign"
          THEN /\ store' = [store EXCEPT ![this].val = store[Cmd.args[2]].val]
               /\ UNCHANGED trace
          ELSE /\ store' = [store EXCEPT ![this] = [alive |-> TRUE, val |-> Len(trace) + 1]]
               /\ Happens(Cmd.f, Values(others), IF Cmd.f = "add" THEN "void" ELSE "obj", Len(trace) + 1)
    /\ Step /\ UNCHANGED flags

(* Any other function; an object is returned into the place it is given. *)
CallFunction ==
    /\ At("call") /\ Cmd.f \notin {"assign", "add", "construct"}
    /\ \E val \in IF Cmd.ret.t = "bool" THEN Answers ELSE {Len(trace) + 1} :
          /\ Happens(Cmd.f, Values(Cmd.args), Cmd.ret.t, val)
          /\ store' = [store EXCEPT ![Cmd.ret] =
                          [alive |-> Cmd.ret.t = "obj", val |-> IF Cmd.ret.t = "void" THEN 0 ELSE val]]
    /\ Step /\ UNCHANGED flags

Move ==
    /\ At("mov")
    /\ store' = [store EXCEPT ![Cmd.ret].val = store[Cmd.args[1]].val]
    /\ Step /\ UNCHANGED <<flags, trace>>

CompareOperands ==
    /\ At("cmp")
    /\ flags' = Values(Cmd.args)
    /\ Step /\ UNCHANGED <<store, trace>>

(* A condition of the last comparison: zero is known, the rest is an event. *)
Test(cc, val) ==
    IF cc = "nonzero" THEN val = (IF flags[1] # 0 THEN 1 ELSE 0) /\ UNCHANGED trace
    ELSE val \in Answers /\ Happens(cc, flags, "bool", val)

SetCondition ==
    /\ At("set")
    /\ \E val \in {0, 1} : /\ Test(Cmd.f, val)
                           /\ store' = [store EXCEPT ![Cmd.ret].val = val]
    /\ Step /\ UNCHANGED flags

JumpUnless ==
    /\ At("jump unless")
    /\ \E val \in {0, 1} : /\ Test(Cmd.f, val)
                           /\ pc' = IF val = 0 THEN Target(Cmd.to) ELSE pc + 1
    /\ UNCHANGED <<program, code, store, flags>>

JumpAlways ==
    /\ At("jmp")
    /\ pc' = Target(Cmd.to)
    /\ UNCHANGED <<program, code, store, flags, trace>>

PassLabel == At("label") /\ Step /\ UNCHANGED <<store, flags, trace>>

ReturnValues ==
    IF program.t = "obj" THEN <<store[Place("local", ReturnVar, "obj")].val>> ELSE Values(Cmd.args)

ReturnFromFunction ==
    /\ At("ret")
    /\ Happens("return", ReturnValues, "void", Len(trace) + 1)
    /\ pc' = Len(code) + 1
    /\ UNCHANGED <<program, code, store, flags>>

Execute ==
    \/ ConstructObject \/ DestructObject
    \/ WriteFirst \/ CallFunction \/ Move
    \/ CompareOperands \/ SetCondition \/ JumpUnless \/ JumpAlways \/ PassLabel
    \/ ReturnFromFunction

Next == Compile \/ Execute

Spec == Init /\ [][Next]_vars

-----------------------------------------------------------------------------
Meant ==
    Reference!Meaning(program.body, [i \in DOMAIN Outcomes |-> Outcomes[i].val])

(* Breaking expressions down, inserting commands before others, jumps, labels
   and fused comparisons do not change what the function does: at every branch
   it has made the calls the program prescribes, in their order, on the same
   values, and it returns when and what the program returns. *)
FollowsProgram ==
    At("jump unless") \/ Returned =>
        LET m == Meant
        IN /\ IsPrefix(trace, m.trace)
           /\ Returned => trace = m.trace /\ m.sig = "return"

(* Objects are constructed, used and destructed in this order: no constructor
   on a living object, no destructor or use of one that is not alive. *)
Lifetimes ==
    Running =>
        /\ Cmd.op = "construct" => ~store[Cmd.ret].alive
        /\ Cmd.op = "destruct" => store[Cmd.ret].alive
        /\ Cmd.op = "call" =>
              LET fresh == IF Cmd.f = "construct" THEN {Cmd.args[1], Cmd.ret} ELSE {Cmd.ret}
              IN /\ \A p \in Objects(fresh) : ~store[p].alive
                 /\ \A p \in Objects(Range(Cmd.args) \ fresh) : store[p].alive

(* When the function has returned, no object is left but the one it returns. *)
NothingLeft ==
    Returned =>
        {p \in Objects(DOMAIN store) : store[p].alive}
            = IF program.t = "obj" THEN {Place("local", ReturnVar, "obj")} ELSE {}
=============================================================================
