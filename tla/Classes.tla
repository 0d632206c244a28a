------------------------------ MODULE Classes ------------------------------
(***************************************************************************)
(* What the functions that the compiler writes for classes do: constructors *)
(* and destructors (template/implicit_regular.cpp) as what happens to the   *)
(* memory of an object, in order.                                           *)
(***************************************************************************)
EXTENDS LinkedClasses

(***************************************************************************)
(* Executing a constructor on memory at an address: what happens, in order. *)
(***************************************************************************)
Event(op, at, what) == [op |-> op, at |-> at, what |-> what]
RECURSIVE Construct(_, _, _)
Make(t, at) ==
    IF IsBasic(t) THEN IF HasDefault(t) THEN <<Event("construct", at, <<t>>)>> ELSE <<>>
    ELSE FlattenSeq([i \in DOMAIN Constructors(classes[t]) |->
                        LET f == Constructors(classes[t])[i] IN IF f.params = <<>> THEN Construct(t, f, at) ELSE <<>>])
ChildConstructors(c, at, from) ==
    LET es == classes[c].elements
    IN FlattenSeq([i \in DOMAIN es |-> IF i > from THEN Make(es[i].type, at + es[i].offset) ELSE <<>>])
Initializers(c, at) ==
    LET value(n) == LET e == IF n.element = 0 THEN Element(<<>>, "pointer", -PointerSize) ELSE classes[c].elements[n.element]
                        place == at + e.offset
                    IN (IF n.how = "build" THEN Make(e.type, place) ELSE <<>>) \o <<Event("value", place, n.of)>>
    IN FlattenSeq([i \in DOMAIN classes[c].initial |-> value(classes[c].initial[i])])
AddVirtualTable(c, at) == IF classes[c].vtable > 0 THEN <<Event("table", at, <<c>>)>> ELSE <<>>
Body(f, at) == IF f.body = "user" THEN <<Event("body", at, <<f.of>>)>> ELSE <<>>
Construct(c, f, at) ==
    LET parents == IF Parent(c) = Nobody THEN {} ELSE ParentConstructor(c, f)
        above == IF parents = {} THEN <<>> ELSE Construct(Parent(c), CHOOSE g \in parents : TRUE, at)
    IN IF f.body = "fill" THEN ChildConstructors(c, at, 0) \o Initializers(c, at)
       ELSE above \o ChildConstructors(c, at, FromParent(c)) \o Initializers(c, at)
            \o AddVirtualTable(c, at) \o Body(f, at)

(* A destructor, on memory with a history: the table an object points to says
   which one a virtual call reaches. *)
TableAt(log, at) == FoldLeft(LAMBDA t, e : IF e.op = "table" /\ e.at = at THEN e.what[1] ELSE t, Nobody, log)
RECURSIVE Destroy(_, _, _)
OwnElements(c) == SubSeq(classes[c].elements, FromParent(c) + 1, Len(classes[c].elements))
EndPlain(e, at) == IF HasDefault(e.type) THEN <<Event("destruct", at + e.offset, <<e.type>>)>> ELSE <<>>
CallDestructor(t, at, log) ==
    LET f == CHOOSE f \in Destructor(classes[t]) : TRUE
    IN IF f.vindex < 0 THEN Destroy(f, at, log)
       ELSE IF TableAt(log, at) = Nobody THEN <<Event("crash", at, <<>>)>>
       ELSE Destroy(Entry(TableAt(log, at), f.vindex), at, log)
(* Mutant: the elements end in the order in which they were made. *)
Destroy_InOrder(f, at, log) ==
    LET c == f.of
        end(e) == IF IsBasic(e.type) THEN EndPlain(e, at)
                  ELSE IF Destructor(classes[e.type]) = {} THEN <<>> ELSE CallDestructor(e.type, at + e.offset, log)
        above == IF Parent(c) = Nobody THEN {} ELSE Destructor(classes[Parent(c)])
    IN IF "early" \in f.flags THEN Body(f, at)
       ELSE Body(f, at) \o FlattenSeq([i \in 1..Len(OwnElements(c)) |-> end(OwnElements(c)[i])])
            \o FlattenSeq([g \in 1..Cardinality(above) |-> Destroy(CHOOSE d \in above : TRUE, at, log)])
Destroy(f, at, log) ==
    LET c == f.of
        end(e) == IF IsBasic(e.type) THEN EndPlain(e, at)
                  ELSE IF Destructor(classes[e.type]) = {} THEN <<>> ELSE CallDestructor(e.type, at + e.offset, log)
        above == IF Parent(c) = Nobody THEN {} ELSE Destructor(classes[Parent(c)])
    IN IF f.body = Nobody THEN <<Event("crash", at, <<>>)>>
       ELSE IF "early" \in f.flags THEN Body(f, at)
       ELSE Body(f, at) \o FlattenSeq([i \in 1..Len(OwnElements(c)) |-> end(Reverse(OwnElements(c))[i])])
            \o FlattenSeq([g \in 1..Cardinality(above) |-> Destroy(CHOOSE d \in above : TRUE, at, log)])

(***************************************************************************)
(* What an object consists of, and what happened to it.                     *)
(***************************************************************************)
RECURSIVE Objects(_, _), Leaves(_, _)
Objects(c, at) ==
    {<<at, c>>} \cup UNION {IF IsBasic(e.type) THEN {} ELSE Objects(e.type, at + e.offset) : e \in ToSet(classes[c].elements)}
Leaves(c, at) ==
    UNION {IF ~IsBasic(e.type) THEN Leaves(e.type, at + e.offset)
           ELSE IF HasDefault(e.type) THEN {at + e.offset} ELSE {} : e \in ToSet(classes[c].elements)}
OnlyUserConstructors(c) ==
    Methods(c, "init") # {} /\ \A f \in ToSet(UserConstructors(classes[c])) : f.body = "user"
Where(log, op, at, what) == {i \in DOMAIN log : log[i] = Event(op, at, what)}
Doing(log, op) == SelectSeq(log, LAMBDA e : e.op = op)

(* A constructor makes each part of the object once, gives it its value
   afterwards, and once; the bodies the user wrote run from the top of the line
   to the class, each on an object of its own class, already made; and in the
   end every object refers to the table of its class.
   (implement_regular_constructor, concretify_function_body) *)
ConstructedOnce ==
    \A c \in Compiled : \A f \in ToSet(UserConstructors(classes[c])) :
       LET log == Construct(c, f, 0)
           before(i) == SubSeq(log, 1, i - 1)
       IN /\ \A at \in Leaves(c, 0) : Cardinality({i \in DOMAIN log : log[i].op = "construct" /\ log[i].at = at}) = 1
          /\ Len(Doing(log, "construct")) = Cardinality(Leaves(c, 0))
          /\ \A v \in ToSet(Doing(log, "value")) : \E o \in Objects(c, 0) : \E e \in ToSet(classes[o[2]].elements) :
                v.what = e.name /\ v.at = o[1] + e.offset
          /\ \A o \in Objects(c, 0) :
                /\ classes[o[2]].vtable > 0 => TableAt(log, o[1]) = o[2]
                /\ \A u \in Above(o[2]) :
                      /\ \A e \in ToSet(classes[u].elements) : \A l \in ToSet(Written(u)) :
                            l.k = "var" /\ l.name = e.name /\ l.how # "none" =>
                               \E i \in DOMAIN log :
                                  /\ Where(log, "value", o[1] + e.offset, e.name) = {i}
                                  /\ \A j \in DOMAIN log : log[j].op = "construct" /\ log[j].at = o[1] + e.offset => j < i
                      /\ OnlyUserConstructors(u) /\ classes[u].size > 0 =>
                            \E i \in DOMAIN log :
                               /\ Where(log, "body", o[1], <<u>>) = {i}
                               /\ classes[u].vtable > 0 => TableAt(before(i), o[1]) = u
                               /\ \A at \in Leaves(u, o[1]) : \E j \in 1..(i - 1) : log[j].op = "construct" /\ log[j].at = at

(* Deleting the object through its own class, or through one above whose
   destructor is virtual, destructs what its constructor made, in reverse.
   (implement_regular_destructor, concretify_function_body) *)
DestroyedInReverse ==
    \A c \in Compiled : \A f \in ToSet(UserConstructors(classes[c])) : \A a \in Above(c) :
       (/\ Destructor(classes[a]) # {}
        /\ a = c \/ \E d \in Destructor(classes[a]) : d.vindex >= 0) =>
          LET made == Doing(Construct(c, f, 0), "construct")
              log == CallDestructor(a, 0, Construct(c, f, 0))
              ended == Doing(log, "destruct")
          IN /\ Doing(log, "crash") = <<>>
             /\ [i \in DOMAIN ended |-> ended[i].at] = Reverse([i \in DOMAIN made |-> made[i].at])
             /\ \A u \in Above(c) : Methods(u, "delete") # {} /\ classes[u].size > 0 => Cardinality(Where(log, "body", 0, <<u>>)) = 1
=============================================================================
