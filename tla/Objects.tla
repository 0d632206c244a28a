------------------------------ MODULE Objects ------------------------------
(***************************************************************************)
(* What the functions the compiler writes itself do to memory: template/    *)
(* implicit_*.cpp (constructors, destructors, assignments and operators of  *)
(* lists, dictionaries, optionals, results, products, arrays and pointers)  *)
(* on base/array.cpp (the storage of lists and dictionaries).               *)
(*                                                                         *)
(* Memory is a heap of blocks: the variables, the buffers of lists and      *)
(* dictionaries, and the objects behind pointers.  A place is a block and a *)
(* path into it.  What is not constructed is "raw"; a plain number needs no *)
(* constructor.  A string is a list of bytes whose buffer is not modelled.  *)
(*                                                                         *)
(* Abstracted: growing always moves the buffer (realloc may); capacities    *)
(* beyond 1000 elements.                                                    *)
(***************************************************************************)
EXTENDS ObjectTypes

CONSTANTS Declarations, MaxBlocks, MaxUsed
ASSUME BlockConstants == MaxBlocks \in Nat /\ MaxUsed \in 1..MaxBlocks
Blocks == 1..MaxBlocks

(* Storage: kind, number (an int, the address of a list's buffer or of a
   pointer's object), num (a list's length, an optional's _has_value, a
   result's _state, an object's reference count), and what lies inside. *)
Storage(k, v, num, of) == [k |-> k, v |-> v, num |-> num, of |-> of]
Free == Storage("free", 0, 0, <<>>)
Nothing == Storage("nothing", 0, 0, <<>>)

RECURSIVE Raw(_)
Raw(t) ==
    CASE Plain(t) -> Storage("int", 0, 0, <<>>)
      [] t.k \in {"product", "array"} -> Storage(t.k, 0, 0, [i \in DOMAIN t.of |-> Raw(t.of[i])])
      [] t.k \in {"optional", "result"} -> Storage("raw", 0, 0, <<Raw(Content(t))>>)
      [] OTHER -> Storage("raw", 0, 0, <<>>)
Fresh(t) == [Raw(t) EXCEPT !.k = t.k]
Row(t) == Storage("row", 0, 0, <<Raw(String), Raw(Content(t))>>)
ElementRaw(t) == IF t.k = "dict" THEN Row(t) ELSE Raw(Content(t))

(* Whether the type has a constructor and a destructor.  A fixed array has
   them if its element type needs_constructor, which results and pointers are
   forgotten to. *)
RECURSIVE Managed(_)
NeedsConstructor(t) == t.k \notin {"result", "shared", "owned"} /\ Managed(t)
Managed(t) ==
    CASE t.k = "array" -> NeedsConstructor(t.of[1])
      [] t.k = "product" -> \E i \in DOMAIN t.of : Managed(t.of[i])
      [] OTHER -> ~Plain(t)

(* Storage whose number is an address. *)
Referrers == {"list", "dict", "shared", "owned"}
RECURSIVE Targets(_)
Targets(s) == (IF s.k \in Referrers /\ s.v > 0 THEN <<s.v>> ELSE <<>>)
              \o FlattenSeq([i \in DOMAIN s.of |-> Targets(s.of[i])])

Live(s) == s.k \in {"string", "list", "dict", "optional", "result", "shared", "owned"}
RECURSIVE LiveIn(_)
LiveIn(s) == (IF Live(s) THEN 1 ELSE 0) + FoldLeft(LAMBDA n, x : n + LiveIn(x), 0, s.of)

(***************************************************************************)
(* The machine: the heap, the blocks freed during the current statement     *)
(* (not handed out again before it ends), how many values were constructed  *)
(* and not yet destructed, and whether all accesses so far were sound.      *)
(***************************************************************************)
Machine(heap, live) == [heap |-> heap, gone |-> {}, live |-> live, sound |-> TRUE]
Wrong(m) == [m EXCEPT !.sound = FALSE]

At(b, path) == [b |-> b, path |-> path]
Part(p, i) == At(p.b, Append(p.path, i))

RECURSIVE Sub(_, _), Replaced(_, _, _)
Sub(s, path) ==
    IF path = <<>> THEN s
    ELSE IF Head(path) \in DOMAIN s.of THEN Sub(s.of[Head(path)], Tail(path)) ELSE Nothing
Replaced(s, path, x) ==
    IF path = <<>> THEN x
    ELSE [s EXCEPT !.of[Head(path)] = Replaced(@, Tail(path), x)]

Get(m, p) == IF p.b \in DOMAIN m.heap THEN Sub(m.heap[p.b], p.path) ELSE Nothing
Put(m, p, x) ==
    IF Get(m, p).k = "nothing" THEN Wrong(m)
    ELSE [m EXCEPT !.heap[p.b] = Replaced(@, p.path, x)]
SetNumber(m, p, v) == Put(m, p, [Get(m, p) EXCEPT !.v = v])
SetNum(m, p, num) == Put(m, p, [Get(m, p) EXCEPT !.num = num])
Count(m, p) == Get(m, p).num
Element(m, p, i) == At(Get(m, p).v, <<i>>)
KeyOf(m, p, i) == At(Get(m, p).v, <<i, 1>>)
ValueOf(m, p, i) == At(Get(m, p).v, <<i, 2>>)

Unused(m) == CHOOSE b \in Blocks : /\ m.heap[b] = Free /\ b \notin m.gone
                                   /\ \A c \in Blocks : m.heap[c] = Free /\ c \notin m.gone => b <= c
Allocated(m, b, s) == [m EXCEPT !.heap[b] = s]
Released(m, b) ==
    IF b \in DOMAIN m.heap /\ m.heap[b] # Free
    THEN [m EXCEPT !.heap[b] = Free, !.gone = @ \cup {b}] ELSE Wrong(m)

(* A constructor finds raw memory; a destructor leaves it. *)
Make(m, p, t) ==
    IF Get(m, p).k = "raw" THEN [Put(m, p, Fresh(t)) EXCEPT !.live = @ + 1] ELSE Wrong(m)
Unmake(m, p, t) ==
    IF Get(m, p).k = t.k THEN [Put(m, p, Raw(t)) EXCEPT !.live = @ - 1] ELSE Wrong(m)

(***************************************************************************)
(* base/array.cpp                                                           *)
(***************************************************************************)
Capacity(m, p) == IF Get(m, p).v = 0 THEN 0 ELSE Len(m.heap[Get(m, p).v].of)

(* simple_reserve: exactly what is asked for at first, then twice. *)
SimpleReserve(t, p, size, m) ==
    IF Capacity(m, p) = 0
    THEN LET b == Unused(m)
         IN SetNumber(Allocated(m, b, Storage("buffer", 0, 0, [i \in 1..size |-> ElementRaw(t)])), p, b)
    ELSE IF size > Capacity(m, p)
         THEN LET b == Unused(m)
                  old == m.heap[Get(m, p).v].of
                  grown == [i \in 1..(size * 2) |-> IF i \in DOMAIN old THEN old[i] ELSE ElementRaw(t)]
              IN SetNumber(Allocated(Released(m, Get(m, p).v), b, Storage("buffer", 0, 0, grown)), p, b)
         ELSE m

(* simple_resize, __mem_resize__: new elements are zero.  (Nobody looks at the
   plain numbers behind the end before that, so they are zeroed here as well.) *)
MemResize(t, p, num, m) ==
    IF num <= Count(m, p)
    THEN SetNum(IF Plain(Content(t)) /\ num < Count(m, p)
                THEN [m EXCEPT !.heap[Get(m, p).v].of = [i \in DOMAIN @ |-> IF i > num THEN Raw(Content(t)) ELSE @[i]]]
                ELSE m, p, num)
    ELSE LET r == SimpleReserve(t, p, num, m)
             zeroed(s) == [i \in DOMAIN s |-> IF i \in (Count(m, p) + 1)..num THEN ElementRaw(t) ELSE s[i]]
         IN SetNum([r EXCEPT !.heap[Get(r, p).v].of = zeroed(@)], p, num)

(* simple_clear, __mem_clear__ *)
MemClear(p, m) ==
    LET r == IF Get(m, p).v > 0 THEN Released(m, Get(m, p).v) ELSE m
    IN SetNum(SetNumber(r, p, 0), p, 0)

(* delete_single, __mem_remove__ *)
MemRemove(t, p, i, m) ==
    SetNum([m EXCEPT !.heap[Get(m, p).v].of = Append(RemoveAt(@, i), ElementRaw(t))], p, Count(m, p) - 1)

(* forget, __mem_forget__ *)
MemForget(p, m) == SetNum(SetNumber(m, p, 0), p, 0)

(***************************************************************************)
(* template/implicit_*.cpp                                                  *)
(***************************************************************************)
RECURSIVE Construct(_, _, _), ConstructElements(_, _, _, _, _), Destruct(_, _, _),
          DestructElements(_, _, _, _, _), DestructBackwards(_, _, _, _),
          DestructRows(_, _, _, _), Assign(_, _, _, _), AssignParts(_, _, _, _, _),
          AssignElements(_, _, _, _, _), DictSet(_, _, _, _, _), DictSetAll(_, _, _, _, _)

(* Constructors.  An array or product constructs its parts in order. *)
Construct(t, p, m) ==
    IF ~Managed(t) THEN m
    ELSE IF t.k \in {"product", "array"} THEN ConstructElements(t.of, p, 1, Len(t.of), m)
    ELSE Make(m, p, t)

(* parts i..n of p, whose types are ts *)
ConstructElements(ts, p, i, n, m) ==
    IF i > n \/ ~m.sound THEN m ELSE ConstructElements(ts, p, i + 1, n, Construct(ts[i], Part(p, i), m))

DestructElements(ts, p, i, n, m) ==
    IF i > n \/ ~m.sound THEN m ELSE DestructElements(ts, p, i + 1, n, Destruct(ts[i], Part(p, i), m))

DestructBackwards(ts, p, i, m) ==
    IF i = 0 \/ ~m.sound THEN m ELSE DestructBackwards(ts, p, i - 1, Destruct(ts[i], Part(p, i), m))

(* The types of the elements of a list: all the same. *)
Elements(t, n) == [i \in 1..n |-> Content(t)]
Buffer(m, p) == At(Get(m, p).v, <<>>)

(* implement_list_clear *)
ListClear(t, p, m) == MemClear(p, DestructElements(Elements(t, Count(m, p)), Buffer(m, p), 1, Count(m, p), m))

(* implement_dict_clear: the loop's variable for the value already refers to
   the row's value, and is shifted by the size of the key once more. *)
DestructRows(t, p, i, m) ==
    IF i > Count(m, p) \/ ~m.sound THEN m
    ELSE DestructRows(t, p, i + 1, Destruct(Content(t), KeyOf(m, p, i + 1), Destruct(String, KeyOf(m, p, i), m)))
DictClear(t, p, m) == MemClear(p, DestructRows(t, p, 1, m))

(* An object's destructor, and its memory. *)
Delete(b, m) ==
    IF b \in DOMAIN m.heap /\ m.heap[b].k = "object"
    THEN Released(Unmake(m, At(b, <<1>>), String), b) ELSE Wrong(m)

(* implement_shared_clear *)
Unref(m, object) == SetNum(m, object, Count(m, object) - 1)
DeleteUnused(m, object) == IF Count(m, object) = 0 THEN Delete(object.b, m) ELSE m
SharedClear(p, m) ==
    LET object == At(Get(m, p).v, <<>>)
    IN IF object.b = 0 THEN m ELSE SetNumber(DeleteUnused(Unref(m, object), object), p, 0)

(* implement_owned_clear *)
OwnedClear(p, m) == IF Get(m, p).v = 0 THEN m ELSE SetNumber(Delete(Get(m, p).v, m), p, 0)

(* Mutant: the destructor of an optional leaves its value alone. *)
OptionalClear_Keep(t, p, m) == m

(* implement_optional_destructor, and the start of its assignments *)
OptionalClear(t, p, m) ==
    IF Managed(Content(t)) /\ Count(m, p) = 1 THEN Destruct(Content(t), Part(p, 1), m) ELSE m

(* A result's value and its error share their memory. *)
Held(t, state) == IF state = 1 THEN Content(t) ELSE String

(* implement_result_destructor *)
ResultClear(t, p, m) ==
    IF Count(m, p) = 0 THEN m ELSE Destruct(Held(t, Count(m, p)), Part(p, 1), m)
ResultConstruct(t, p, m) ==
    IF Count(m, p) = 0 THEN m
    ELSE Construct(Held(t, Count(m, p)), Part(p, 1), Put(m, Part(p, 1), Raw(Held(t, Count(m, p)))))

Clear(t, p, m) ==
    CASE t.k = "list" -> ListClear(t, p, m)
      [] t.k = "dict" -> DictClear(t, p, m)
      [] t.k = "optional" -> OptionalClear(t, p, m)
      [] t.k = "result" -> ResultClear(t, p, m)
      [] t.k = "shared" -> SharedClear(p, m)
      [] t.k = "owned" -> OwnedClear(p, m)
      [] OTHER -> m

(* Destructors.  A product destructs its parts in reverse
   (implement_regular_destructor), an array in order. *)
Destruct(t, p, m) ==
    IF ~Managed(t) THEN m
    ELSE CASE t.k = "array" -> DestructElements(t.of, p, 1, Len(t.of), m)
           [] t.k = "product" -> DestructBackwards(t.of, p, Len(t.of), m)
           [] OTHER -> IF Get(m, p).k = t.k THEN Unmake(Clear(t, p, m), p, t) ELSE Wrong(m)

(* implement_list_resize: elements leave, the buffer changes, elements come. *)
ConstructNew(t, p, old, num, m) == ConstructElements(Elements(t, num), Buffer(m, p), old + 1, num, m)
ListResize(t, p, num, m) ==
    ConstructNew(t, p, Count(m, p), num,
        MemResize(t, p, num, DestructElements(Elements(t, Count(m, p)), Buffer(m, p), num + 1, Count(m, p), m)))

(* implement_list_remove *)
ListRemove(t, p, i, m) == MemRemove(t, p, i, Destruct(Content(t), Element(m, p, i), m))

(* Elements i.. of the list at q to places off.. of the list at p. *)
AssignElements(t, p, q, at, m) ==
    IF at.i > Count(m, q) \/ ~m.sound THEN m
    ELSE AssignElements(t, p, q, [at EXCEPT !.i = @ + 1],
             Assign(Content(t), Element(m, p, at.off + at.i), Element(m, q, at.i), m))

(* implement_list_assign *)
ListAssign(t, p, q, m) == AssignElements(t, p, q, [i |-> 1, off |-> 0], ListResize(t, p, Count(m, q), m))

(* Mutant: the length is read after the list has grown. *)
ListJoinInto_Late(t, p, q, m) ==
    LET r == ListResize(t, p, Count(m, p) + Count(m, q), m)
    IN AssignElements(t, p, q, [i |-> 1, off |-> Count(r, p)], r)

(* implement_list_join_into *)
ListJoinInto(t, p, q, m) ==
    AssignElements(t, p, q, [i |-> 1, off |-> Count(m, p)], ListResize(t, p, Count(m, p) + Count(m, q), m))

(* implement_list_add: x is a reference, read after the list has grown. *)
AssignEnd(t, p, x, m) == Assign(Content(t), Element(m, p, Count(m, p)), x, m)
ListAdd(t, p, x, m) == AssignEnd(t, p, x, ListResize(t, p, Count(m, p) + 1, m))

(* the row of a key, or 0 *)
DictFind(p, key, m) ==
    LET rows == {i \in 1..Count(m, p) : Get(m, KeyOf(m, p, i)) = [Fresh(String) EXCEPT !.v = key]}
    IN IF rows = {} THEN 0 ELSE CHOOSE i \in rows : \A j \in rows : i <= j

(* implement_dict_set: a row is added for a key that is not there. *)
DictRow(t, p, key, m) ==
    SetNumber(Construct(Content(t), ValueOf(m, p, Count(m, p)), Construct(String, KeyOf(m, p, Count(m, p)), m)),
              KeyOf(m, p, Count(m, p)), key)
DictFill(t, p, key, x, m) == Assign(Content(t), ValueOf(m, p, DictFind(p, key, m)), x, m)
DictSet(t, p, key, x, m) ==
    DictFill(t, p, key, x, IF DictFind(p, key, m) > 0 THEN m
                           ELSE DictRow(t, p, key, MemResize(t, p, Count(m, p) + 1, m)))

(* implement_dict_assign *)
DictSetAll(t, p, q, i, m) ==
    IF i > Count(m, q) \/ ~m.sound THEN m
    ELSE DictSetAll(t, p, q, i + 1, DictSet(t, p, Get(m, KeyOf(m, q, i)).v, ValueOf(m, q, i), m))

(* Mutant: the object is not told of the new pointer. *)
SharedPoint_NoCount(p, object, m) == SetNumber(m, p, object)

Ref(m, object) == SetNum(m, object, Count(m, object) + 1)

(* The end of implement_shared_assign: point to the object and count. *)
SharedPoint(p, object, m) ==
    IF object = 0 THEN SetNumber(m, p, 0) ELSE Ref(SetNumber(m, p, object), At(object, <<>>))

(* implement_shared_assign: the other pointer is read after this one is cleared. *)
SharedFollow(p, q, m) == SharedPoint(p, Get(m, q).v, m)
SharedAssign(p, q, m) == SharedFollow(p, q, SharedClear(p, m))

(* implement_owned_assign_raw, from a plain pointer *)
OwnedAssignRaw(p, v, m) == SetNumber(OwnedClear(p, m), p, v)

(* implement_optional_assign *)
OptionalFill(t, p, q, m) ==
    SetNum(IF Count(m, q) = 0 THEN m
           ELSE Assign(Content(t), Part(p, 1), Part(q, 1), Construct(Content(t), Part(p, 1), m)), p, Count(m, q))
OptionalAssign(t, p, q, m) == OptionalFill(t, p, q, OptionalClear(t, p, m))

(* implement_optional_assign_raw *)
OptionalAssignRaw(t, p, x, m) ==
    LET made == IF Count(m, p) = 0 THEN Construct(Content(t), Part(p, 1), m) ELSE m
    IN SetNum(Assign(Content(t), Part(p, 1), x, made), p, 1)

(* implement_result_assign: the content is destructed and constructed only if
   the state changes. *)
ResultFill(t, p, q, m) ==
    IF Count(m, q) = 0 THEN m ELSE Assign(Held(t, Count(m, q)), Part(p, 1), Part(q, 1), m)
ResultAssign(t, p, q, m) ==
    ResultFill(t, p, q, IF Count(m, p) = Count(m, q) THEN m
                        ELSE ResultConstruct(t, p, SetNum(ResultClear(t, p, m), p, Count(m, q))))

(* parts i.. of q to those of p: implement_regular_assign, implement_array_assign *)
AssignParts(ts, p, q, i, m) ==
    IF i > Len(ts) \/ ~m.sound THEN m
    ELSE AssignParts(ts, p, q, i + 1, Assign(ts[i], Part(p, i), Part(q, i), m))

(* The assignment of what is at q, by reference. *)
Assign(t, p, q, m) ==
    CASE t.k \in {"product", "array"} -> AssignParts(t.of, p, q, 1, m)
      [] t.k = "int" -> IF Get(m, q).k = "int" THEN SetNumber(m, p, Get(m, q).v) ELSE Wrong(m)
      [] t.k = "owned" -> IF Get(m, p).k = "owned" /\ Get(m, q).k = "int"
                          THEN OwnedAssignRaw(p, Get(m, q).v, m) ELSE Wrong(m)
      [] OTHER -> IF Get(m, p).k # t.k \/ Get(m, q).k # t.k THEN Wrong(m)
                  ELSE CASE t.k = "string" -> SetNumber(m, p, Get(m, q).v)
                         [] t.k = "list" -> ListAssign(t, p, q, m)
                         [] t.k = "dict" -> DictSetAll(t, p, q, 1, DictClear(t, p, m))
                         [] t.k = "optional" -> OptionalAssign(t, p, q, m)
                         [] t.k = "result" -> ResultAssign(t, p, q, m)
                         [] t.k = "shared" -> SharedAssign(p, q, m)

(* The operators == and !=.  Only products have a != of their own, and it is
   true only if all parts differ (implement_product_not_equal). *)
RECURSIVE Equal(_, _, _, _)
NotEqual(t, p, q, m) ==
    IF t.k = "product" THEN \A i \in DOMAIN t.of : ~Equal(t.of[i], Part(p, i), Part(q, i), m)
    ELSE ~Equal(t, p, q, m)

(* Mutant: lists are equal if the elements of the first are found in the second. *)
Equal_Prefix(t, p, q, m) ==
    IF t.k = "list" THEN \A i \in 1..Count(m, p) :
                             i <= Count(m, q) /\ ~NotEqual(Content(t), Element(m, p, i), Element(m, q, i), m)
    ELSE Get(m, p) = Get(m, q)

Equal(t, p, q, m) ==
    CASE t.k = "product" -> \A i \in DOMAIN t.of : ~NotEqual(t.of[i], Part(p, i), Part(q, i), m)
      [] t.k = "list" -> /\ Count(m, p) = Count(m, q)
                         /\ \A i \in 1..Count(m, p) :
                                ~NotEqual(Content(t), Element(m, p, i), Element(m, q, i), m)
      [] t.k = "optional" -> IF Count(m, p) = 1 /\ Count(m, q) = 1
                             THEN Equal(Content(t), Part(p, 1), Part(q, 1), m)
                             ELSE Count(m, p) = Count(m, q)
      [] t.k = "result" -> IF Count(m, p) = 1 /\ Count(m, q) = 1
                           THEN Equal(Content(t), Part(p, 1), Part(q, 1), m)
                           ELSE Count(m, p) = Count(m, q)
      [] OTHER -> Get(m, p).v = Get(m, q).v

(***************************************************************************)
(* Statements, on the variables 1..Len(decl).                               *)
(***************************************************************************)
Variable(u) == At(u, <<>>)

(* A function's result or a converted value in a hidden variable: assigned,
   destructed, gone. *)
AssignTemp(t, p, temp, m) == Released(Destruct(t, temp, Assign(t, p, temp, m)), temp.b)
NewTemp(t, m) == Allocated(m, Unused(m), Raw(t))

(* implement_result_constructor_value *)
ResultOfValue(t, temp, x, m) ==
    Assign(Content(t), Part(temp, 1), x, Construct(Content(t), Part(temp, 1), SetNum(Make(m, temp, t), temp, 1)))

(* implement_result_constructor_error *)
ResultOfError(t, temp, n, m) ==
    SetNumber(ResultConstruct(t, temp, SetNum(Make(m, temp, t), temp, 2)), Part(temp, 1), n)

(* implement_list_join, and the return of r *)
ListJoin(t, temp, p, q, m) ==
    LET r == At(Unused(m), <<>>)
    IN AssignTemp(t, temp, r,
           Make(ListJoinInto(t, r, q, ListAssign(t, r, p, Make(NewTemp(t, m), r, t))), temp, t))

(* implement_list_give: the buffer moves to a list of plain pointers. *)
ListGive(t, temp, p, m) ==
    LET list == Get(m, p)
        plain == [i \in DOMAIN m.heap[list.v].of |->
                     IF i <= list.num THEN [m.heap[list.v].of[i] EXCEPT !.k = "int"] ELSE Raw(Xfer)]
        moved == [Put(m, temp, list) EXCEPT !.live = @ - list.num]
    IN MemForget(p, IF list.v = 0 THEN moved ELSE [moved EXCEPT !.heap[list.v].of = plain])

(* new: memory for the object, and its constructor. *)
NewObject(b, n, m) ==
    LET raw == Allocated(m, b, Storage("object", 0, 0, <<Raw(String)>>))
    IN SetNumber(Construct(String, At(b, <<1>>), raw), At(b, <<1>>), n)

(* Assignments: what goes where, and of which type. *)
Copying == {"assign", "set part", "get part", "get", "get key"}
Target(s) == IF s.op = "set part" THEN Part(Variable(s.u), s.n) ELSE Variable(s.u)
Source(s, w, m) ==
    CASE s.op = "get part" -> Part(w, s.n)
      [] s.op = "get" -> Element(m, w, s.n)
      [] s.op = "get key" -> ValueOf(m, w, DictFind(w, s.n, m))
      [] OTHER -> w

(* Values a function makes in a hidden variable. *)
Making == {"value", "error", "join"}
Made(s, t, temp, w, m) ==
    CASE s.op = "value" -> ResultOfValue(t, temp, w, m)
      [] s.op = "error" -> ResultOfError(t, temp, s.n, m)
      [] s.op = "join" -> ListJoin(t, temp, w, Variable(s.n), m)

(* A list's new element: an owned pointer is given away and converted. *)
Passed(t, temp, w, m) ==
    IF Content(t) # Owned THEN m
    ELSE Allocated(SetNumber(m, w, 0), temp.b, Storage("int", Get(m, w).v, 0, <<>>))
Dropped(t, temp, m) == IF Content(t) # Owned THEN m ELSE Released(m, temp.b)

Execute(s, decl, m) ==
    LET t == decl[s.u]
        u == Variable(s.u)
        w == Variable(s.w)
        temp == At(Unused(m), <<>>)
    IN CASE s.op \in Copying -> Assign(IF s.op = "set part" THEN t.of[s.n] ELSE t, Target(s), Source(s, w, m), m)
         [] s.op = "set" -> SetNumber(m, u, s.n)
         [] s.op = "none" /\ t.k = "optional" -> SetNum(OptionalClear(t, u, m), u, 0)
         [] s.op = "clear" \/ (s.op = "none" /\ t.k # "optional") -> Clear(t, u, m)
         [] s.op = "value" /\ t.k = "optional" -> OptionalAssignRaw(t, u, w, m)
         [] s.op \in Making /\ t.k # "optional" -> AssignTemp(t, u, temp, Made(s, t, temp, w, NewTemp(t, m)))
         [] s.op = "add" ->
                Dropped(t, temp, ListAdd(t, u, IF Content(t) = Owned THEN temp ELSE w, Passed(t, temp, w, m)))
         [] s.op = "remove" -> ListRemove(t, u, s.n, m)
         [] s.op = "resize" -> ListResize(t, u, s.n, m)
         [] s.op = "join into" -> ListJoinInto(t, u, w, m)
         [] s.op = "set key" -> DictSet(t, u, s.n, w, m)
         [] s.op = "new" /\ t = Shared -> SharedPoint(u, temp.b, SharedClear(u, NewObject(temp.b, s.n, m)))
         [] s.op = "new" /\ t = Owned -> OwnedAssignRaw(u, temp.b, NewObject(temp.b, s.n, m))
         [] s.op = "give" /\ t = Owned -> OwnedAssignRaw(u, Get(m, w).v, SetNumber(m, w, 0))
         [] s.op = "give" /\ t # Owned ->
                Released(Unmake(MemClear(temp, ListAssign(t, u, temp, ListGive(t, temp, w, Make(NewTemp(t, m), temp, t)))),
                                temp, t), temp.b)
         [] s.op = "declare" -> Construct(t, u, Destruct(t, u, m))

(***************************************************************************)
(* A program: a declaration, then any statements.                           *)
(***************************************************************************)
VARIABLES decl, heap, live, sound
vars == <<decl, heap, live, sound>>

RECURSIVE ConstructVariables(_, _, _)
ConstructVariables(d, u, m) ==
    IF u > Len(d) THEN m ELSE ConstructVariables(d, u + 1, Construct(d[u], Variable(u), m))

Declared(d) ==
    ConstructVariables(d, 1, Machine([b \in Blocks |-> IF b \in DOMAIN d THEN Raw(d[b]) ELSE Free], 0))

Init == /\ decl \in Declarations
        /\ \E m \in {Declared(decl)} : heap = m.heap /\ live = m.live /\ sound = m.sound

(* The value at a place. *)
RECURSIVE ValueAt(_, _, _)
ValueAt(t, p, m) ==
    LET s == Get(m, p)
        At1(i) == ValueAt(Content(t), Part(p, i), m)
    IN CASE t.k \in {"product", "array"} -> Val(t.k, 0, [i \in DOMAIN t.of |-> ValueAt(t.of[i], Part(p, i), m)])
         [] t.k = "list" -> Val("list", 0, [i \in 1..s.num |-> ValueAt(Content(t), Element(m, p, i), m)])
         [] t.k = "dict" -> Val("dict", 0, [key \in Keys |->
                                LET i == DictFind(p, key, m)
                                IN IF i = 0 THEN None ELSE Some(ValueAt(Content(t), ValueOf(m, p, i), m))])
         [] t.k = "optional" -> IF s.num = 1 THEN Some(At1(1)) ELSE None
         [] t.k = "result" -> Val("result", s.num, CASE s.num = 1 -> <<At1(1)>>
                                                     [] s.num = 2 -> <<ValueAt(String, Part(p, 1), m)>>
                                                     [] OTHER -> <<>>)
         [] OTHER -> Val(t.k, s.v, <<>>)

Values(d, m) == [u \in DOMAIN d |-> ValueAt(d[u], Variable(u), m)]
Now == Machine(heap, live)

Used(h) == Cardinality({b \in DOMAIN h : h[b] # Free})

(* Addresses mean nothing: the blocks in the order the variables, and what they
   lead to, refer to them; behind these any that are not reached. *)
RECURSIVE Reached(_, _, _)
Reached(order, i, h) ==
    IF i > Len(order) THEN order
    ELSE Reached(FoldLeft(LAMBDA o, b : IF b \in Range(o) THEN o ELSE Append(o, b), order, Targets(h[order[i]])),
                 i + 1, h)

RECURSIVE Renamed(_, _)
Renamed(s, name) ==
    [s EXCEPT !.v = IF s.k \in Referrers /\ s.v > 0 THEN name[s.v] ELSE s.v,
              !.of = [i \in DOMAIN s.of |-> Renamed(s.of[i], name)]]

InOrder(d, h) ==
    LET reached == Reached([u \in DOMAIN d |-> u], 1, h)
        order == reached \o SelectSeq([b \in Blocks |-> b], LAMBDA b : b \notin Range(reached))
        name == [b \in Blocks |-> CHOOSE i \in Blocks : order[i] = b]
    IN [i \in Blocks |-> Renamed(h[order[i]], name)]

Do(s) ==
    /\ sound /\ Allowed(s, Values(decl, Now))
    /\ \E m \in {Execute(s, decl, Now)} :
           /\ Used(m.heap) <= MaxUsed
           /\ heap' = InOrder(decl, m.heap) /\ live' = m.live /\ sound' = m.sound
    /\ UNCHANGED decl

AllStatements(d) == UNION {Assignments(d), Settings(d), Parts(d), ListStatements(d),
                           DictStatements(d), PointerStatements(d), Redeclarations(d)}

Next == \E s \in AllStatements(decl) : Do(s)

Spec == Init /\ [][Next]_vars

----------------------------------------------------------------------------
(* The list, dictionary or pointer storages that refer to block b. *)
RECURSIVE Referring(_)
Referring(s) == (IF Live(s) THEN <<s>> ELSE <<>>) \o FlattenSeq([i \in DOMAIN s.of |-> Referring(s.of[i])])
References(b) ==
    SelectSeq(FlattenSeq([c \in DOMAIN heap |-> Referring(heap[c])]),
              LAMBDA s : s.k \in Referrers /\ s.v = b)

(* Every access is to memory that is there and holds a constructed value of
   the expected type: constructors only ever meet raw memory, destructors and
   assignments only constructed values, and nothing is used after its buffer
   or object was freed. *)
Sound == sound

(* Nothing is lost and nothing is shared that must not be: all that was
   constructed and not destructed lies in the heap; every buffer belongs to one
   list or dictionary, every object to one owned pointer or to as many shared
   ones as it counts, and nothing refers to freed memory. *)
NothingLost ==
    /\ live = FoldLeft(LAMBDA n, s : n + LiveIn(s), 0, heap)
    /\ \A b \in Blocks \ DOMAIN decl :
           \E refs \in {References(b)} :
               LET kinds == {refs[i].k : i \in DOMAIN refs}
               IN \/ heap[b].k = "free" /\ refs = <<>>
                  \/ heap[b].k = "buffer" /\ Len(refs) = 1 /\ kinds \subseteq {"list", "dict"}
                  \/ heap[b].k = "object" /\ Len(refs) = 1 /\ kinds = {"owned"}
                  \/ heap[b].k = "object" /\ Len(refs) = heap[b].num /\ kinds = {"shared"}

(* Each statement does what ObjectTypes promises: the variables it names get
   their new values, and no other variable changes its value through memory
   they share. *)
KeepsPromise ==
    \E old \in {Values(decl, Now)} :
        \A s \in AllStatements(decl) :
            Allowed(s, old) => \E m \in {Execute(s, decl, Now)} :
                                  Promise(s, decl, old, Values(decl, Machine(m.heap, m.live)))

(* == holds exactly between equal values, and != between different ones.
   (Left out: products have no right != once they have two parts, so neither
   do lists and products of products.) *)
EqualMeansSame ==
    \A u \in DOMAIN decl : \A w \in {w \in DOMAIN decl : decl[u] = decl[w] /\ Comparable(decl[u])} :
        LET same == Same(ValueAt(decl[u], Variable(u), Now), ValueAt(decl[w], Variable(w), Now))
        IN /\ Equal(decl[u], Variable(u), Variable(w), Now) = same
           /\ decl[u].k # "product" => NotEqual(decl[u], Variable(u), Variable(w), Now) = ~same
=============================================================================
