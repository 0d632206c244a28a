--------------------------- MODULE LinkedClasses ---------------------------
(***************************************************************************)
(* The classes of a module once its text is read: what is rejected when the *)
(* compiler writes their functions, the tables of virtual functions         *)
(* (Class::link_virtual_table), and how the classes lie in memory.          *)
(***************************************************************************)
EXTENDS ClassTable, FiniteSets

VARIABLE tables
vars == <<classes, open, declared, text, phase, tables>>

IsParsed(c) == classes[c].parsed
Parent(c) == classes[c].parent

(***************************************************************************)
(* What the compiler rejects when it writes the functions.                  *)
(***************************************************************************)
FromParent(c) == IF Parent(c) = Nobody THEN 0 ELSE Len(classes[Parent(c)].elements)
Own(c) == {i \in DOMAIN classes[c].elements : i > FromParent(c)}
(* The parent's constructor that a constructor calls: the one it names, or the
   one with the same parameters, or the default one. *)
ParentConstructor(c, f) ==
    LET parent == classes[Parent(c)]
        same == Find(parent, "init", f.params)
    IN IF f.super # {} THEN UNION {Find(parent, "init", p) : p \in f.super}
       ELSE IF same # {} THEN same ELSE Default(parent)
SkipsParent(c, f) == Parent(c) # Nobody /\ f.body # "fill" /\ ParentConstructor(c, f) = {}
Unwritable(c, f) ==
    \/ \E i \in Own(c) : LET t == classes[c].elements[i].type IN TypeNeedsConstructor(t) /\ ~HasDefault(t)
    \/ SkipsParent(c, f) /\ (f.super # {} \/ classes[Parent(c)].needs)
    \* the call that builds a value in place becomes part of the first constructor
    \/ /\ \E i \in DOMAIN classes[c].initial : classes[c].initial[i].how = "build"
       /\ Len(Constructors(classes[c])) > 1 \/ classes[c].meta = "trait" \/ text[c].header.trait # Nobody
UnwritableAssign(c) ==
    /\ Find(classes[c], "assign", <<c>>) # {}
    /\ \/ Parent(c) # Nobody /\ ~HasAssign(Parent(c))
       \/ \E i \in Own(c) : ~HasAssign(classes[c].elements[i].type)
(* A class without a default constructor is made without any, by a class that
   holds or extends it, if it seems to need none. *)
Skips(c, f) ==
    \/ SkipsParent(c, f) /\ Constructors(classes[Parent(c)]) # <<>>
    \/ \E i \in Own(c) : LET t == classes[c].elements[i].type
                        IN ~IsBasic(t) /\ Constructors(classes[t]) # <<>> /\ ~HasDefault(t)
Faulty(c) == \/ \E f \in ToSet(UserConstructors(classes[c])) : Unwritable(c, f)
             \/ UnwritableAssign(c)

(***************************************************************************)
(* Class::link_virtual_table, for one class after the other.                *)
(***************************************************************************)
NoFunction == Function("", <<>>, Nobody, Nobody)
External == Function("__delete_external__", <<>>, Nobody, "external")
Link(linked, c) ==
    LET fs == classes[c].functions
        at(i) == {j \in DOMAIN fs : fs[j].vindex = i}
        inherited(i) == IF Parent(c) # Nobody /\ i \in DOMAIN linked[Parent(c)] THEN linked[Parent(c)][i] ELSE NoFunction
        entry(i) == IF at(i) # {} THEN fs[Max(at(i))] ELSE IF i = 1 THEN External ELSE inherited(i)
    IN [linked EXCEPT ![c] = [i \in 0..(classes[c].vtable - 1) |-> entry(i)]]
Linked ==
    LET linked[n \in 0..Len(Names)] == IF n = 0 THEN tables ELSE Link(linked[n - 1], Names[n])
    IN linked[Len(Names)]

Compile ==
    /\ phase = "reading" /\ open = <<>> /\ declared = Len(Names)
    /\ \A c \in Classes : \A f \in ToSet(UserConstructors(classes[c])) :
          Skips(c, f) => Faulty(c) \/ Allowed("constructor that is skipped")
    /\ IF \E c \in Classes : Faulty(c)
       THEN Reject /\ UNCHANGED tables
       ELSE /\ phase' = "compiled" /\ tables' = Linked
            /\ UNCHANGED <<classes, open, declared, text>>

Init == TableInit /\ tables = [c \in Classes |-> <<>>]
Next == (ReadLine /\ UNCHANGED tables) \/ Compile
Spec == Init /\ [][Next]_vars

(* What a call that goes through an object's table finds there. *)
Entry(c, i) == IF i \in DOMAIN tables[c] THEN tables[c][i] ELSE NoFunction

Compiled == IF phase = "compiled" THEN {c \in Classes : IsParsed(c)} ELSE {}
-----------------------------------------------------------------------------
(***************************************************************************)
(* What the text says.                                                     *)
(***************************************************************************)
(* The lines that say what a class consists of; those of its trait come first. *)
Written(c) ==
    LET trait == text[c].header.trait
    IN (IF trait = Nobody THEN <<>> ELSE text[trait].lines) \o text[c].lines
(* The classes above a class, and itself: all that its header leads to. *)
Extended(c) == text[c].header.extends
Above(c) ==
    {a \in Classes : \A S \in SUBSET Classes :
                        c \in S /\ (\A d \in S : Extended(d) \in S \cup {Nobody}) => a \in S}
Lowest(S) == CHOOSE a \in S : S \subseteq Above(a)
Highest(S) == CHOOSE a \in S : \A b \in S : a \in Above(b)

(* The lines of a class with a function; constructors and destructors of a trait
   are its own. *)
Methods(c, name) ==
    {k \in DOMAIN Written(c) :
        LET l == Written(c)[k] IN l.k = "func" /\ l.f.name = name /\ (name \in {"init", "delete"} => l.f.of = c)}
Declarers(c, name) == {a \in Above(c) : Methods(a, name) # {}}
First(c, name) == Written(c)[Min(Methods(c, name))].f

(* A call of a virtual function, compiled for any class above an object's own,
   reaches the last override on the way down to the object's class; and a
   function is virtual exactly if its first declaration says so.
   (Class::add_function, derive_from, link_virtual_table) *)
VirtualCalls ==
    \A c \in Compiled : \A a \in Above(c) : \A f \in ToSet(classes[a].functions) :
       LET declarers == Declarers(c, f.name)
           reached == IF f.vindex >= 0 THEN Entry(c, f.vindex) ELSE f
       IN /\ reached.name = f.name /\ reached.body # Nobody
          /\ f.name = "delete" /\ f.vindex >= 0 => reached.of = c
          /\ f.name \notin {"init", "assign", "delete"} =>
                /\ reached.of = Lowest(IF f.vindex >= 0 THEN declarers ELSE Declarers(a, f.name))
                /\ f.vindex >= 0 <=> IsVirtual(First(Highest(declarers), f.name))
-----------------------------------------------------------------------------
(***************************************************************************)
(* How a class lies in memory.                                             *)
(***************************************************************************)
Variables(c) == {k \in DOMAIN Written(c) : Written(c)[k].k = "var"}
Shown(c) == {i \in Own(c) : ~Hidden(classes[c].elements[i])}
IsFor(c, i, k) == classes[c].elements[i].name = Written(c)[k].name

(* Each variable has an element, in the order of the text, and there are no others. *)
InOrder(c) ==
    /\ \A k \in Variables(c) : \E i \in Shown(c) : IsFor(c, i, k)
    /\ \A i \in Shown(c) : \E k \in Variables(c) : IsFor(c, i, k)
    /\ \A i, j \in Shown(c) : \A k, l \in Variables(c) : IsFor(c, i, k) /\ IsFor(c, j, l) => (i < j <=> k < l)
Extends(c) == Parent(c) # Nobody => IsPrefix(classes[Parent(c)].elements, classes[c].elements)
(* The elements of a class that has got as far as "end". *)
Laid(cl, end) ==
    \A i \in DOMAIN cl.elements :
       LET e == cl.elements[i]
       IN /\ e.offset % Align(e.type) = 0
          /\ e.offset + Size(e.type) <= IF i < Len(cl.elements) THEN cl.elements[i + 1].offset ELSE end
Whole(cl) ==
    /\ Laid(cl, cl.size) /\ cl.size % cl.align = 0
    /\ \A e \in ToSet(cl.elements) : cl.align % Align(e.type) = 0
    /\ cl.vtable > 0 => cl.elements # <<>> /\ cl.elements[1] = VtableVar

(* Every class is laid out over its parent: the parent's elements where they
   were, its own behind them, one for each variable and in the order of the
   text, each aligned, none over another, all inside; and the room for the table
   comes first.
   (derive_from, parser_class_add_element, post_process_newly_parsed_class) *)
LayoutExtends == \A c \in Compiled : Extends(c) /\ InOrder(c) /\ Whole(classes[c])

(***************************************************************************)
(* Why it is so, while the text is read.                                   *)
(***************************************************************************)
Types == Classes \cup DOMAIN Basic
Alignments == {1} \cup {Basic[t].align : t \in DOMAIN Basic}
ElementSet == [name : (Classes \X Nat) \cup {VtableVar.name}, type : Types, offset : Nat]
FrameSet == [class : Classes, end : Nat, later : Seq(Headers), closed : BOOLEAN, stage : Nat]
IsClass(cl) ==
    /\ DOMAIN cl = DOMAIN NewClass
    /\ cl.parent \in Classes \cup {Nobody} /\ cl.elements \in Seq(ElementSet)
    /\ cl.size \in Nat /\ cl.align \in Alignments /\ cl.parsed \in BOOLEAN
IsText(t) ==
    /\ DOMAIN t = DOMAIN NoText
    /\ t.header.trait \in Classes \cup {Nobody} /\ t.lines \in Seq(ToSet(t.lines))
TableType ==
    /\ classes = [c \in Classes |-> classes[c]] /\ \A c \in Classes : IsClass(classes[c])
    /\ text = [c \in Classes |-> text[c]] /\ \A c \in Classes : IsText(text[c])
    /\ open \in Seq(FrameSet) /\ declared \in 0..Len(Names)

(* No class is read twice at a time. *)
OpenOnce == \A i, j \in DOMAIN open : open[i].class = open[j].class => i = j

(* A class whose header waits is neither read nor parsed, and waits only once;
   its parent and its trait are not among the classes around it. *)
Untouched(c) == ~classes[c].parsed /\ ~IsOpen(c) /\ text[c] = NoText
Undeclared == {Names[n] : n \in declared + 1 .. Len(Names)}
Waiting ==
    /\ \A c \in Undeclared : Untouched(c)
    /\ \A i \in DOMAIN open : \A k \in DOMAIN open[i].later :
          LET h == open[i].later[k]
          IN /\ h.name \in Classes \ Undeclared /\ Untouched(h.name)
             /\ \A j \in 1..i : open[j].class \notin {h.extends, h.trait}
    /\ \A i, j \in DOMAIN open : \A k \in DOMAIN open[i].later : \A l \in DOMAIN open[j].later :
          open[i].later[k].name = open[j].later[l].name => i = j /\ k = l
    /\ \A i \in DOMAIN open : open[i].closed => open[i].later # <<>>

(* What a class is made of is complete, and stays as it is. *)
UsedBy(d) ==
    Classes \cap ({classes[d].parent, text[d].header.trait} \cup {e.type : e \in ToSet(classes[d].elements)})
UsersWait == \A d \in Classes : \A t \in UsedBy(d) : t # d /\ classes[t].parsed /\ ~IsOpen(t)

InWork(c) == \E i \in DOMAIN open : open[i].class = c /\ ~open[i].closed
SoFar ==
    /\ \A i \in DOMAIN open : ~open[i].closed => Laid(classes[open[i].class], open[i].end)
    /\ \A c \in Classes : ~InWork(c) => Whole(classes[c])
    /\ \A c \in Classes : Extends(c) /\ InOrder(c)
(* A variable is named after its line, so names do not meet. *)
NamedAfterLine ==
    \A c \in Classes : \A n \in DOMAIN text[c].lines :
       text[c].lines[n].k = "var" => text[c].lines[n].name = <<c, n>>
TraitsArePlain ==
    \A c \in Classes : classes[c].meta = "trait" => Parent(c) = Nobody /\ text[c].header.trait = Nobody

TableInv == TableType /\ OpenOnce /\ Waiting /\ UsersWait /\ SoFar /\ NamedAfterLine /\ TraitsArePlain
-----------------------------------------------------------------------------
(***************************************************************************)
(* Why calls find their function: the functions of each class, while the    *)
(* text is read.                                                           *)
(***************************************************************************)
IsPlain(name) == name \notin {"init", "assign", "delete"}
(* A function that a class c has or inherits. *)
IsFunction(f, c) ==
    /\ DOMAIN f = DOMAIN NoFunction /\ f.vindex \in Int
    /\ IF f.name \in {"init", "assign"} THEN f.vindex = -1 /\ ~IsVirtual(f) ELSE f.params = <<>>
    /\ f.name = "delete" => f.of = c
    /\ IsPlain(f.name) /\ ~IsOverride(f) => (IsVirtual(f) <=> f.vindex >= 0)
    /\ f.body = Nobody => f.name \in {"init", "delete"}
(* No two functions of a class have the same signature, or the same of its n places. *)
IsTable(fs, n, c) ==
    /\ fs \in Seq(ToSet(fs)) /\ n \in Nat
    /\ \A f \in ToSet(fs) : IsFunction(f, c) /\ (f.vindex = -1 \/ f.vindex \in 2..(n - 1))
    /\ \A i, j \in DOMAIN fs :
          SameSignature(fs[i], fs[j]) \/ (fs[i].vindex = fs[j].vindex /\ fs[i].vindex >= 0) => i = j

(* The functions follow from those of the parent and the lines read so far: a
   name that is declared belongs to the class, and is virtual as its first line
   says if it is new; places are kept; and while the class is in work, what
   stands for constructors and destructor has no body yet. *)
LinesFor(lines, name) == {k \in DOMAIN lines : lines[k].k = "func" /\ lines[k].f.name = name}
FirstOf(lines, name) == lines[Min(LinesFor(lines, name))].f
Follows(c, fs, above, lines, working) ==
    /\ \A f \in fs : IsPlain(f.name) =>
          /\ IF LinesFor(lines, f.name) # {} THEN f.of = c ELSE f \in above
          /\ (\A g \in above : g.name # f.name) => (f.vindex >= 0 <=> IsVirtual(FirstOf(lines, f.name)))
    /\ \A k \in DOMAIN lines : lines[k].k = "func" /\ IsPlain(lines[k].f.name) => \E f \in fs : f.name = lines[k].f.name
    /\ \A g \in above : g.name \notin {"init", "assign"} => \E f \in fs : f.name = g.name /\ f.vindex = g.vindex
    /\ \A f \in fs : f.body = Nobody => working /\ (f.name = "init" => \E g \in above : SameSignature(f, g))
FunctionsAbove(c) == IF Parent(c) = Nobody THEN {} ELSE ToSet(classes[Parent(c)].functions)
HasFunctions(c) ==
    /\ IsTable(classes[c].functions, classes[c].vtable, c)
    /\ Follows(c, ToSet(classes[c].functions), FunctionsAbove(c), Written(c), InWork(c))

(* Parents are those of the text, and no class is above itself. *)
ParentsAreAbove ==
    /\ \A c \in Classes : Extended(c) = Parent(c)
    /\ \A S \in SUBSET Classes : S # {} => \E c \in S : Parent(c) \notin S
(* In the end each place has its function. *)
TablesLinked ==
    /\ tables = [c \in Classes |-> tables[c]]
    /\ phase = "compiled" =>
          \A c \in Classes : \A f \in ToSet(classes[c].functions) : f.vindex >= 0 => Entry(c, f.vindex) = f

FunctionInv == (\A c \in Classes : HasFunctions(c)) /\ ParentsAreAbove /\ TablesLinked
=============================================================================
