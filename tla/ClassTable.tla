---------------------------- MODULE ClassTable ----------------------------
(***************************************************************************)
(* The classes of a module while its text is read: Parser.cpp walks through *)
(* the declarations once, and every class gets its elements with their      *)
(* offsets, its functions with their places in the table of virtual         *)
(* functions, and the headers of the functions the compiler writes itself.  *)
(* syntax/Class.cpp does the inheriting.                                    *)
(*                                                                         *)
(* No program is given: every action reads one more line of it.             *)
(* Abstracted: within a class, nested classes come first, then variables,   *)
(* then functions in a fixed order (they touch different parts of the       *)
(* class); names of variables are unique; methods take no parameters; a     *)
(* class has at most one trait.                                            *)
(***************************************************************************)
EXTENDS Integers, SequencesExt

CONSTANTS Names,         \* the classes, in the order in which they are declared
          Basic,         \* for every other type: size, align, managed
          PointerSize,
          Headers,       \* the headers they may have
          VariableLines, \* the variables a class may have: type, and how it gets a value
          FunctionLines, \* the functions a class may have, in the order they come in:
                         \* name, params, flags, super
          MaxLines, MaxDepth, \* lines inside of classes, classes inside of classes
          Defects        \* what a program may do although the code has it wrong
VARIABLES classes, open, declared, text, phase
table == <<classes, open, declared, text, phase>>

ASSUME TableConstants ==
    /\ Names \in Seq(ToSet(Names)) /\ IsInjective(Names)
    /\ PointerSize \in Nat \ {0} /\ MaxLines \in Nat /\ MaxDepth \in Nat
    /\ \A t \in DOMAIN Basic : /\ Basic[t].size \in Nat \ {0} /\ Basic[t].align \in Nat \ {0}
                               /\ PointerSize % Basic[t].align = 0
    \* alignments are powers of two
    /\ \A s, t \in DOMAIN Basic : Basic[s].align <= Basic[t].align => Basic[t].align % Basic[s].align = 0
    /\ "pointer" \in DOMAIN Basic /\ Basic["pointer"].size = PointerSize
    /\ ToSet(Names) \cap (DOMAIN Basic \cup {"nobody"}) = {}
    /\ \A h \in Headers : /\ {h.extends, h.trait} \subseteq (ToSet(Names) \cup {"nobody"}) \ {h.name}
                          /\ h.meta = "trait" => h.extends = "nobody" /\ h.trait = "nobody"
    /\ FunctionLines \in Seq(ToSet(FunctionLines))
    /\ \A v \in VariableLines : v[1] \in ToSet(Names) \cup DOMAIN Basic

(* Methods take no parameters; a call of a constructor or an assignment names its
   class and does not go through the table. *)
ASSUME FunctionConstants ==
    \A n \in DOMAIN FunctionLines :
       LET l == FunctionLines[n]
       IN IF l.name \in {"init", "assign"} THEN "virtual" \notin l.flags ELSE l.params = <<>>

Classes == ToSet(Names)
Final(s) == s[Len(s)]
Larger(a, b) == IF a > b THEN a ELSE b
MemAlign(offset, align) == offset + ((align - (offset % align)) % align)
Strictest(aligns) == CHOOSE a \in aligns : \A b \in aligns : b <= a

(***************************************************************************)
(* A class.  "vtable" is the length of its table of virtual functions,      *)
(* "initial" says which element gets the value of which variable, and how:  *)
(* assigned, or built in place by a call of a constructor.  "parsed" is its *)
(* flag FullyParsed.                                                       *)
(***************************************************************************)
Nobody == "nobody"
NewClass == [parent |-> Nobody, meta |-> "class", elements |-> <<>>, functions |-> <<>>, initial |-> <<>>,
             vtable |-> 0, size |-> 0, align |-> 1, parsed |-> FALSE, chunk |-> FALSE, needs |-> FALSE]
Element(name, type, offset) == [name |-> name, type |-> type, offset |-> offset]
VtableVar == Element(<<"-vtable-", 0>>, "pointer", 0)
Initial(element, of, how) == [element |-> element, of |-> of, how |-> how]
Hidden(e) == e.name = VtableVar.name

(* A function: whose it is, its place in the table (or -1), and who writes its
   body: the user, the compiler, the compiler for a constructor that takes all
   elements ("fill"), or nobody yet.  "super" has the parameters of an explicit
   call of the parent's constructor, "flags" what stands in front of it in the
   text: "virtual", "override"; and "early" if its body returns before its end. *)
Function(name, params, of, body) ==
    [name |-> name, params |-> params, of |-> of, body |-> body, vindex |-> -1, super |-> {}, flags |-> {}]
IsVirtual(f) == "virtual" \in f.flags
IsOverride(f) == "override" \in f.flags
(* The entries of s that are in T, in their order. *)
Selected(s, T) ==
    LET of[i \in 0..Len(s)] ==
            IF i = 0 THEN <<>> ELSE IF s[i] \in T THEN Append(of[i - 1], s[i]) ELSE of[i - 1]
    IN of[Len(s)]
SameSignature(f, g) == f.name = g.name /\ f.params = g.params
Find(cl, name, params) == {f \in ToSet(cl.functions) : f.name = name /\ f.params = params}
Default(cl) == Find(cl, "init", <<>>)
Destructor(cl) == Find(cl, "delete", <<>>)
Constructors(cl) == Selected(cl.functions, {f \in ToSet(cl.functions) : f.name = "init"})
UserConstructors(cl) == SelectSeq(Constructors(cl), LAMBDA f : f.body # Nobody)

IsBasic(t) == t \in DOMAIN Basic
Align(t) == IF IsBasic(t) THEN Basic[t].align ELSE classes[t].align
Size(t) == IF IsBasic(t) THEN Basic[t].size ELSE classes[t].size
SizeKnown(t) == IF IsBasic(t) THEN TRUE ELSE classes[t].parsed
HasDefault(t) == IF IsBasic(t) THEN Basic[t].managed ELSE Default(classes[t]) # {}
HasAssign(t) == IF IsBasic(t) THEN TRUE ELSE Find(classes[t], "assign", <<t>>) # {}
CopiedAsChunk(t) == IF IsBasic(t) THEN ~Basic[t].managed ELSE classes[t].chunk
TypeNeedsConstructor(t) == IF IsBasic(t) THEN Basic[t].managed ELSE classes[t].needs

CanMemcpy(cl) ==
    /\ cl.vtable = 0 /\ Constructors(cl) = <<>> /\ Destructor(cl) = {}
    /\ cl.parent # Nobody => classes[cl.parent].chunk
    /\ \A e \in ToSet(cl.elements) : CopiedAsChunk(e.type)
NeedsConstructor(cl) ==
    \/ cl.initial # <<>> \/ cl.vtable > 0
    \/ cl.parent # Nobody /\ classes[cl.parent].needs
    \/ \E e \in ToSet(cl.elements) : TypeNeedsConstructor(e.type) \/ HasDefault(e.type)

(***************************************************************************)
(* Class::add_function: a function that overrides takes the place of the    *)
(* one it overrides, in the list and in the table of virtual functions.     *)
(***************************************************************************)
Overridden(cl, f) == {i \in DOMAIN cl.functions : SameSignature(f, cl.functions[i])}
AddFunction(cl, f, virtual, override) ==
    LET orig == CHOOSE i \in Overridden(cl, f) : TRUE
        vindex == IF override THEN cl.functions[orig].vindex
                  ELSE IF virtual THEN Larger(cl.vtable, 2) ELSE -1
        g == [f EXCEPT !.vindex = vindex]
    IN [cl EXCEPT !.functions = IF override THEN [@ EXCEPT ![orig] = g] ELSE Append(@, g),
                  !.vtable = Larger(@, vindex + 1)]

(* The headers of what the compiler will write, once the class is complete: none
   of them is virtual or gets a new place in the table. *)
AddHeader(cl, c, name, params, body) ==
    LET f == Function(name, params, c, body)
    IN [cl EXCEPT !.functions = AddFunction(cl, f, FALSE, Overridden(cl, f) # {}).functions]
NeedsNew(fs) == \A f \in fs : f.body = Nobody
WithoutInherited(fs) == Selected(fs, {f \in ToSet(fs) : f.name # "init" \/ f.body # Nobody})
RemoveInherited(cl) == [cl EXCEPT !.functions = WithoutInherited(@)]
Redefined(cl, c) ==
    LET fs == Constructors(classes[cl.parent])
        redefine(k, f) == IF NeedsNew(Find(k, "init", f.params)) THEN AddHeader(k, c, "init", f.params, "auto") ELSE k
        redefined[i \in 0..Len(fs)] == IF i = 0 THEN cl ELSE redefine(redefined[i - 1], fs[i])
    IN redefined[Len(fs)]
RedefineInherited(cl, c) == [cl EXCEPT !.functions = Redefined(cl, c).functions]
FullConstructorMaxParams == 8
CanFill(cl) ==
    LET shown == {e \in ToSet(cl.elements) : ~Hidden(e)}
    IN /\ cl.vtable = 0 /\ Len(cl.elements) <= FullConstructorMaxParams
       /\ shown # {} /\ \A e \in shown : HasAssign(e.type)
AddConstructors(cl, c) ==
    LET own == IF cl.parent = Nobody THEN cl
               ELSE IF UserConstructors(cl) # <<>> THEN RemoveInherited(cl) ELSE RedefineInherited(cl, c)
        default == IF NeedsConstructor(own) THEN AddHeader(own, c, "init", <<>>, "auto") ELSE own
    IN IF Constructors(own) # <<>> THEN own
       ELSE IF cl.meta = "struct" /\ CanFill(default)
            THEN AddHeader(default, c, "init", [i \in DOMAIN cl.elements |-> cl.elements[i].type], "fill")
       ELSE default
AddDestructor(cl, c) ==
    IF NeedsNew(Destructor(cl)) THEN AddHeader(cl, c, "delete", <<>>, "auto") ELSE cl
AddAssign(cl, c) ==
    IF NeedsNew(Find(cl, "assign", <<c>>)) THEN AddHeader(cl, c, "assign", <<c>>, "auto") ELSE cl
AddMissingHeaders(cl, c) ==
    CASE cl.meta = "struct" -> AddAssign(AddDestructor(AddConstructors(cl, c), c), c)
      [] cl.meta # "struct" /\ CanMemcpy(cl) ->
            IF NeedsConstructor(cl) THEN AddHeader(cl, c, "init", <<>>, "auto") ELSE cl
      [] OTHER -> AddDestructor(AddConstructors(cl, c), c)

(* Class::derive_from: functions without a body stand for the constructors and
   the destructor of the new class.  All flags are copied, FullyParsed too. *)
Inherited(c, p) ==
    LET dummy(f) == [Function(f.name, f.params, c, Nobody) EXCEPT !.vindex = f.vindex]
        fs == Selected(classes[p].functions, {f \in ToSet(classes[p].functions) : f.name # "assign"})
    IN [i \in DOMAIN fs |-> IF fs[i].name \in {"init", "delete"} THEN dummy(fs[i]) ELSE fs[i]]
(* Mutant: the new class starts with an empty table. *)
DeriveFrom_NoTable(cl, c, p) ==
    LET parent == classes[p]
    IN [cl EXCEPT !.parent = p, !.elements = parent.elements, !.size = parent.size, !.parsed = parent.parsed,
                  !.functions = Inherited(c, p)]
DeriveFrom(cl, c, p) ==
    LET parent == classes[p]
    IN [cl EXCEPT !.parent = p, !.elements = parent.elements, !.size = parent.size,
                  !.vtable = parent.vtable, !.parsed = parent.parsed, !.functions = Inherited(c, p)]

(* parser_class_add_element, for a new element behind the others. *)
AddElement(cl, end, name, type) ==
    [cl EXCEPT !.elements = Append(@, Element(name, type, MemAlign(end, Align(type))))]
End(cl) == Final(cl.elements).offset + Size(Final(cl.elements).type)
Named(cl, name) == {i \in DOMAIN cl.elements : cl.elements[i].name = name}
Initialize(cl, name, how) ==
    IF how = "none" THEN cl ELSE [cl EXCEPT !.initial = Append(@, Initial(Len(cl.elements), name, how))]

(* A class takes the elements, initializers and functions of its trait; the
   functions are read once more. *)
Taken(trait) == Selected(trait.functions, {f \in ToSet(trait.functions) : f.name \notin {"init", "delete"}})
TraitFits(cl, trait) ==
    /\ \A e \in ToSet(trait.elements) : Named(cl, e.name) = {}
    /\ \A f \in ToSet(Taken(trait)) : IsOverride(f) <=> Overridden(cl, f) # {}
(* Where the i-th element of a trait ends, behind the class as it is. *)
TraitEnds(cl, trait) ==
    LET es == trait.elements
        end[i \in 0..Len(es)] ==
            IF i = 0 THEN cl.size ELSE MemAlign(end[i - 1], Align(es[i].type)) + Size(es[i].type)
    IN end
TraitElements(cl, trait) ==
    [i \in DOMAIN trait.elements |->
        LET e == trait.elements[i]
        IN Element(e.name, e.type, MemAlign(TraitEnds(cl, trait)[i - 1], Align(e.type)))]
TakeFunctions(cl, c, trait) ==
    LET fs == Taken(trait)
        take(k, f) == AddFunction(k, [f EXCEPT !.of = c, !.vindex = -1], IsVirtual(f), IsOverride(f))
        taken[i \in 0..Len(fs)] == IF i = 0 THEN cl ELSE take(taken[i - 1], fs[i])
    IN taken[Len(fs)]
(* Mutant: the initializers of a trait keep their numbers. *)
ImplementTrait_WrongElement(cl, c, trait) ==
    [cl EXCEPT !.elements = @ \o TraitElements(cl, trait),
               !.size = TraitEnds(cl, trait)[Len(trait.elements)],
               !.initial = @ \o trait.initial,
               !.functions = TakeFunctions(cl, c, trait).functions, !.vtable = TakeFunctions(cl, c, trait).vtable]
ImplementTrait(cl, c, trait) ==
    LET moved(n) == [n EXCEPT !.element = @ + Len(cl.elements)]
    IN [cl EXCEPT !.elements = @ \o TraitElements(cl, trait),
                  !.size = TraitEnds(cl, trait)[Len(trait.elements)],
                  !.initial = @ \o [i \in DOMAIN trait.initial |-> moved(trait.initial[i])],
                  !.functions = TakeFunctions(cl, c, trait).functions, !.vtable = TakeFunctions(cl, c, trait).vtable]

(* Parser::post_process_newly_parsed_class: the first class of its line with
   virtual functions gets room for the address of the table, in front. *)
MoveBehindTable(cl) ==
    LET behind(e) == [e EXCEPT !.offset = @ + PointerSize]
        next(n) == [n EXCEPT !.element = @ + 1]
    IN [cl EXCEPT !.elements = <<VtableVar>> \o [i \in DOMAIN cl.elements |-> behind(cl.elements[i])],
                  !.initial = [i \in DOMAIN cl.initial |-> next(cl.initial[i])]]
(* Mutant: the room for the table is not added to the size. *)
PostProcess_NoRoom(cl, c, end) ==
    LET first == cl.vtable > 0 /\ cl.parent = Nobody
        moved == IF first THEN MoveBehindTable(cl) ELSE cl
        above == IF cl.parent = Nobody THEN 1 ELSE classes[cl.parent].align
        align == Strictest({above} \cup {Align(e.type) : e \in ToSet(moved.elements)})
        whole == AddMissingHeaders([moved EXCEPT !.size = MemAlign(end, align), !.align = align], c)
    IN [whole EXCEPT !.parsed = TRUE, !.chunk = CanMemcpy(whole), !.needs = NeedsConstructor(whole)]
PostProcess(cl, c, end) ==
    LET first == cl.vtable > 0 /\ cl.parent = Nobody
        moved == IF first THEN MoveBehindTable(cl) ELSE cl
        above == IF cl.parent = Nobody THEN 1 ELSE classes[cl.parent].align
        align == Strictest({above} \cup {Align(e.type) : e \in ToSet(moved.elements)})
        size == IF first THEN end + PointerSize ELSE end
        whole == AddMissingHeaders([moved EXCEPT !.size = MemAlign(size, align), !.align = align], c)
    IN [whole EXCEPT !.parsed = TRUE, !.chunk = CanMemcpy(whole), !.needs = NeedsConstructor(whole)]
NoTableAbove(cl) == cl.vtable > 0 /\ cl.parent # Nobody /\ ~(classes[cl.parent].vtable > 0)

(***************************************************************************)
(* The text: a header, and lines.  A header is read when its parent is      *)
(* parsed; in a nested class that may be later, behind the body around it.  *)
(* The classes being read form a stack; "end" is the next free offset.      *)
(***************************************************************************)
Header(name, meta, extends, trait) == [name |-> name, meta |-> meta, extends |-> extends, trait |-> trait]
NoText == [header |-> Header(Nobody, "class", Nobody, Nobody), lines |-> <<>>]
Frame(c, end) == [class |-> c, end |-> end, later |-> <<>>, closed |-> FALSE, stage |-> 0]

TableInit ==
    /\ classes = [c \in Classes |-> NewClass] /\ text = [c \in Classes |-> NoText]
    /\ open = <<>> /\ declared = 0 /\ phase = "reading"

(* An error ends the reading, and nothing remains of the module. *)
Reject ==
    /\ classes' = [c \in Classes |-> NewClass] /\ text' = [c \in Classes |-> NoText]
    /\ open' = <<>> /\ declared' = Len(Names) /\ phase' = "rejected"

Allowed(defect) == defect \in Defects
IsOpen(c) == \E i \in DOMAIN open : open[i].class = c
Settled(c) == c = Nobody \/ ~IsOpen(c) \/ Allowed("use of a class that is still open")
Used(c) == \E d \in Classes \ {c} : \/ classes[d].parent = c \/ text[d].header.trait = c
                                    \/ \E e \in ToSet(classes[d].elements) : e.type = c
Lines == FoldLeft(LAMBDA n, c : n + Len(text[c].lines), 0, Names)

Inside == phase = "reading" /\ open # <<>> /\ ~Final(open).closed
Replace(frame) == [open EXCEPT ![Len(open)] = frame]

(* Parser::realize_class, once the parent is parsed: the header. *)
Waits(h) == h.extends # Nobody /\ ~classes[h.extends].parsed
Derived(h) ==
    LET new == [NewClass EXCEPT !.meta = h.meta]
    IN IF h.extends = Nobody THEN new ELSE DeriveFrom(new, h.name, h.extends)
Realized(h) == IF h.trait = Nobody THEN Derived(h) ELSE ImplementTrait(Derived(h), h.name, classes[h.trait])
HeaderFits(h) ==
    h.trait # Nobody =>
        /\ classes[h.trait].parsed /\ classes[h.trait].meta = "trait"
        /\ TraitFits(Derived(h), classes[h.trait])
Realize(h, frames) ==
    /\ HeaderFits(h)
    /\ classes' = [classes EXCEPT ![h.name] = Realized(h)]
    /\ open' = Append(frames, Frame(h.name, Realized(h).size))

(* The next declaration, of the module or of the class around it. *)
Declares(h) ==
    /\ phase = "reading" /\ declared < Len(Names) /\ h.name = Names[declared + 1]
    /\ open # <<>> => ~Final(open).closed /\ Final(open).stage = 0 /\ Len(open) < MaxDepth
    /\ Settled(h.extends) /\ Settled(h.trait)
    /\ Lines < MaxLines
HasRead == declared' = declared + 1 /\ UNCHANGED phase
Begins(h) == text' = [text EXCEPT ![h.name].header = h]
DeclareClass(h) == Declares(h) /\ ~Waits(h) /\ Realize(h, open) /\ Begins(h) /\ HasRead
DeclareWrongly(h) == Declares(h) /\ ~Waits(h) /\ ~HeaderFits(h) /\ Reject
(* A nested class waits for its parent; one of the module is not read at all. *)
DeclareForLater(h) ==
    /\ Declares(h) /\ Waits(h) /\ HasRead /\ UNCHANGED <<classes, text>>
    /\ open' = IF open = <<>> THEN open ELSE Replace([Final(open) EXCEPT !.later = Append(@, h)])

(* After the class around it: if its parent is still missing, an error. *)
RetryClass ==
    /\ phase = "reading" /\ open # <<>> /\ Final(open).closed
    /\ LET outer == Final(open)
           h == Head(outer.later)
           rest == [outer EXCEPT !.later = Tail(@)]
           frames == IF rest.later = <<>> THEN Front(open) ELSE Replace(rest)
       IN \/ ~Waits(h) /\ Realize(h, frames) /\ Begins(h) /\ UNCHANGED <<declared, phase>>
          \/ ~(~Waits(h) /\ HeaderFits(h)) /\ Reject

(* "class override": more lines for a class that is parsed already. *)
OverrideClass(c) ==
    /\ phase = "reading" /\ open = <<>> /\ classes[c].parsed
    /\ Used(c) => Allowed("override of a class in use")
    /\ (\E f \in ToSet(classes[c].functions) : f.body = "fill") => Allowed("override of a full constructor")
    /\ Lines < MaxLines
    /\ open' = <<[Frame(c, classes[c].size) EXCEPT !.stage = 1]>>
    /\ text' = [text EXCEPT ![c].lines = Append(@, [k |-> "override"])]
    /\ UNCHANGED <<classes, declared, phase>>

(* The next line of the class. *)
Reads(line, cl, end, stage) ==
    LET c == Final(open).class
    IN /\ classes' = [classes EXCEPT ![c] = cl]
       /\ open' = Replace([Final(open) EXCEPT !.end = end, !.stage = stage])
       /\ text' = [text EXCEPT ![c].lines = Append(@, line)]
       /\ UNCHANGED <<declared, phase>>
Variable(name, type, how) == [k |-> "var", name |-> name, type |-> type, how |-> how]
(* Parser::realize_class_variable_declaration *)
ReadsVariable == Inside /\ Lines < MaxLines /\ Final(open).stage <= 1
AddVariable(type, how) ==
    LET c == Final(open).class
        name == <<c, Len(text[c].lines) + 1>>
        cl == AddElement(classes[c], Final(open).end, name, type)
    IN /\ ReadsVariable /\ Settled(type)
       /\ how = "assign" => HasAssign(type)
       /\ how = "build" => HasDefault(type) /\ Allowed("value built in place")
       /\ IF SizeKnown(type)
          THEN Reads(Variable(name, type, how), Initialize(cl, name, how), End(cl), 1)
          ELSE Reject
(* A static variable is no element, and an overridden one stays where it is;
   but a value goes to the last element. *)
AddOtherVariable(how) ==
    LET c == Final(open).class
        static == <<c, Len(text[c].lines) + 1>>
        pointers == {e \in ToSet(classes[c].elements) : e.type = "pointer" /\ ~Hidden(e)}
    IN /\ ReadsVariable
       /\ how = "none" \/ Allowed("value of a static or overridden variable")
       /\ \E name \in {static} \cup {e.name : e \in pointers} :
             Reads([Variable(name, "pointer", how) EXCEPT !.k = "other"],
                   Initialize(classes[c], name, how), Final(open).end, 1)

(* Parser::realize_function *)
AddLine(n) ==
    LET line == FunctionLines[n]
        c == Final(open).class
        f == [Function(line.name, line.params, c, "user") EXCEPT !.super = line.super, !.flags = line.flags]
    IN /\ Inside /\ Lines < MaxLines /\ n + 1 > Final(open).stage
       /\ line.super # {} => classes[c].parent # Nobody
       /\ "early" \in line.flags => Allowed("destructor that returns early")
       /\ IF IsOverride(f) <=> Overridden(classes[c], f) # {}
          THEN Reads([k |-> "func", f |-> f],
                     AddFunction(classes[c], f, IsVirtual(f), IsOverride(f)), Final(open).end, n + 1)
          ELSE Reject

(* The end of the body; nested classes that waited come next. *)
CloseClass ==
    /\ Inside
    /\ LET frame == Final(open)
           cl == classes[frame.class]
       IN \/ /\ ~NoTableAbove(cl)
             /\ classes' = [classes EXCEPT ![frame.class] = PostProcess(cl, frame.class, frame.end)]
             /\ open' = IF frame.later = <<>> THEN Front(open) ELSE Replace([frame EXCEPT !.closed = TRUE])
             /\ UNCHANGED <<declared, text, phase>>
          \/ NoTableAbove(cl) /\ Reject

ReadLine ==
    \/ \E h \in Headers : DeclareClass(h) \/ DeclareWrongly(h) \/ DeclareForLater(h)
    \/ RetryClass \/ CloseClass
    \/ \E c \in Classes : OverrideClass(c)
    \/ \E v \in VariableLines : AddVariable(v[1], v[2])
    \/ \E how \in {"none", "assign"} : AddOtherVariable(how)
    \/ \E n \in DOMAIN FunctionLines : AddLine(n)
=============================================================================
