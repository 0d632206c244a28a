--------------------------- MODULE SourceGrammar ---------------------------
(***************************************************************************)
(* What a source text means, without a parser: how the tree of a program    *)
(* is written down.  Binary operators have the levels of syntax/Operator.cpp*)
(* and group from left to right; parentheses are written where the levels   *)
(* ask for them; a block is indented by one tab.                            *)
(*                                                                         *)
(* A text is a sequence of tokens; a line starts with "\n" and its tabs.    *)
(***************************************************************************)
EXTENDS AbstractParser

NewLine(d) == <<"\n">> \o [i \in 1..d |-> "\t"]

(* What binds how closely.  Some nodes reach to the end of the line or further,
   some take an operand with all that follows it. *)
Binary(n) == n.k = "operator" /\ Len(n.of) = 2
Unary(n) == n.k = "operator" /\ n.v \in UnaryRight /\ Len(n.of) = 1
Long == {"lambda", "if", "match", "for", "while", "try", "return", "raise", "trust_me"}
Weak == {"reference", "dereference", "new", "del"}
LevelOf(n) ==
    CASE n.k = "tuple" -> 0
      [] Binary(n) -> Level[n.v]
      [] Unary(n) -> 12
      [] OTHER -> 99

RECURSIVE Text(_, _), BlockText(_, _)

Parens(n, d, needed) == IF needed THEN <<"(">> \o Text(n, d) \o <<")">> ELSE Text(n, d)
(* where a tuple must not be without parentheses *)
Single(n, d) == Parens(n, d, n.k = "tuple")
(* what may be followed by '.', '(' and so on *)
Atom(n, d) == Parens(n, d, n.v \notin UnaryLeft /\ n.k \in {"operator", "tuple", "callable type"} \cup Long \cup Weak)

(* In 'a * *b' and 'a & *b' the first sign would be part of a type. *)
Starred(text) == text[1] = "*"
LeftText(op, n, d) == Parens(n, d, LevelOf(n) < Level[op] \/ n.k \in Long)
RightText(op, n, d) ==
    Parens(n, d, \/ LevelOf(n) <= Level[op]
                 \/ n.k \in Long /\ Level[op] > 0
                 \/ op \in {"*", "&"} /\ Starred(Text(n, d)))

Separated(texts, sep) == FlattenSeq([i \in DOMAIN texts |-> IF i = 1 THEN texts[i] ELSE sep \o texts[i]])
Listed(texts) == Separated(texts, <<",">>)
Items(of, d) == Listed([i \in DOMAIN of |-> Single(of[i], d)])
(* a tuple without parentheses: ',' has the level of '=' *)
TupleText(of, d) == Listed([i \in DOMAIN of |-> Parens(of[i], d, of[i].k = "tuple" \/ (i > 1 /\ LevelOf(of[i]) = 0))])
Names(of, d) == Listed([i \in DOMAIN of |-> Text(of[i], d)])
Then(before, n, d) == IF n = Nil THEN <<>> ELSE before \o Text(n, d)

Bound(n, d) == IF n.k = "const" THEN <<>> ELSE Single(n, d)
IndexText(n, d) ==
    CASE n.k = "slice" -> Bound(n.of[1], d) \o <<":">> \o Bound(n.of[2], d) \o Then(<<":">>, n.of[3], d)
      [] n.k = "tuple" -> Items(n.of, d)
      [] OTHER -> Text(n, d)

FlagText(f) == SetToSeq(f)
ForText(n, d) ==
    FlagText(n.of[1].f) \o (IF n.of[2] = Nil THEN <<>> ELSE Text(n.of[2], d) \o <<"=>">>)
    \o <<n.of[1].v, "in">> \o IndexText(n.of[3], d)

(* A block of one command without blocks may be written behind its header. *)
Simple == {"token", "operator", "element", "index", "call", "definitely", "reference", "dereference", "array", "dict", "new"}
RECURSIVE Compact(_)
Compact(n) == n.k \in Simple /\ \A i \in DOMAIN n.of : Compact(n.of[i])
Short(b) == Len(b.of) = 1 /\ Compact(b.of[1])
CompactText(b, d) == IF Short(b) THEN Text(b.of[1], d) ELSE BlockText(b, d + 1)

RECURSIVE ForRest(_, _)
(* Loops directly in each other are written in one line. *)
Direct(b) == Len(b.of) = 1 /\ b.of[1].k = "for" /\ Len(b.of[1].of) = 4
ForRest(n, d) ==
    ForText(n, d) \o (IF Direct(n.of[4]) THEN <<",">> \o ForRest(n.of[4].of[1], d) ELSE BlockText(n.of[4], d + 1))
    \o (IF Len(n.of) = 5 THEN NewLine(d) \o <<"else">> \o BlockText(n.of[5], d + 1) ELSE <<>>)

(* Pairs of a pattern and a block. *)
PairsText(of, PairText(_, _)) ==
    FlattenSeq([i \in 1..(Len(of) \div 2) |-> PairText(of[2 * i - 1], of[2 * i])])
MatchText(pattern, block, d) ==
    NewLine(d + 1) \o (IF pattern = Pass THEN <<"else">> ELSE Atom(pattern, d + 1)) \o <<"=>">> \o CompactText(block, d + 1)
ExceptText(header, block, d) ==
    NewLine(d) \o <<"except">> \o Then(<<>>, header.of[1], d) \o Then(<<"as">>, header.of[2], d) \o BlockText(block, d + 1)
ElseText(block, d) ==
    NewLine(d) \o <<"else">> \o (IF Len(block.of) = 1 /\ block.of[1].k = "if" THEN Text(block.of[1], d) ELSE BlockText(block, d + 1))

(* [NAME, RETURN TYPE, PARAMETERS, TEMPLATE, BODY] *)
ParametersText(of, d) ==
    Listed([i \in 1..(Len(of) \div 3) |-> FlagText(of[3 * i - 2].f) \o Text(of[3 * i - 2], d)
                                          \o Then(<<":">>, of[3 * i - 1], d) \o Then(<<"=">>, of[3 * i], d)])
HeaderText(n, d, word, implied) ==
    <<word>> \o FlagText(n.f \ (implied \cup {"template"})) \o Then(<<>>, n.of[1], d)
    \o (IF n.of[4] = Nil THEN <<>> ELSE <<"[">> \o Names(n.of[4].of, d) \o <<"]">>)
    \o <<"(">> \o ParametersText(n.of[3].of, d) \o <<")">> \o Then(<<"->">>, n.of[2], d)
Body(n, d) == IF n.of[5] = Nil THEN <<>> ELSE BlockText(n.of[5], d + 1)

VarWord(f) == IF f = {} THEN <<"let">> ELSE <<"var">>
VarText(n, d) ==
    VarWord(n.f)
    \o (IF n.of[2].k = "tuple" THEN <<"(">> \o Names(n.of[2].of, d) \o <<")">>
        ELSE Text(n.of[2], d) \o Then(<<":">>, n.of[1], d))
    \o <<"=">> \o Text(n.of[3].of[2], d)

OperatorText(n, d) ==
    CASE Binary(n) -> LeftText(n.v, n.of[1], d) \o <<n.v>> \o RightText(n.v, n.of[2], d)
      [] Unary(n) -> <<n.v>> \o Parens(n.of[1], d, LevelOf(n.of[1]) < 12 \/ n.of[1].k \in Long
                                                  \/ (LevelOf(n.of[1]) = 12 /\ Binary(n.of[1])))
      [] OTHER -> Atom(n.of[1], d) \o <<n.v>>

StatementText(n, d) ==
    CASE n.k \in {"if", "if compiletime"} ->
             (IF n.k = "if" THEN <<"if">> ELSE <<"if", "@compiletime">>) \o Single(n.of[1], d) \o BlockText(n.of[2], d + 1)
             \o (IF Len(n.of) = 3 THEN ElseText(n.of[3], d) ELSE <<>>)
      [] n.k = "while" -> <<"while">> \o Single(n.of[1], d) \o BlockText(n.of[2], d + 1)
      [] n.k = "for" -> <<"for">> \o ForRest(n, d)
      [] n.k = "match" -> <<"match">> \o Single(n.of[1], d) \o PairsText(Tail(n.of), LAMBDA x, b : MatchText(x, b, d))
      [] n.k = "try" -> <<"try">> \o CompactText(n.of[1], d) \o PairsText(Tail(n.of), LAMBDA x, b : ExceptText(x, b, d))
      [] n.k = "return" -> <<"return">> \o (IF n.of = <<>> THEN <<>> ELSE Text(n.of[1], d))
      [] n.k = "raise" -> <<"raise">> \o Single(n.of[1], d)
      [] n.k \in {"break", "continue", "pass"} -> <<n.k>>
      [] n.k = "asm" -> <<Asm>>
      [] n.k = "trust_me" -> <<"trust_me">> \o BlockText(n.of[1], d + 1)
      [] n.k = "var" -> VarText(n, d)
      [] n.k = "group" -> VarWord(n.of[1].f) \o Names([i \in DOMAIN n.of |-> n.of[i].of[2]], d) \o Then(<<":">>, n.of[1].of[1], d)
      [] n.k = "lambda" ->
             IF Short(n.of[1].of[5]) THEN HeaderText(n.of[1], d, "lambda", {"static"}) \o Text(n.of[1].of[5].of[1], d)
             ELSE HeaderText(n.of[1], d, "func", {"static"}) \o Body(n.of[1], d)

ExpressionText(n, d) ==
    CASE n.k = "token" -> <<n.v>>
      [] n.k = "operator" -> OperatorText(n, d)
      [] n.k = "tuple" -> TupleText(n.of, d)
      [] n.k = "element" -> Atom(n.of[1], d) \o <<".">> \o Text(n.of[2], d)
      [] n.k = "index" -> Atom(n.of[1], d) \o <<"[">> \o IndexText(n.of[2], d) \o <<"]">>
      [] n.k = "call" -> Atom(n.of[1], d) \o <<"(">> \o Items(Tail(n.of), d) \o <<")">>
      [] n.k = "named parameter" -> <<n.v, "=">> \o Single(n.of[1], d)
      [] n.k = "definitely" -> Atom(n.of[1], d) \o <<"!">>
      [] n.k \in {"reference", "dereference"} ->
             (IF n.k = "reference" THEN <<"&">> ELSE <<"*">>)
             \o Parens(n.of[1], d, n.of[1].k = "tuple" \/ (n.of[1].k = "operator" /\ n.of[1].v \notin UnaryLeft))
      [] n.k = "array" -> <<"[">> \o Items(n.of, d) \o <<"]">>
      [] n.k = "dict" ->
             <<"{">> \o Listed([i \in 1..(Len(n.of) \div 2) |-> Single(n.of[2 * i - 1], d) \o <<":">> \o Single(n.of[2 * i], d)]) \o <<"}">>
      [] n.k = "set builder" ->
             <<"[", "for">> \o ForText(n.of[1], d) \o Single(n.of[2], d) \o Then(<<"if">>, n.of[3], d) \o <<"]">>
      [] n.k = "new" -> <<"new">> \o FlagText(n.f) \o Text(n.of[1], d)
      [] n.k = "del" -> <<"del">> \o Text(n.of[1], d)
      [] n.k = "raw_function_pointer" -> <<"raw_function_pointer", "(">> \o Single(n.of[1], d) \o <<")">>

(* Types. *)
TypeText(n, d) ==
    Atom(n.of[1], d)
    \o (CASE n.k = "list type" -> <<"[", "]">>
          [] n.k = "dict type" -> <<"{", "}">>
          [] n.k = "optional type" -> <<"?">>
          [] n.k = "pointer type" -> <<"*">>
          [] n.k = "reference type" -> <<"&">>
          [] n.k = "callable type" -> <<"->">> \o Text(n.of[2], d))

Types == {"list type", "dict type", "optional type", "pointer type", "reference type", "callable type"}
Statements == {"if", "if compiletime", "while", "for", "match", "try", "return", "raise", "break", "continue",
               "pass", "asm", "trust_me", "var", "group", "lambda"}
Text(n, d) ==
    CASE n.k \in Types -> TypeText(n, d)
      [] n.k \in Statements -> StatementText(n, d)
      [] OTHER -> ExpressionText(n, d)
BlockText(b, d) == FlattenSeq([i \in DOMAIN b.of |-> NewLine(d) \o Text(b.of[i], d)])

(* Definitions, each on a line of its own. *)
TraitText(n, d) == IF n = Nil THEN <<>> ELSE <<"as">> \o Names(n.of, d)
EntriesText(of, d) ==
    Listed([i \in 1..(Len(of) \div 3) |-> Text(of[3 * i - 2], d) \o Then(<<"=">>, of[3 * i - 1], d) \o Then(<<"as">>, of[3 * i], d)])
(* the empty names in front of a source are its leading dots *)
ImportText(names) ==
    FlattenSeq([i \in DOMAIN names |-> (IF names[i] = Nil THEN <<>> ELSE <<names[i].v>>)
                                       \o (IF i < Len(names) THEN <<".">> ELSE <<>>)])
RECURSIVE DefinitionText(_, _, _)
Definitions(of, d, meta) == FlattenSeq([i \in DOMAIN of |-> NewLine(d) \o DefinitionText(of[i], d, meta)])
DefinitionText(n, d, meta) ==
    CASE n.k = "function" /\ "macro" \in n.f -> HeaderText(n, d, "macro", {"static", "macro"}) \o Body(n, d)
      [] n.k = "function" /\ "macro" \notin n.f -> HeaderText(n, d, "func", MethodFlags(meta)) \o Body(n, d)
      [] n.k = "const" -> <<"const">> \o Text(n.of[1], d) \o Then(<<":">>, n.of[2], d) \o <<"=">> \o Single(n.of[3], d)
      [] n.k = "variable" -> <<"var">> \o FlagText(n.f \ {"mut"}) \o Text(n.of[1], d) \o Then(<<":">>, n.of[2], d) \o Then(<<"=">>, n.of[3], d)
      [] n.k = "import" -> <<"use">> \o FlagText(n.f) \o ImportText(n.of[1].of) \o Then(<<"as">>, n.of[2], d)
      [] n.k = "use" -> <<"use">> \o Text(n.of[1], d)
      [] n.k = "enum" -> <<"enum">> \o FlagText(n.f) \o Text(n.of[1], d) \o TraitText(n.of[2], d)
                         \o NewLine(d + 1) \o EntriesText(SubSeq(n.of, 3, Len(n.of)), d + 1)
      [] n.k = "class" ->
             <<n.of[1].v>> \o FlagText(n.f \ {"template"}) \o Text(n.of[2], d)
             \o (IF n.of[4] = Nil THEN <<>> ELSE <<"[">> \o Text(n.of[4], d) \o <<"]">>)
             \o Then(<<"extends">>, n.of[3], d) \o TraitText(n.of[5], d)
             \o Definitions(SubSeq(n.of, 6, Len(n.of)), d + 1, n.of[1].v)

(* A function outside of a class is static. *)
FileText(definitions) == Definitions(definitions, 0, "namespace")
=============================================================================
