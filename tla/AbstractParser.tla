--------------------------- MODULE AbstractParser ---------------------------
(***************************************************************************)
(* parser/AbstractParser.cpp: from lines of tokens to a tree without types. *)
(*                                                                         *)
(* Each operator is a parsing function: it takes the place where it starts  *)
(* and returns a node and the place behind it.  An error is a result        *)
(* Nowhere, where nothing more is found.                                    *)
(*                                                                         *)
(* Abstracted: token numbers in nodes, and what an error says.              *)
(***************************************************************************)
EXTENDS Lexer, TLC

(* Nodes: kind, what tells nodes of a kind apart, flags, parameters. *)
Node(k, v, f, of) == [k |-> k, v |-> v, f |-> f, of |-> of]
Of(k, of) == Node(k, "", {}, of)
Nil == Of("nil", <<>>)
Result(n, at) == [n |-> n, at |-> at]

(***************************************************************************)
(* syntax/Operator.cpp: binary operators and their levels.                  *)
(***************************************************************************)
Level ==
    [op \in {"=", "+=", "-=", "*=", "/=", "&=", "|=", ":=", ","} |-> 0]
    @@ ("|>" :> 1) @@ ("=>" :> 2) @@ [op \in {"is", "extends"} |-> 3] @@ ("or" :> 4) @@ ("and" :> 5)
    @@ ("|" :> 6) @@ ("&" :> 8) @@ [op \in {"==", "!="} |-> 9] @@ [op \in {"<", ">", "<=", ">="} |-> 10]
    @@ [op \in {"<<", ">>"} |-> 11] @@ [op \in {"+", "-"} |-> 12] @@ [op \in {"*", "/", "%", "in"} |-> 13]
    @@ ("^" :> 15) @@ ("as" :> 16)
UnaryRight == {"-", "not", "!"}
UnaryLeft == {"++", "--"}

Operator(op, of) == Node("operator", op, {}, of)
Tuple(of) == Of("tuple", of)

(***************************************************************************)
(* Helpers.                                                                 *)
(***************************************************************************)
TryConsume(p, t) == IF Cur(p) = t THEN Next1(p) ELSE p
ExpectIdentifier(p, t) == IF ~EndOfLine(p) /\ Cur(p) = t THEN Next1(p) ELSE Nowhere
ExpectNewLine(r) == IF EndOfLine(r.at) THEN r ELSE Result(r.n, Nowhere)
(* expect_new_line_with_indent, next_line *)
Indented(p) == IF EndOfLine(p) /\ NextLineIsIndented(p) THEN NextLine(p) ELSE Nowhere
ConsumeToken(p) == IF EndOfLine(p) THEN Nowhere ELSE Next1(p)
Deeper(p) == [p EXCEPT !.loops = IF p = Nowhere THEN 0 ELSE @ + 1]
Shallower(p) == [p EXCEPT !.loops = IF p = Nowhere THEN 0 ELSE @ - 1]

Token(p) == Result(Node("token", Cur(p), {}, <<>>), ConsumeToken(p))

Flags == {"static", "extern", "mut", "virtual", "override", "ref", "selfref", "globalref", "shared",
          "owned", "out", "throws", "pure", "@noframe"}
FlagOf(t) == IF t = "selfref" THEN "ref" ELSE t

(* parse_flags: the flags from p on, and the place behind them. *)
RECURSIVE ParseFlags(_, _)
ParseFlags(f, p) ==
    IF Cur(p) \in Flags THEN ParseFlags(f \cup {FlagOf(Cur(p))}, Next1(p))
    ELSE IF Cur(p) = "const" THEN Result(f, Nowhere) ELSE Result(f, p)

(* parse_comma_sep_token_list *)
RECURSIVE TokenList(_, _)
TokenList(names, p) ==
    LET t == Token(p)
        all == Append(names, t.n)
    IN IF Cur(t.at) = "," THEN TokenList(all, Next1(t.at)) ELSE Result(all, t.at)

(* get_comma_range: the operands of a row of commas that starts at operator i. *)
CommaEnd(operators, i) ==
    CHOOSE j \in (i + 1)..(Len(operators) + 1) :
        /\ \A k \in i..(j - 1) : operators[k] = ","
        /\ j = Len(operators) + 1 \/ operators[j] # ","

(* the first of the operators with the highest level *)
MostImportant(operators) ==
    CHOOSE i \in DOMAIN operators :
        \A j \in DOMAIN operators : Level[operators[j]] < Level[operators[i]]
                                    \/ (Level[operators[j]] = Level[operators[i]] /\ i <= j)

(* digest_operator_list_to_tree: A+B*C  ->  +(A, *(B, C)) *)
RECURSIVE Digest(_, _)
Digest(operands, operators) ==
    IF operators = <<>> THEN operands[1]
    ELSE LET i == MostImportant(operators)
             last == IF operators[i] = "," THEN CommaEnd(operators, i) ELSE i + 1
             linked == SubSeq(operands, i, last)
             n == IF operators[i] = "," THEN Tuple(linked) ELSE Operator(operators[i], linked)
         IN Digest(SubSeq(operands, 1, i - 1) \o <<n>> \o SubSeq(operands, last + 1, Len(operands)),
                   SubSeq(operators, 1, i - 1) \o SubSeq(operators, last, Len(operators)))

----------------------------------------------------------------------------
(* The parser's recursion goes through Parse: an operand, an expression, a
   block, a class or another definition at a place. *)
RECURSIVE Parse(_, _, _)
ParseOperand(p, prefer_class) == Parse("operand", p, [prefer_class |-> prefer_class])
Greedy(p, allow_tuples, min_op_level) == Parse("expression", p, [tuples |-> allow_tuples, level |-> min_op_level])
Block(p) == Parse("block", p, <<>>)

(***************************************************************************)
(* What may follow an operand.                                              *)
(***************************************************************************)
Zero == Node("const", "0", {}, <<>>)
MagicEnd == Node("const", "end", {}, <<>>)

(* parse_abstract_value_or_slice *)
SliceStep(start, end, p) ==
    IF Cur(p) = ":" THEN LET step == Greedy(Next1(p), FALSE, 0) IN Result(Of("slice", <<start, end, step.n>>), step.at)
    ELSE Result(Of("slice", <<start, end, Nil>>), p)
SliceEnd(start, p) ==
    IF Cur(p) \in {"]", ",", ":"} THEN SliceStep(start, MagicEnd, p)
    ELSE LET end == Greedy(p, FALSE, 0) IN SliceStep(start, end.n, end.at)
ValueOrSlice(p) ==
    LET start == IF Cur(p) = ":" THEN Result(Zero, p) ELSE Greedy(p, FALSE, 0)
    IN IF Cur(start.at) = ":" THEN SliceEnd(start.n, Next1(start.at)) ELSE start

(* parse_abstract_operand_extension_array *)
ArrayElement(operand, index) ==
    IF Cur(index.at) = ","
    THEN LET b == Greedy(Next1(index.at), FALSE, 0)
         IN Result(Of("index", <<operand, Tuple(<<index.n, b.n>>)>>), ExpectIdentifier(b.at, "]"))
    ELSE Result(Of("index", <<operand, index.n>>), ExpectIdentifier(index.at, "]"))
ArrayExtension(operand, p) ==
    IF Cur(p) = "]" THEN Result(Of("list type", <<operand>>), Next1(p))
    ELSE ArrayElement(operand, ValueOrSlice(p))

(* parse_abstract_call_parameters: no unnamed ones behind named ones *)
RECURSIVE CallParameters(_, _)
CallParameter(named, p) ==
    CASE EndOfLine(p) -> Result(Nil, Nowhere)
      [] ~EndOfLine(p) /\ PeekNext(p) = "=" ->
             LET value == Greedy(Next1(Next1(p)), FALSE, 0)
             IN Result(Node("named parameter", Cur(p), {}, <<value.n>>), value.at)
      [] OTHER -> IF named THEN Result(Nil, Nowhere) ELSE Greedy(p, FALSE, 0)
CallParameters(params, p) ==
    LET x == CallParameter(\E i \in DOMAIN params : params[i].k = "named parameter", p)
        all == Append(params, x.n)
    IN IF Cur(x.at) = "," THEN CallParameters(all, Next1(x.at)) ELSE Result(all, ExpectIdentifier(x.at, ")"))
CallExtension(link, p) ==
    LET params == IF Cur(p) = ")" THEN Result(<<>>, Next1(p)) ELSE CallParameters(<<>>, p)
    IN Result(Of("call", <<link>> \o params.n), params.at)

(* A '*' or '&' that no operand follows is part of a type. *)
NoIdentifierAfter(p) ==
    AlmostEndOfLine(p) \/ PeekNext(p) \in {",", "=", "->", ")", "*", "]"}

(* parse_abstract_operand_extension *)
RECURSIVE Extension(_, _, _)
Extension(operand, p, prefer_class) ==
    LET c == Cur(p)
        element == Token(Next1(p))
        callable == ParseOperand(Next1(p), FALSE)
        array == ArrayExtension(operand, Next1(p))
        call == CallExtension(operand, Next1(p))
        type == prefer_class \/ NoIdentifierAfter(p)
    IN CASE c = "." -> Extension(Of("element", <<operand, element.n>>), element.at, prefer_class)
         [] c = "[" -> Extension(array.n, array.at, prefer_class)
         [] c = "(" -> Extension(call.n, call.at, prefer_class)
         [] c = "{" -> Extension(Of("dict type", <<operand>>), ExpectIdentifier(Next1(p), "}"), prefer_class)
         [] c = "->" -> Extension(Of("callable type", <<operand, callable.n>>), callable.at, TRUE)
         [] c = "!" -> Extension(Of("definitely", <<operand>>), Next1(p), prefer_class)
         [] c = "?" -> Extension(Of("optional type", <<operand>>), Next1(p), TRUE)
         [] c = "*" /\ type -> Extension(Of("pointer type", <<operand>>), Next1(p), TRUE)
         [] c = "&" /\ type -> Extension(Of("reference type", <<operand>>), Next1(p), TRUE)
         [] c \in UnaryLeft -> Extension(Operator(c, <<operand>>), Next1(p), prefer_class)
         [] OTHER -> Result(operand, p)

(***************************************************************************)
(* Loops.                                                                   *)
(***************************************************************************)
(* The block of a statement: an indented line, and all that are not less so. *)
IndentedBlock(p) == Block(Indented(p))
LoopBlock(p) == LET b == Block(Deeper(Indented(p))) IN Result(b.n, Shallower(b.at))

(* An else on the line behind the block, or nothing is consumed (next_line,
   jump back). *)
ElseFollows(ind0, p) ==
    LET next == NextLine(p) IN ~EndOfFile(next) /\ Cur(next) = "else" /\ Indent(next) >= ind0
Behind(p) == Jump(p, CurToken(p))

For(var, key, container, of) == Of("for", <<var, key, container>> \o of)

(* parse_abstract_for_header, behind the 'for' *)
ForContainer(var, key, p) ==
    LET container == ValueOrSlice(ExpectIdentifier(p, "in"))
    IN Result(For(var, key, container.n, <<>>), container.at)
ForVariable(flags, first) ==
    IF Cur(first.at) = "=>"
    THEN LET var == Token(Next1(first.at)) IN ForContainer([var.n EXCEPT !.f = flags], first.n, var.at)
    ELSE ForContainer([first.n EXCEPT !.f = flags], Nil, first.at)
ForHeader(p) == LET flags == ParseFlags({}, ConsumeToken(p)) IN ForVariable(flags.n, Token(flags.at))

(* parse_abstract_statement_for: nested headers are loops in each other, and
   an else belongs to the first of them *)
RECURSIVE ForBody(_)
ForBody(header) ==
    LET nested == ForBody(ForHeader(header.at))
        block == LoopBlock(header.at)
    IN IF Cur(header.at) = ","
       THEN Result([header.n EXCEPT !.of = Append(@, Of("block", <<nested.n>>))], nested.at)
       ELSE Result([header.n EXCEPT !.of = Append(@, block.n)], block.at)
ForElse(ind0, r) ==
    IF ElseFollows(ind0, r.at)
    THEN LET b == IndentedBlock(Next1(NextLine(r.at))) IN Result([r.n EXCEPT !.of = Append(@, b.n)], b.at)
    ELSE Result(r.n, Behind(r.at))
StatementFor(p) == ForElse(Indent(p), ForBody(ForHeader(p)))

StatementWhile(p) ==
    LET test == Greedy(Next1(p), FALSE, 0)
        block == LoopBlock(test.at)
    IN Result(Of("while", <<test.n, block.n>>), block.at)

(* parse_abstract_set_builder, at the 'for' *)
SetBuilderIf(header, exp) ==
    IF Cur(exp.at) = "if"
    THEN LET cmp == Greedy(Next1(exp.at), FALSE, 0)
         IN Result(Of("set builder", <<header, exp.n, cmp.n>>), ExpectIdentifier(cmp.at, "]"))
    ELSE Result(Of("set builder", <<header, exp.n, Nil>>), ExpectIdentifier(exp.at, "]"))
SetBuilder(p) == LET header == ForHeader(p) IN SetBuilderIf(header.n, Greedy(header.at, FALSE, 0))

(***************************************************************************)
(* Conditions.                                                              *)
(***************************************************************************)

(* Mutant: what follows a command in its line is not looked at. *)
Command_Trailing(p) == IF Cur(p) = Asm THEN Result(Of("asm", <<>>), Next1(p)) ELSE Greedy(p, TRUE, 0)

(* parse_abstract_complete_command_into_block *)
Command(p) == ExpectNewLine(IF Cur(p) = Asm THEN Result(Of("asm", <<>>), Next1(p)) ELSE Greedy(p, TRUE, 0))

(* Mutant: an else belongs to the innermost if. *)
IfElse_Any(ind0, r) ==
    LET next == NextLine(r.at)
        block == IndentedBlock(Next1(next))
    IN IF ~EndOfFile(next) /\ Cur(next) = "else"
       THEN Result([r.n EXCEPT !.of = Append(@, block.n)], block.at) ELSE Result(r.n, Behind(r.at))

(* an 'else if' is an if in a block of its own *)
IfElse(ind0, r) ==
    LET behind == Next1(NextLine(r.at))
        other == ExpectNewLine(Greedy(behind, TRUE, 0))
        block == IndentedBlock(behind)
    IN CASE ~ElseFollows(ind0, r.at) -> Result(r.n, Behind(r.at))
         [] ElseFollows(ind0, r.at) /\ Cur(behind) = "if" ->
                Result([r.n EXCEPT !.of = Append(@, Of("block", <<other.n>>))], other.at)
         [] OTHER -> Result([r.n EXCEPT !.of = Append(@, block.n)], block.at)
IfBlock(kind, test, block) == Result(Of(kind, <<test, block.n>>), block.at)
IfTest(kind, test) == IfBlock(kind, test.n, IndentedBlock(test.at))
StatementIf(p) ==
    IfElse(Indent(p), IfTest(IF Cur(Next1(p)) = "@compiletime" THEN "if compiletime" ELSE "if",
                             Greedy(TryConsume(Next1(p), "@compiletime"), FALSE, 0)))

(* parse_abstract_statement_match: after the default pattern, which is a
   statement, or any other statement there is no further pattern *)
Pass == Of("pass", <<>>)
IsStatement(n) ==
    n.k \in {"if", "if compiletime", "for", "while", "match", "try", "return", "raise", "break", "continue",
             "pass", "new", "del", "lambda", "raw_function_pointer", "trust_me"}
MatchPattern(first, p) ==
    IF Cur(p) \in {"else", "*"} THEN Result(Pass, IF first THEN Nowhere ELSE Next1(p)) ELSE ParseOperand(p, FALSE)
MatchResult(p) ==
    IF EndOfLine(p) THEN IndentedBlock(p)
    ELSE LET x == Greedy(p, FALSE, 0) IN Result(Of("block", <<x.n>>), x.at)
RECURSIVE MatchPatterns(_, _, _)
MatchPatterns(n, indent, p) ==
    LET pattern == MatchPattern(Len(n.of) = 1, p)
        result == MatchResult(ExpectIdentifier(pattern.at, "=>"))
        all == [n EXCEPT !.of = @ \o <<pattern.n, result.n>>]
    IN IF NextLineIndent(result.at) < indent THEN Result(all, result.at)
       ELSE IF IsStatement(pattern.n) THEN Result(all, Nowhere)
       ELSE IF result.at = Nowhere THEN Result(all, Nowhere)
       ELSE MatchPatterns(all, indent, NextLine(result.at))
StatementMatch(p) ==
    LET input == Greedy(Next1(p), FALSE, 0)
    IN MatchPatterns(Of("match", <<input.n>>), NextLineIndent(input.at), Indented(input.at))

(***************************************************************************)
(* Exceptions.                                                              *)
(***************************************************************************)
TryBlock(p) ==
    IF EndOfLine(p) THEN Block(NextLine(p))
    ELSE LET x == Greedy(p, FALSE, 0) IN Result(Of("block", <<x.n>>), x.at)

(* the type and the name of what is caught *)
Except(p) ==
    LET type == ParseOperand(p, TRUE)
        name == Token(ExpectIdentifier(type.at, "as"))
    IN CASE EndOfLine(p) -> Result(Of("except", <<Nil, Nil>>), p)
         [] ~EndOfLine(p) /\ EndOfLine(type.at) -> Result(Of("except", <<type.n, Nil>>), type.at)
         [] OTHER -> Result(Of("except", <<type.n, name.n>>), name.at)

RECURSIVE Excepts(_, _)
ExceptBlock(ind, r, header, block) ==
    Excepts(ind, Result([r.n EXCEPT !.of = @ \o <<header, block.n>>], block.at))
ExceptHeader(ind, r, header) == ExceptBlock(ind, r, header.n, IndentedBlock(header.at))
Excepts(ind, r) ==
    LET next == NextLine(r.at)
    IN IF ~EndOfFile(next) /\ Cur(next) = "except" /\ Indent(next) = ind
       THEN ExceptHeader(ind, r, Except(Next1(next)))
       ELSE Result(r.n, Behind(r.at))
TryOf(block) == Result(Of("try", <<block.n>>), block.at)
StatementTry(p) == Excepts(Indent(p), TryOf(TryBlock(Next1(p))))

(***************************************************************************)
(* Other statements.                                                        *)
(***************************************************************************)
StatementReturn(p) ==
    ExpectNewLine(IF EndOfLine(Next1(p)) THEN Result(Of("return", <<>>), Next1(p))
                  ELSE LET x == Greedy(Next1(p), TRUE, 0) IN Result(Of("return", <<x.n>>), x.at))
StatementRaise(p) == LET x == Greedy(Next1(p), FALSE, 0) IN ExpectNewLine(Result(Of("raise", <<x.n>>), x.at))
(* break, continue: only in a loop *)
Leave(p) == Result(Of(Cur(p), <<>>), IF p.loops = 0 THEN Nowhere ELSE Next1(p))
StatementNew(p) ==
    LET flags == ParseFlags({}, Next1(p))
        x == ParseOperand(flags.at, FALSE)
    IN Result(Node("new", "", flags.n, <<x.n>>), x.at)
StatementDelete(p) == LET x == ParseOperand(Next1(p), FALSE) IN Result(Of("del", <<x.n>>), x.at)
StatementRawFunctionPointer(p) ==
    LET x == Greedy(ExpectIdentifier(Next1(p), "("), FALSE, 0)
    IN Result(Of("raw_function_pointer", <<x.n>>), ExpectIdentifier(x.at, ")"))
StatementTrustMe(p) == LET b == IndentedBlock(Next1(p)) IN Result(Of("trust_me", <<b.n>>), b.at)

(* parse_abstract_statement_var: a tuple, one variable with a value, or any
   number without *)
VarTuple(f, names, p) ==
    LET x == Greedy(ExpectIdentifier(p, "="), TRUE, 0)
    IN Result(Node("var", "", f, <<Nil, Tuple(names), Operator("=", <<Tuple(names), x.n>>)>>), x.at)
VarType(p) == IF Cur(p) = ":" THEN ParseOperand(Next1(p), TRUE) ELSE Result(Nil, IF Cur(p) = "=" THEN p ELSE Nowhere)
VarValue(f, names, type) ==
    LET x == Greedy(Next1(type.at), TRUE, 0)
    IN IF Cur(type.at) = "="
       THEN Result(Node("var", "", f, <<type.n, names[1], Operator("=", <<names[1], x.n>>)>>),
                   IF Len(names) = 1 THEN x.at ELSE Nowhere)
       ELSE Result(Of("group", [i \in DOMAIN names |-> Node("var", "", f, <<type.n, names[i]>>)]), type.at)
StatementVar(p) ==
    LET f == IF Cur(p) = "let" THEN {} ELSE {"mut"}
        tuple == TokenList(<<>>, Next1(Next1(p)))
        names == TokenList(<<>>, Next1(p))
    IN ExpectNewLine(IF Cur(Next1(p)) = "(" THEN VarTuple(f, tuple.n, ExpectIdentifier(tuple.at, ")"))
                     ELSE VarValue(f, names.n, VarType(names.at)))

(***************************************************************************)
(* Functions.                                                               *)
(***************************************************************************)
(* parse_abstract_function_header: [NAME, RETURN TYPE, PARAMETERS, TEMPLATE]
   and flags; a parameter is [NAME, TYPE, DEFAULT] *)
Optionally(p, t, r) == IF Cur(p) = t THEN r ELSE Result(Nil, p)
Parameter(name, type, default) == Result(<<name, type.n, default.n>>, default.at)
ParameterValue(name, type) == Parameter(name, type, Optionally(type.at, "=", Greedy(Next1(type.at), FALSE, 1)))
ParameterType(flags, name) ==
    ParameterValue([name.n EXCEPT !.f = flags], Optionally(name.at, ":", ParseOperand(Next1(name.at), TRUE)))
ParameterOf(p) == LET flags == ParseFlags({}, p) IN ParameterType(flags.n, Token(flags.at))
RECURSIVE Parameters(_, _)
Parameters(all, p) ==
    LET x == ParameterOf(p)
        with == all \o x.n
    IN CASE x.n[2] = Nil /\ x.n[3] = Nil -> Result(with, Nowhere)
         [] Cur(x.at) = ")" -> Result(with, Next1(x.at))
         [] Cur(x.at) = "," -> Parameters(with, Next1(x.at))
         [] OTHER -> Result(with, Nowhere)
ParameterList(p) ==
    IF Cur(p) = ")" THEN Result(<<>>, Next1(p)) ELSE Parameters(<<>>, p)

ReturnType(f, name, template, params) ==
    LET type == Optionally(params.at, "->", ParseOperand(Next1(params.at), TRUE))
    IN Result(Node("function", "", f, <<name, type.n, Of("list", params.n), template>>), type.at)
TemplateList(p) ==
    LET names == TokenList(<<>>, Next1(p)) IN Result(Of("list", names.n), ExpectIdentifier(names.at, "]"))
HeaderTemplate(f, name, template) ==
    ReturnType(IF template.n = Nil THEN f ELSE f \cup {"template"}, name, template.n,
               ParameterList(ExpectIdentifier(template.at, "(")))
HeaderName(f, name) == HeaderTemplate(f, name.n, Optionally(name.at, "[", TemplateList(name.at)))
FunctionHeader(f, p) ==
    LET flags == ParseFlags(f, Next1(p))
    IN HeaderName(flags.n, IF Cur(flags.at) \in {"(", "["} THEN Result(Nil, flags.at) ELSE Token(flags.at))

WithBody(header, body) == Result([header EXCEPT !.of = Append(@, body.n)], body.at)
LambdaExpression(header, x) == WithBody(header, Result(Of("block", <<x.n>>), x.at))
LambdaBody(header) ==
    IF EndOfLine(header.at) THEN WithBody(header.n, IndentedBlock(header.at))
    ELSE LambdaExpression(header.n, Greedy(header.at, FALSE, 0))
StatementLambda(p) == LET r == LambdaBody(FunctionHeader({"static"}, p)) IN Result(Of("lambda", <<r.n>>), r.at)

(* parse_abstract_statement *)
StatementNames == {"return", "if", "while", "for", "break", "continue", "new", "del", "let", "var", "asm",
                   "raise", "try", "except", "pass", "lambda", "func", "raw_function_pointer", "trust_me",
                   "match"}
Statement(p) ==
    LET c == Cur(p)
    IN CASE c = "for" -> StatementFor(p)
         [] c = "while" -> StatementWhile(p)
         [] c \in {"break", "continue"} -> Leave(p)
         [] c = "return" -> StatementReturn(p)
         [] c = "raise" -> StatementRaise(p)
         [] c = "try" -> StatementTry(p)
         [] c = "if" -> StatementIf(p)
         [] c = "pass" -> ExpectNewLine(Result(Pass, Next1(p)))
         [] c = "new" -> StatementNew(p)
         [] c = "del" -> StatementDelete(p)
         [] c \in {"let", "var"} -> StatementVar(p)
         [] c \in {"lambda", "func"} -> StatementLambda(p)
         [] c = "raw_function_pointer" -> StatementRawFunctionPointer(p)
         [] c = "trust_me" -> StatementTrustMe(p)
         [] c = "match" -> StatementMatch(p)
         [] OTHER -> Result(Nil, Nowhere)

(***************************************************************************)
(* Operands.                                                                *)
(***************************************************************************)
(* parse_abstract_list, parse_abstract_dict: behind the bracket *)
RECURSIVE ListItems(_, _), DictItems(_, _)
ListItems(items, p) ==
    LET x == Greedy(p, FALSE, 0)
        all == Append(items, x.n)
    IN IF Cur(x.at) = "," THEN ListItems(all, Next1(x.at))
       ELSE Result(Of("array", all), ExpectIdentifier(x.at, "]"))
ListLiteral(p) == IF Cur(p) = "]" THEN Result(Of("array", <<>>), Next1(p)) ELSE ListItems(<<>>, p)
DictValue(items, key, value) ==
    IF Cur(value.at) = "," THEN DictItems(items \o <<key, value.n>>, Next1(value.at))
    ELSE Result(Of("dict", items \o <<key, value.n>>), ExpectIdentifier(value.at, "}"))
DictKey(items, key) == DictValue(items, key.n, Greedy(ExpectIdentifier(key.at, ":"), FALSE, 0))
DictItems(items, p) == DictKey(items, Greedy(p, FALSE, 0))
DictLiteral(p) == IF Cur(p) = "}" THEN Result(Of("dict", <<>>), Next1(p)) ELSE DictItems(<<>>, p)

Parenthesized(p) == LET x == Greedy(p, TRUE, 0) IN Result(x.n, ExpectIdentifier(x.at, ")"))
Prefix(k, p) == LET x == ParseOperand(p, FALSE) IN Result(Of(k, <<x.n>>), x.at)
(* '*' is allowed in the operand of a unary operator, '+' is not *)
UnaryOperator(op, p) == LET x == Greedy(p, FALSE, 13) IN Result(Operator(op, <<x.n>>), x.at)

OperandStart(p) ==
    LET c == Cur(p)
    IN CASE c = "(" -> Parenthesized(Next1(p))
         [] c = "&" -> Prefix("reference", Next1(p))
         [] c = "*" -> Prefix("dereference", Next1(p))
         [] c = "[" -> IF Cur(Next1(p)) = "for" THEN SetBuilder(Next1(p)) ELSE ListLiteral(Next1(p))
         [] c = "{" -> DictLiteral(Next1(p))
         [] c \in StatementNames -> Statement(p)
         [] c \in UnaryRight -> UnaryOperator(IF c = "!" THEN "not" ELSE c, Next1(p))
         [] OTHER -> Token(p)

(* parse_abstract_operand *)
Extended(r, prefer_class) == IF EndOfLine(r.at) THEN r ELSE Extension(r.n, r.at, prefer_class)
Operand(p, prefer_class) == Extended(OperandStart(p), prefer_class)

(* parse_abstract_operand_greedy: AxBxC... with operators of some level at least *)
RECURSIVE GreedyRest(_, _, _, _)
GreedyRest(operands, operators, allow, p) ==
    IF Cur(p.at) \in DOMAIN Level /\ Level[Cur(p.at)] >= allow.level /\ (allow.tuples \/ Cur(p.at) # ",")
    THEN IF EndOfLine(Next1(p.at)) THEN Result(Nil, Nowhere)
         ELSE GreedyRest(Append(operands, p.n), Append(operators, Cur(p.at)), allow,
                         ParseOperand(Next1(p.at), FALSE))
    ELSE Result(Digest(Append(operands, p.n), operators), p.at)
Expression(p, allow) == GreedyRest(<<>>, <<>>, allow, ParseOperand(p, FALSE))

(* parse_abstract_block *)
RECURSIVE Commands(_, _, _)
Commands(all, indent0, p) ==
    LET c == Command(p)
        with == Append(all, c.n)
    IN IF EndOfFile(c.at) \/ NextLineIndent(c.at) < indent0 THEN Result(Of("block", with), c.at)
       ELSE IF EndOfFile(NextLine(c.at)) THEN Result(Of("block", with), NextLine(c.at))
       ELSE Commands(with, indent0, NextLine(c.at))
BlockAt(p) == IF EndOfFile(p) THEN Result(Of("block", <<>>), p) ELSE Commands(<<>>, Indent(p), p)

----------------------------------------------------------------------------
----------------------------------------------------------------------------
(***************************************************************************)
(* Definitions.                                                             *)
(***************************************************************************)
(* parse_abstract_function *)
FunctionBody(header) ==
    IF "extern" \notin header.n.f /\ NextLineIsIndented(header.at)
    THEN WithBody(header.n, Block([NextLine(header.at) EXCEPT !.loops = 0]))
    ELSE Result([header.n EXCEPT !.of = Append(@, Nil)], header.at)
Function(f, p) == FunctionBody(ExpectNewLine(FunctionHeader(f, p)))

(* parse_abstract_named_const *)
ConstValue(name, type, value) == ExpectNewLine(Result(Of("const", <<name, type, value.n>>), value.at))
ConstType(name, type) == ConstValue(name, type.n, Greedy(ExpectIdentifier(type.at, "="), FALSE, 0))
ConstName(name) == ConstType(name.n, Optionally(name.at, ":", ParseOperand(Next1(name.at), TRUE)))
NamedConst(p) == ConstName(Token(Next1(p)))

(* parse_abstract_variable_declaration: all names get the type and the value *)
VariableValue(f, names, type, value) ==
    ExpectNewLine(Result([i \in DOMAIN names |-> Node("variable", "", f, <<names[i], type, value.n>>)], value.at))
VariableType(f, names, type) ==
    VariableValue(f, names, type.n, Optionally(type.at, "=", Greedy(Next1(type.at), FALSE, 0)))
VariableNames(f, names) == VariableType(f, names.n, VarType(names.at))
VariableDeclaration(p) ==
    LET flags == ParseFlags({"mut"}, TryConsume(p, "var")) IN VariableNames(flags.n, TokenList(<<>>, flags.at))

(* A list of types, as traits are. *)
RECURSIVE TypeList(_, _)
TypeList(types, p) ==
    LET t == ParseOperand(p, TRUE)
        all == Append(types, t.n)
    IN IF Cur(t.at) = "," THEN TypeList(all, Next1(t.at)) ELSE Result(Of("list", all), t.at)

(* parse_abstract_enum: [NAME, TRAITS, (LABEL, VALUE, TYPE)...] *)
EnumEntry(label, value, type) == Result(<<label, value, type.n>>, type.at)
EnumValue(label, value) == EnumEntry(label, value.n, Optionally(value.at, "as", ParseOperand(Next1(value.at), FALSE)))
EnumLabel(label) == EnumValue(label.n, Optionally(label.at, "=", Greedy(Next1(label.at), FALSE, 0)))
RECURSIVE EnumEntries(_, _, _)
EnumEntries(n, indent0, p) ==
    LET entry == EnumLabel(Token(p))
        with == [n EXCEPT !.of = @ \o entry.n]
    IN CASE ~EndOfLine(entry.at) -> IF EndOfLine(ExpectIdentifier(entry.at, ",")) THEN Result(with, Nowhere)
                                    ELSE EnumEntries(with, indent0, Next1(entry.at))
         [] EndOfLine(entry.at) /\ NextLineIndent(entry.at) < indent0 -> Result(with, entry.at)
         [] OTHER -> IF EndOfFile(NextLine(entry.at)) THEN Result(with, NextLine(entry.at))
                     ELSE EnumEntries(with, indent0, NextLine(entry.at))
EnumBody(f, name, traits) ==
    EnumEntries(Node("enum", "", f, <<name, traits.n>>), Indent(Indented(traits.at)), Indented(traits.at))
EnumTraits(f, name) == EnumBody(f, name.n, Optionally(name.at, "as", TypeList(<<>>, Next1(name.at))))
Enum(p) == LET flags == ParseFlags({}, Next1(p)) IN EnumTraits(flags.n, Token(flags.at))

(* parse_abstract_class_header: [METACLASS, NAME, PARENT, TEMPLATE, TRAITS] *)
ClassTraits(meta, f, name, template, parent) ==
    LET traits == IF Cur(parent.at) \in {"implements", "as"} THEN TypeList(<<>>, Next1(parent.at))
                  ELSE Result(Nil, parent.at)
    IN ExpectNewLine(Result(Node("class", "", f, <<meta, name, parent.n, template, traits.n>>), traits.at))
ClassParent(meta, f, name, template) ==
    ClassTraits(meta, IF template.n = Nil THEN f ELSE f \cup {"template"}, name, template.n,
                Optionally(template.at, "extends", ParseOperand(Next1(template.at), TRUE)))
ClassTemplate(p) == LET t == Token(p) IN Result(t.n, ExpectIdentifier(t.at, "]"))
ClassName(meta, f, name) == ClassParent(meta, f, name.n, Optionally(name.at, "[", ClassTemplate(Next1(name.at))))
ClassHeader(p) ==
    LET flags == ParseFlags({}, Next1(p)) IN ClassName(Token(p).n, flags.n, Token(flags.at))

Metaclasses == {"class", "struct", "interface", "namespace", "trait"}
MethodFlags(meta) == CASE meta = "interface" -> {"virtual"} [] meta = "namespace" -> {"static"} [] OTHER -> {}

(* parse_abstract_class: the lines that are indented more than the header *)
RECURSIVE ClassBody(_, _, _)
UseElement(p) == LET t == Token(Next1(p)) IN ExpectNewLine(Result(Of("use", <<t.n>>), t.at))
Members(r) == Result(<<r.n>>, r.at)
Member(meta, p) ==
    CASE Cur(p) = "enum" -> Members(Enum(p))
      [] Cur(p) \in Metaclasses -> Members(Parse("class", p, <<>>))
      [] Cur(p) = "func" -> Members(Function(MethodFlags(meta), p))
      [] Cur(p) \in {"const", "let"} -> Members(NamedConst(p))
      [] Cur(p) = "use" -> Members(UseElement(p))
      [] OTHER -> VariableDeclaration(p)
WithMembers(n, indent0, r) == ClassBody([n EXCEPT !.of = @ \o r.n], indent0, r.at)
ClassBody(n, indent0, p) ==
    LET next == NextLine(p)
    IN CASE EndOfFile(p) -> Result(n, Rewind(p))
         [] ~EndOfFile(p) /\ Indent(next) <= indent0 -> Result(n, Rewind(next))
         [] OTHER -> WithMembers(n, indent0, Member(n.of[1].v, next))
ClassOf(indent0, header) == ClassBody(header.n, indent0, header.at)
Class(p) == ClassOf(Indent(p), ClassHeader(p))

(* parse_import: [SOURCE, ALIAS]; each leading dot is an empty name, the last
   name may be a '*'.  What is behind the alias in its line is not read. *)
RECURSIVE LeadingDots(_, _), ImportNames(_, _)
LeadingDots(names, p) ==
    IF Cur(p) = "." THEN LeadingDots(Append(names, Nil), Next1(p)) ELSE ImportNames(names, Token(p))
ImportNames(names, name) ==
    LET all == Append(names, name.n)
        next == Next1(name.at)
    IN CASE Cur(name.at) # "." -> Result(all, name.at)
         [] Cur(name.at) = "." /\ Cur(next) = "*" -> Result(Append(all, Node("token", "*", {}, <<>>)), Next1(next))
         [] OTHER -> ImportNames(all, Token(next))
ImportAs(f, names) ==
    LET alias == Next1(names.at)
        import(n, at) == Result(Node("import", "", f, <<Of("list", names.n), n>>), at)
    IN CASE Cur(names.at) # "as" -> import(Nil, names.at)
         [] Cur(names.at) = "as" /\ (EndOfLine(alias) \/ LastOf(names.n).v = "*") -> import(Nil, Nowhere)
         [] OTHER -> import(Node("token", Cur(alias), {}, <<>>), alias)
Import(p) ==
    LET export == Cur(Next1(p)) \in {"@export", "out"}
    IN ImportAs(IF export THEN {"@export"} ELSE {}, LeadingDots(<<>>, IF export THEN Next1(Next1(p)) ELSE Next1(p)))

(* One turn of parse_abstract_top_level: the definition at p, and the next line
   (a file may end in the middle of it). *)
Definition(p) ==
    CASE Cur(p) = "use" -> Members(Import(p))
      [] Cur(p) = "enum" -> Members(Enum(p))
      [] Cur(p) \in Metaclasses -> Members(Class(p))
      [] Cur(p) = "func" -> Members(Function({"static"}, p))
      [] Cur(p) = "macro" -> Members(Function({"static", "macro"}, p))
      [] Cur(p) \in {"const", "let"} -> Members(NamedConst(p))
      [] Cur(p) = "var" -> VariableDeclaration(p)
      [] OTHER -> Result(<<>>, Nowhere)
Parse(what, p, arg) ==
    CASE what = "operand" -> Operand(p, arg.prefer_class)
      [] what = "expression" -> Expression(p, arg)
      [] what = "block" -> BlockAt(p)
      [] what = "class" -> Class(p)
      [] what = "definition" -> Definition(p)

TopLevel(p) ==
    LET r == Parse("definition", p, <<>>)
    IN IF EndOfFile(r.at) THEN r ELSE Result(r.n, NextLine(r.at))
=============================================================================
