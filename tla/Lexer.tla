------------------------------- MODULE Lexer -------------------------------
(***************************************************************************)
(* parser/lexical.cpp: from the characters of a source text to lines of     *)
(* tokens (ExpressionBuffer::analyse), and the walker the parser reads them *)
(* with.  Spelling is the alphabet of a run: the characters of each token.  *)
(*                                                                         *)
(* Abstracted: the maximal lengths of names and strings; the offsets and    *)
(* physical line numbers of error messages; what is inside of asm blocks.   *)
(***************************************************************************)
EXTENDS Naturals, Sequences, SequencesExt, FiniteSets

CONSTANT Spelling
ASSUME SpellingIsInjective ==
    Cardinality({Spelling[t] : t \in DOMAIN Spelling}) = Cardinality(DOMAIN Spelling)

Eol == "<eol>"
Asm == "-asm-"
Unknown == "<unknown>"

----------------------------------------------------------------------------
(* Characters.  The end of the text is the character "". *)
Char(s, i) == IF i \in DOMAIN s THEN s[i] ELSE ""

Digits == {"0", "1", "2", "3", "4", "5", "6", "7", "8", "9"}
HexLetters == {"a", "b", "c", "d", "e", "f"}
Spacing == {" ", "\t", "\n"}
Signs == {".", ":", ",", ";", "+", "-", "*", "%", "/", "=", "<", ">", "^", "'",
          "(", ")", "{", "}", "&", "|", "!", "[", "]", "\"", "\\", "#", "?", "$"}

GetKind(c) ==
    CASE c \in Digits -> "number"
      [] c \in Spacing -> "spacing"
      [] c \in Signs -> "sign"
      [] c = "" -> "unknown"
      [] OTHER -> "letter"

InWord(c) == GetKind(c) \in {"letter", "number"}

(* Symbols of two characters. *)
Doubles == {<<"=", "=">>, <<"!", "=">>, <<"<", "=">>, <<">", "=">>, <<"+", "=">>, <<"-", "=">>,
            <<"*", "=">>, <<"/", "=">>, <<"+", "+">>, <<"-", "-">>, <<"<", "<">>, <<">", ">">>,
            <<"&", "=">>, <<"|", "=">>, <<"|", ">">>, <<"=", ">">>, <<"-", ">">>, <<"&", "!">>,
            <<":", "=">>}

(* The first place from i on whose character passes a test. *)
FirstFrom(s, i, Test(_)) ==
    CHOOSE j \in i..(Len(s) + 1) : /\ j = Len(s) + 1 \/ Test(s[j])
                                   /\ \A k \in i..(j - 1) : ~Test(s[k])

(* A text that cannot be read: the place after the last. *)
Error(s) == Len(s) + 2

----------------------------------------------------------------------------
(* Where the token that starts at i ends. *)

RECURSIVE InterpolationEnd(_, _), StringEnd(_, _)
InterpolationEnd(s, i) ==
    CASE Char(s, i) = "" -> Error(s)
      [] Char(s, i) = "}" /\ Char(s, i - 1) = "}" -> i + 1
      [] OTHER -> InterpolationEnd(s, i + 1)

(* behind the opening quote *)
StringEnd(s, i) ==
    CASE Char(s, i) = "\"" -> i + 1
      [] Char(s, i) = "" -> Error(s)
      [] Char(s, i) = "{" /\ Char(s, i + 1) = "{" -> StringEnd(s, InterpolationEnd(s, i + 1))
      [] Char(s, i) = "\\" -> StringEnd(s, i + 2)
      [] OTHER -> StringEnd(s, i + 1)

CharacterEnd(s, i) ==
    LET close == IF Char(s, i + 1) = "\\" THEN i + 3 ELSE i + 2
    IN IF Char(s, close) = "'" THEN close + 1 ELSE Error(s)

(* Some words may contain a '!'. *)
Exclaimed == {<<"s", "h", "a", "r", "e", "d">>, <<"o", "w", "n", "e", "d">>, <<"x", "f", "e", "r">>}
WordEnd(s, i) ==
    LET end == FirstFrom(s, i, LAMBDA c : ~InWord(c))
    IN IF Char(s, end) = "!" /\ SubSeq(s, i, end - 1) \in Exclaimed
       THEN FirstFrom(s, end + 1, LAMBDA c : ~InWord(c)) ELSE end

NumberEnd(s, i) ==
    IF Char(s, i) = "0" /\ Char(s, i + 1) = "x"
    THEN FirstFrom(s, i + 2, LAMBDA c : c \notin Digits \cup HexLetters)
    ELSE CHOOSE j \in i..(Len(s) + 1) :
             LET inside(k) == \/ Char(s, k) \in Digits \cup {".", "e", "E"}
                              \/ Char(s, k) \in {"+", "-"} /\ Char(s, k - 1) \in {"e", "E"}
             IN ~inside(j) /\ \A k \in i..(j - 1) : inside(k)

SymbolEnd(s, i) == IF <<Char(s, i), Char(s, i + 1)>> \in Doubles THEN i + 2 ELSE i + 1

TokenEnd(s, i) ==
    CASE s[i] = "\"" -> StringEnd(s, i + 1)
      [] s[i] = "#" -> FirstFrom(s, i + 1, LAMBDA c : ~InWord(c))
      [] s[i] = "'" -> CharacterEnd(s, i)
      [] GetKind(s[i]) = "letter" -> WordEnd(s, i)
      [] GetKind(s[i]) = "number" -> NumberEnd(s, i)
      [] OTHER -> SymbolEnd(s, i)

(* do_asm_block: behind the block that starts after "asm" at i. *)
AsmEnd(s, i) ==
    LET open == FirstFrom(s, i, LAMBDA c : c \notin Spacing)
        close == FirstFrom(s, open, LAMBDA c : c = "}")
    IN IF Char(s, open) = "{" /\ Char(s, close) = "}" THEN close + 1 ELSE Error(s)

----------------------------------------------------------------------------
(* Lines. *)
Starts(s, i, word) == \A j \in DOMAIN word : Char(s, i + j - 1) = word[j]
Macros == {<<"#", "d", "e", "f", "i", "n", "e">>, <<"#", "i", "m", "m", "o", "r", "t">>}

TokenOf == [chars \in {Spelling[t] : t \in DOMAIN Spelling} |-> CHOOSE t \in DOMAIN Spelling : Spelling[t] = chars]
Named(chars) == IF chars \in DOMAIN TokenOf THEN TokenOf[chars] ELSE Unknown

Line(indent, tokens) == [indent |-> indent, tokens |-> tokens]

(* analyse_expression and analyse_line: the rest of the line from i on, and
   where it ends.  Tabs before the first token are its indentation; a word that
   begins with "asm" is an asm block. *)
RECURSIVE AnalyseLine(_, _, _)
AnalyseLine(s, i, line) ==
    LET at == FirstFrom(s, i, LAMBDA c : c \notin {" ", "\t"})
        tabs == Cardinality({k \in i..(at - 1) : s[k] = "\t"})
        l == IF line.tokens = <<>> THEN [line EXCEPT !.indent = @ + tabs] ELSE line
        comment == Char(s, at) = "#" /\ \A m \in Macros : ~Starts(s, at, m)
        end == TokenEnd(s, at)
    IN CASE i > Len(s) + 1 -> [line |-> line, at |-> Error(s)]
         [] i <= Len(s) + 1 /\ Char(s, at) \in {"", "\n"} -> [line |-> l, at |-> at]
         [] i <= Len(s) + 1 /\ comment -> [line |-> l, at |-> FirstFrom(s, at, LAMBDA c : c = "\n")]
         [] i <= Len(s) + 1 /\ Starts(s, at, <<"a", "s", "m">>) ->
                [line |-> [l EXCEPT !.tokens = Append(@, Asm)], at |-> AsmEnd(s, at + 3)]
         [] OTHER -> AnalyseLine(s, end, [l EXCEPT !.tokens = Append(@, Named(SubSeq(s, at, end - 1)))])

(* All lines with tokens; the character that ended a line is skipped. *)
RECURSIVE AnalyseLines(_, _, _)
AnalyseLines(s, i, lines) ==
    LET r == AnalyseLine(s, i, Line(0, <<>>))
        kept == IF r.line.tokens = <<>> THEN lines ELSE Append(lines, r.line)
    IN IF r.at > Len(s) THEN [ok |-> r.at = Len(s) + 1, lines |-> kept]
       ELSE AnalyseLines(s, r.at + 1, kept)

LastOf(tokens) == tokens[Len(tokens)]
(* Mutant: a pipe does not continue the line before. *)
ShouldGlue_NoPipe(l, next) == LastOf(l.tokens) \in {"\\", ","}

ShouldGlue(l, next) == LastOf(l.tokens) \in {"\\", ","} \/ next.tokens[1] = "|>"

(* merge_logical_lines: a '\' goes, a ',' stays. *)
Glued(l, next) ==
    [l EXCEPT !.tokens = (IF LastOf(@) = "\\" THEN Front(@) ELSE @) \o next.tokens]
MergeLogicalLines(lines) ==
    FoldLeft(LAMBDA all, l : IF all # <<>> /\ ShouldGlue(LastOf(all), l)
                             THEN Append(Front(all), Glued(LastOf(all), l)) ELSE Append(all, l),
             <<>>, lines)

(* update_meta_data: the numbers of each line's first and last token. *)
UpdateMetaData(lines) ==
    LET first(n) == FoldLeft(LAMBDA id, l : id + Len(l.tokens), 0, SubSeq(lines, 1, n - 1))
    IN [n \in DOMAIN lines |-> [indent |-> lines[n].indent, tokens |-> lines[n].tokens,
                                first |-> first(n), last |-> first(n) + Len(lines[n].tokens) - 1]]

(* A last, empty line is added for safety, and <eol> at the end of each. *)
Analyse(s) ==
    LET r == AnalyseLines(s, 1, <<>>)
        all == Append(MergeLogicalLines(r.lines), Line(0, <<>>))
    IN [ok |-> r.ok, lines |-> UpdateMetaData([n \in DOMAIN all |-> [all[n] EXCEPT !.tokens = Append(@, Eol)]])]

----------------------------------------------------------------------------
(* The walker, on the lines of a file.  A place is a line, a token, and how
   many loops the parser is in (parser_loop_depth).  Nowhere is what is left
   of a parser that has raised an error. *)
VARIABLE lines

Place(l, i, loops) == [l |-> l, i |-> i, loops |-> loops]
Nowhere == Place(0, 1, 0)

Cur(p) == IF p = Nowhere THEN "" ELSE lines[p.l].tokens[p.i]
PeekNext(p) == IF p = Nowhere \/ p.i >= Len(lines[p.l].tokens) THEN "" ELSE lines[p.l].tokens[p.i + 1]
Next1(p) == [p EXCEPT !.i = @ + 1]
EndOfLine(p) == p = Nowhere \/ p.i >= Len(lines[p.l].tokens)
AlmostEndOfLine(p) == p = Nowhere \/ p.i >= Len(lines[p.l].tokens) - 1
EndOfFile(p) == p = Nowhere \/ p.l >= Len(lines)

Indent(p) == IF p = Nowhere THEN 0 ELSE lines[p.l].indent
NextLineIndent(p) == IF EndOfFile(p) THEN 0 ELSE lines[p.l + 1].indent
NextLineIsIndented(p) == NextLineIndent(p) > Indent(p)
NextLine(p) == IF EndOfFile(p) THEN Nowhere ELSE Place(p.l + 1, 1, p.loops)

(* The number of a token, and token_logical_line: which line a number is in. *)
CurToken(p) == lines[p.l].first + p.i - 1
RECURSIVE Halved(_, _, _)
Halved(id, i0, i1) ==
    IF i0 >= i1 THEN i0
    ELSE LET m == (i0 + i1) \div 2
         IN CASE id < lines[m].first -> Halved(id, i0, m - 1)
              [] id > lines[m].last -> Halved(id, m + 1, i1)
              [] OTHER -> m
TokenLogicalLine(id) == Halved(id, 1, Len(lines))
Jump(p, id) ==
    IF p = Nowhere THEN Nowhere
    ELSE LET l == TokenLogicalLine(id) IN Place(l, id - lines[l].first + 1, p.loops)
Rewind(p) == IF p = Nowhere THEN Nowhere ELSE Jump(p, CurToken(p) - 1)
=============================================================================
