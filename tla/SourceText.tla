----------------------------- MODULE SourceText -----------------------------
(***************************************************************************)
(* Reading a source file: Parser::parse_buffer up to the tree without       *)
(* types.  A program is written down in some layout, perhaps with a token   *)
(* missing; the Lexer makes lines of the characters, the AbstractParser     *)
(* definitions of the lines.                                                *)
(***************************************************************************)
EXTENDS SourceGrammar

CONSTANTS Programs,     \* sequences of definitions
          Layouts,      \* how they are written
          Damaged       \* the programs that are also written with a token missing

VARIABLES program, layout, text, phase, at, root
vars == <<program, layout, text, lines, phase, at, root>>

(***************************************************************************)
(* Layouts.                                                                 *)
(***************************************************************************)
Brackets == {"(", ")", "[", "]", "{", "}", ","}
Layout == {"\n", "\t"}
FirstLetter(t) == GetKind(Spelling[t][1]) = "letter"
FirstSign(t) == GetKind(Spelling[t][1]) = "sign"
(* a '!' behind one of the words with a '!', and a '.' behind a number, would
   be part of it *)
NoSpace(t, u) ==
    \/ t \in Brackets \/ u \in Brackets
    \/ FirstLetter(t) /\ FirstSign(u) /\ u # "!"
    \/ FirstSign(t) /\ Len(Spelling[t]) <= 2 /\ t \notin {"#", "'"} /\ FirstLetter(u)

(* What stands before the i-th token. *)
Before(style, tokens, i) ==
    LET t == tokens[i - 1]
        u == tokens[i]
    IN CASE u \in Layout -> <<>>
         [] u \notin Layout /\ i > 1 /\ t \in Layout -> <<>>
         [] style = "tight" -> IF NoSpace(t, u) THEN <<>> ELSE <<" ">>
         [] style = "wrapped" /\ t = "," -> <<" ", "#", "a", "\n", "\t", "\t", "\t">>
         [] style = "wrapped" /\ u = "|>" -> <<"\n", "\t", "\t">>
         [] style = "wrapped" /\ u \in DOMAIN Level \ {",", "|>"} -> <<" ", "\\", "\n">>
         [] style = "spaced" -> <<" ", "\t">>
         [] OTHER -> <<" ">>
LineEnd(style) ==
    CASE style = "spaced" -> <<" ", "#", " ", "(", "\"", "\n", "\n", "\t", "#", "\n", "\t", "\t", "\n">>
      [] OTHER -> <<"\n">>
Spelled(style, t) == CASE t = "\n" -> LineEnd(style) [] t = "\t" -> <<"\t">> [] OTHER -> Spelling[t]
Characters(style, tokens) ==
    FlattenSeq([i \in DOMAIN tokens |-> Before(style, tokens, i) \o Spelled(style, tokens[i])])

(* A text as it is, without its i-th token, or with that token twice. *)
Whole == [what |-> "whole", at |-> 1]
Written(tokens, damage) ==
    CASE damage.what = "whole" -> tokens
      [] damage.what = "missing" -> RemoveAt(tokens, damage.at)
      [] damage.what = "twice" -> InsertAt(tokens, damage.at, tokens[damage.at])

(***************************************************************************)
(* The machine.                                                             *)
(***************************************************************************)
Ways(p) ==
    [style : Layouts, damage : {Whole}]
    \cup (IF p \notin Damaged THEN {}
          ELSE LET tokens == FileText(p)
               IN [style : {"plain"},
                   damage : [what : {"missing", "twice"}, at : {i \in DOMAIN tokens : tokens[i] \notin Layout \cup Flags}]])

Init == /\ program \in Programs /\ layout = [style |-> "", damage |-> Whole]
        /\ text = <<>> /\ lines = <<>> /\ phase = "write" /\ at = Nowhere /\ root = <<>>

Write ==
    /\ phase = "write" /\ phase' = "read"
    /\ layout' \in Ways(program)
    /\ text' = Written(FileText(program), layout'.damage)
    /\ UNCHANGED <<program, lines, at, root>>

(* Exp.analyse, reset_walker *)
ReadSource ==
    /\ phase = "read"
    /\ \E r \in {Analyse(Characters(layout.style, text))} :
           lines' = r.lines /\ phase' = (IF r.ok THEN "parse" ELSE "error")
    /\ at' = Place(1, 1, 0)
    /\ UNCHANGED <<program, layout, text, root>>

ParseDefinition ==
    /\ phase = "parse" /\ ~EndOfFile(at)
    /\ \E r \in {TopLevel(at)} :
           /\ at' = r.at /\ root' = root \o r.n
           /\ phase' = (IF r.at = Nowhere THEN "error" ELSE "parse")
    /\ UNCHANGED <<program, layout, text, lines>>

EndOfSource ==
    /\ phase = "parse" /\ EndOfFile(at)
    /\ phase' = "parsed"
    /\ UNCHANGED <<program, layout, text, lines, at, root>>

Next == Write \/ ReadSource \/ ParseDefinition \/ EndOfSource
Spec == Init /\ [][Next]_vars

----------------------------------------------------------------------------
Complete == layout.damage = Whole

(* However a program is laid out - tokens with or without spaces between them,
   comments, empty lines, lines continued behind a comma, by a '\' or by a pipe -
   the Lexer finds its lines, their indentation and their tokens, and numbers
   the tokens without gaps. *)
ReadsBack ==
    phase = "parse" /\ Complete =>
        /\ FlattenSeq([n \in DOMAIN lines |-> NewLine(lines[n].indent) \o Front(lines[n].tokens)]) = text \o NewLine(0)
        /\ \A n \in DOMAIN lines : \A i \in DOMAIN lines[n].tokens :
               Jump(at, CurToken(Place(n, i, 0))) = Place(n, i, at.loops)

(* The parser finds the very tree that was written: operators group by their
   levels, an else belongs to its if, blocks end where their indentation does. *)
ParsesBack == Complete => /\ phase # "error"
                          /\ phase = "parsed" => root = program

(* A text with a token missing or doubled is refused, or has a tree that stands
   for all of it: no token is skipped.  (Parentheses, commas and the 'var' of a
   member are not in the tree, and an expression's 'func' is its 'lambda'.) *)
Silent == {"(", ")", ",", "var"} \cup Layout
Told(t) == IF t = "lambda" THEN "func" ELSE t
Tokens(ts) == LET told == SelectSeq(ts, LAMBDA t : t \notin Silent) IN [i \in DOMAIN told |-> Told(told[i])]
NothingIgnored == phase = "parsed" => Tokens(FileText(root)) = Tokens(text)
=============================================================================
