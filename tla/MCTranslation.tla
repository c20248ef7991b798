---------------------------- MODULE MCTranslation ----------------------------
(***************************************************************************)
(* The files and commands of the run: nested conditional groups, macros,   *)
(* files whose lines are hard to follow, and commands with several inputs. *)
(***************************************************************************)
EXTENDS Translation

A == <<"", "a", "c">>
B == <<"", "b", "c">>
C == <<"", "c", "c">>
MCIncludeName == [s \in StringTexts |->
    CASE s = "'b.h'" -> [name |-> <<"b", "h">>, system |-> FALSE]
      [] s = "<b.h>" -> [name |-> <<"b", "h">>, system |-> TRUE]
      [] OTHER -> [name |-> <<"c", "h">>, system |-> s = "<c.h>"]]
MCIncludePath == <<"lib">>
Object(body) == [fun |-> FALSE, params |-> <<>>, variadic |-> FALSE, renders |-> FALSE, body |-> body]
MCBuiltins == ("__LINE__" :> [Object(<<>>) EXCEPT !.renders = TRUE]) @@ ("__STDC__" :> Object(<<[Never EXCEPT !.s = "1", !.kind = "number"]>>))

HashLine(words) == <<"#">> \o words \o <<"\n">>
TextLine(words) == words \o <<"\n">>

-----------------------------------------------------------------------------
\* Conditional groups: a section, and one inside one of its groups.
Ifs == {<<"if", "0">>, <<"if", "1">>, <<"ifdef", "M">>, <<"ifndef", "M">>}
Rests == {<<>>, <<<<"else">>>>, <<<<"elif", "1">>>>, <<<<"elif", "0">>, <<"else">>>>, <<<<"elif", "1">>, <<"elif", "1">>>>}
Section(head, rest, Inner(_)) ==
    HashLine(head) \o Inner(0)
    \o FoldLeft(LAMBDA s, i : s \o HashLine(rest[i]) \o Inner(i), <<>>, [i \in DOMAIN rest |-> i])
    \o HashLine(<<"endif">>)
InnerSections ==
    {Section(head, rest, LAMBDA i : TextLine(<<IF i = 0 THEN "u" ELSE "v">>)) : head \in Ifs, rest \in Rests}
    \cup {HashLine(<<"define", "M", "1">>), HashLine(<<"undef", "M">>), HashLine(<<"error">>), TextLine(<<"w">>)}
Plain(i) == TextLine(<<CASE i = 0 -> "x" [] i = 1 -> "y" [] i = 2 -> "z">>)
GroupFiles == {before \o Section(head, rest, LAMBDA i : IF i = at THEN inner ELSE Plain(i)) \o Section(<<"ifdef", "M">>, <<>>, Plain):
                before \in {<<>>, HashLine(<<"define", "M", "1">>)}, head \in Ifs, rest \in Rests, at \in 0..2, inner \in InnerSections}
\* Sections that are not well formed, and what skipped lines may hold.
OddFiles == {
    HashLine(<<"else">>), HashLine(<<"endif">>), HashLine(<<"elif", "1">>), HashLine(<<"if", "1">>),
    HashLine(<<"if", "0">>) \o <<"x", "#", "endif", "\n", "y", "\n">>,
    HashLine(<<"if", "0">>) \o HashLine(<<"else">>) \o Plain(0) \o HashLine(<<"else">>) \o Plain(1) \o HashLine(<<"endif">>),
    HashLine(<<"if", "0">>) \o HashLine(<<"x">>) \o HashLine(<<"warning", "x">>) \o HashLine(<<"line", "3">>)
        \o HashLine(<<"pragma", "x">>) \o HashLine(<<"7">>) \o HashLine(<<"include", "'b.h'">>) \o HashLine(<<"endif">>) \o Plain(0),
    HashLine(<<"pragma", "x">>) \o HashLine(<<>>) \o HashLine(<<"warning", "x">>) \o HashLine(<<"7", "'n.c'">>) \o Plain(0),
    HashLine(<<"x">>), HashLine(<<"include", "x">>), HashLine(<<"include", "'c.h'">>),
    HashLine(<<"define", "F", "(", "p", ",", "p", ")">>), HashLine(<<"define", "M", "##", "x">>),
    HashLine(<<"define", "M", "x">>) \o HashLine(<<"define", "M", "(", ")", "x">>)}

-----------------------------------------------------------------------------
\* Macros: two object-like and two function-like ones that may name each other.
DefineLine(name, body) == HashLine(<<"define", name>> \o body)
Bodies == {<<"N">>, <<"M", "1">>, <<"F">>, <<"F", "(", "M", ")">>, <<"x", "##", "y">>, <<>>}
FunctionBodies == {<<"p">>, <<"p", "F">>, <<"p", "M">>, <<"G", "(", "p", ")">>, <<"M", "##", "p">>, <<"p", "##", "q">>,
                   <<"#", "p", "p">>, <<"[", "p", "##", "]", "q">>, <<"F", "(", "q", ")", "p">>}
Calls == {<<"M", "(", "M", ")">>, <<"F", "(", "N", ",", "M", ")">>, <<"F", "(", "F", "(", "1", ")", ",", ")", "(", "2", ")">>,
          <<"G", "(", "F", ")", "(", "(", "x", ",", "M", ")", ",", "N", ")">>, <<"F", "\n", "(", ",", "G", ")", "M">>,
          <<"V", "(", "x", ",", "M", ",", "F", "(", "1", ",", "2", ")", ")">>}
MacroFiles == {DefineLine("M", m) \o DefineLine("N", n) \o DefineLine("F", <<"(", "p", ",", "q", ")">> \o f)
               \o DefineLine("G", <<"(", "p", ")">> \o g) \o DefineLine("V", <<"(", "p", ",", "...", ")", "p", "__VA_ARGS__">>) \o TextLine(call) :
               m \in Bodies, n \in {<<"M">>, <<"G">>, <<"x">>}, f \in FunctionBodies, g \in {<<"p">>, <<"p", "G">>, <<"F", "(", "p", ",", "M", ")">>},
               call \in Calls}
ConditionFiles == {DefineLine("M", m) \o HashLine(<<"if">> \o c) \o TextLine(<<"x">>) \o HashLine(<<"else">>) \o TextLine(<<"y">>) \o HashLine(<<"endif">>) :
               m \in {<<"1">>, <<"0">>, <<"x">>},
               c \in {<<"defined", "M">>, <<"!", "defined", "(", "N", ")">>, <<"M", "&&", "__STDC__">>, <<"M", "==", "N">>, <<"defined", "1">>, <<"N", "||", "M">>}}

-----------------------------------------------------------------------------
\* Lines: parts of a file whose lines the output has to follow.
Parts == {TextLine(<<"x">>), <<"x", "\\", "y", "\n">>, <<"\n", "\n", "\n", "\n", "\n">>, <<"F", "(", "x", "\n", ",", "\\", "y", ")", "z", "\n">>,
          <<"F", "(", "x", ",", "y", "\n", "\n", "z", "\n", ")", "\n">>, HashLine(<<"line", "30">>), HashLine(<<"line", "M", "'n.c'">>),
          HashLine(<<"include", "'b.h'">>), HashLine(<<"include", "<b.h>">>), HashLine(<<"include", "H">>),
          HashLine(<<"if", "0">>) \o TextLine(<<"x">>) \o HashLine(<<"endif">>), <<"M", "\n", "__LINE__", "\n">>}
Header == HashLine(<<"ifndef", "M">>) \o HashLine(<<"define", "M", "40">>) \o <<"h", "\n", "\n">> \o HashLine(<<"endif">>)
LineFiles == {DefineLine("H", <<"'b.h'">>) \o DefineLine("F", <<" (", "p", ",", "q", ")", "q">>) \o HashLine(<<"undef", "F">>)
              \o DefineLine("F", <<"(", "p", ",", "q", ")", "q">>) \o HashLine(<<"include", "'b.h'">>) \o p \o q \o r \o TextLine(<<"e">>) :
              p, q \in Parts, r \in {TextLine(<<"x">>), <<"x", "\\", "y", "\n">>, <<"F", "(", "x", ",", "y", "\n", "\n", "z", "\n", ")", "\n">>}}

Alone(src) == (A :> src) @@ (<<"", "b", "h">> :> Header) @@ (<<"lib", "b", "h">> :> <<"l", "\n">> \o HashLine(<<"if", "1">>))
File(name) == [opt |-> "file", val |-> name]
Option(opt) == [opt |-> opt, val |-> <<>>]
PreprocessA == <<Option("-E"), File(A)>>

\* Several inputs: the first and the last file are the same.
Unit1 == HashLine(<<"ifdef", "M">>) \o TextLine(<<"x">>) \o HashLine(<<"else">>) \o TextLine(<<"M">>) \o HashLine(<<"endif">>) \o DefineLine("M", <<"y">>) \o TextLine(<<"N", "M">>)
Unit2 == {DefineLine("M", <<"y">>) \o HashLine(<<"undef", "N">>), HashLine(<<"line", "9">>) \o DefineLine("N", <<"(", ")", "z">>), HashLine(<<"endif">>), DefineLine("F", <<"(", "p", ")", "p">>) \o TextLine(<<"F", "(", "x">>)}
Units == {(A :> Unit1) @@ (B :> u) @@ (C :> Unit1) : u \in Unit2}
DefineOption == [opt |-> "-D", val |-> [name |-> "N", directive |-> Object(<<[Never EXCEPT !.s = "1", !.kind = "number"]>>)]]
Library == [opt |-> "-l", val |-> <<"m">>]
OutputOption == [opt |-> "-o", val |-> <<"", "out", "">>]
InputLists == {<<File(A), File(B), Library, File(C)>>, <<File(<<"", "e", "s">>)>>, <<File(<<"", "d", "o">>), File(A), File(<<"", "e", "s">>)>>, <<Library, File(B)>>, <<File(A)>>, <<>>, <<File(<<"", "f", "c">>)>>}
Modes == {<<>>, <<Option("-c")>>, <<Option("-S")>>, <<Option("-E")>>, <<Option("-static"), Option("-shared")>>}
CommandLines == {m \o d \o o \o i : m \in Modes, d \in {<<>>, <<DefineOption>>}, o \in {<<>>, <<OutputOption>>}, i \in InputLists}

MCCommands == {[files |-> f, argv |-> c] : f \in Units, c \in CommandLines}

\* The many files are preprocessed alone; the commands have the few units.
MCJobs == MCCommands \cup
          {[files |-> Alone(src), argv |-> PreprocessA] : src \in GroupFiles \cup OddFiles \cup MacroFiles \cup ConditionFiles \cup LineFiles}

\* A tool ends with 0 or 1, is killed by signal 9 or, dumping its core, 11, or is not started.
MCToolResults == {0, 256, 9, 128 + 11, -1}
=============================================================================
