------------------------------- MODULE Macros -------------------------------
(***************************************************************************)
(* Macro expansion of the preprocessor (cpp.c): Prosser's algorithm with   *)
(* hide sets.  A token sequence is a TLA+ sequence where the code keeps a  *)
(* circular list; a token is                                               *)
(*   s     its spelling            kind  what the lexer or glue made of it *)
(*   line  its line in its file    offset  what #line adds to that line    *)
(*   hides its hide set            file  the file it was read from         *)
(* A directive is [fun, params, variadic, body]; of a variadic one the     *)
(* last parameter takes the rest of the arguments.  White space, and with  *)
(* it what stringize and need_token_space do about it, is left out.        *)
(***************************************************************************)
EXTENDS Integers, Sequences, SequencesExt, TLC

Keywords == {"define", "include", "undef", "if", "ifdef", "ifndef", "elif", "else",
             "endif", "line", "defined", "warning", "error", "pragma"}
Punctuation == {"(", ")", ",", "#", "##", "...", "\n"}
Operators == {"!", "&&", "||", "==", "+", "-", ";"}
Numbers == 0..99
NumberText == [n \in Numbers |-> ToString(n)]
NumberTexts == {NumberText[n] : n \in Numbers}
StringTexts == {"'b.h'", "'c.h'", "'n.c'", "<b.h>", "<c.h>"}   \* <...> is one behind #include only

\* The kind cpp_next gives a spelling; everything else here is a name.
KindOf(s) == IF s \in Keywords \cup Punctuation THEN s
             ELSE IF s \in NumberTexts THEN "number" ELSE IF s \in StringTexts THEN "string"
             ELSE IF s \in Operators THEN "other" ELSE "identifier"

\* is_identifier: the words of directives are identifiers too.
IsIdentifier(t) == t.kind \in Keywords \cup {"identifier"}

\* A run of the algorithm that does not return, and one that ends the program.
Never == [s |-> "never", kind |-> "stop", line |-> 0, offset |-> 0, hides |-> {}, file |-> <<>>]
Fails == [Never EXCEPT !.s = "error"]
Stops(ts) == \E i \in DOMAIN ts : ts[i].kind = "stop"

\* How many elements at the start of s pass the test.
Leading(s, Test(_)) ==
    LET first == SelectInSeq(s, LAMBDA e : ~Test(e)) IN IF first = 0 THEN Len(s) ELSE first - 1

ParamCount(d) == Len(d.params) - (IF d.variadic THEN 1 ELSE 0)

\* render_line, render_numeric_token: a number token in the place of token t.
NumberAt(n, t) == [t EXCEPT !.s = NumberText[n], !.kind = "number"]

SetLineNumber(ts, line) == [i \in DOMAIN ts |-> [ts[i] EXCEPT !.line = line]]
\* A slip: the hide sets of the arguments are lost.
HsSet(hs, ts) == [i \in DOMAIN ts |-> [ts[i] EXCEPT !.hides = hs]]
HsAdd(hs, ts) == [i \in DOMAIN ts |-> [ts[i] EXCEPT !.hides = @ \cup hs]]

-----------------------------------------------------------------------------
(***************************************************************************)
(* make_function_actual_parameters: ts starts behind the opening           *)
(* parenthesis.  Commas inside parentheses, and those of the variable      *)
(* arguments, do not separate.  Only a token that was read can turn the    *)
(* variable arguments on, so a comma that comes first always separates.    *)
(***************************************************************************)
ReadActual(d, call, t) ==
    LET rest == d.variadic /\ call.read > 0 /\ Len(call.args) >= ParamCount(d)
        more == [call EXCEPT !.current = Append(@, t), !.read = @ + 1]
    IN  IF call.closed THEN [call EXCEPT !.after = Append(@, t)]
        ELSE CASE t.kind = ")" /\ call.nesting = 0 ->
                    [call EXCEPT !.args = Append(@, call.current), !.closed = TRUE, !.hides = t.hides]
               [] t.kind = ")" /\ call.nesting > 0 -> [more EXCEPT !.nesting = @ - 1]
               [] t.kind = "(" -> [more EXCEPT !.nesting = @ + 1]
               [] t.kind = "," /\ call.nesting = 0 /\ ~rest ->
                    [call EXCEPT !.args = Append(@, call.current), !.current = <<>>, !.read = @ + 1]
               [] OTHER -> more

ActualParameters(d, ts) ==
    FoldLeft(LAMBDA call, t : ReadActual(d, call, t),
             [args |-> <<>>, current |-> <<>>, nesting |-> 0, read |-> 0,
              closed |-> FALSE, after |-> <<>>, hides |-> {}], ts)

\* The check of the count stops at the first empty argument.
CountedActuals(args) == Leading(args, LAMBDA a : a # <<>>)

\* stringize: one string of the spellings, line ends left out.
Stringize(ts, at) ==
    [at EXCEPT !.s = FoldLeft(LAMBDA text, t : IF t.kind = "\n" THEN text ELSE text \o t.s, "'", ts) \o "'",
               !.kind = "string"]

\* glue: the last token on the left and the first on the right become one.
Glue(ls, rs) ==
    IF ls = <<>> THEN rs
    ELSE LET pasted == [Last(ls) EXCEPT !.s = @ \o rs[1].s, !.kind = "other",
                                        !.hides = @ \cap rs[1].hides]
         IN  Front(ls) \o <<pasted>> \o Tail(rs)

-----------------------------------------------------------------------------
RECURSIVE Expand(_, _), Subst(_, _, _, _, _, _)

(***************************************************************************)
(* subst: is is what is left of the replacement list, os what has been     *)
(* made of it.  Arguments beside # and ## are taken as they are, the       *)
(* others are expanded first.                                              *)
(***************************************************************************)
Subst(dirs, is, params, args, hs, os) ==
    IF is = <<>> THEN HsAdd(hs, os)
    ELSE LET Param(i) == IF i > Len(is) THEN 0
                         ELSE LET at == {p \in DOMAIN params : params[p] = is[i].s}
                              IN  IF at = {} THEN 0 ELSE CHOOSE p \in at : TRUE
             Arg(i) == IF Param(i) \in DOMAIN args THEN args[Param(i)] ELSE <<>>
             Pastes(i) == i <= Len(is) /\ is[i].kind = "##"
             Go(n, made) == Subst(dirs, SubSeq(is, n + 1, Len(is)), params, args, hs, made)
         IN  CASE is[1].kind = "#" /\ Param(2) > 0 -> Go(2, Append(os, Stringize(Arg(2), is[1])))
               [] Pastes(1) /\ Param(2) > 0 -> Go(2, IF Arg(2) = <<>> THEN os ELSE Glue(os, Arg(2)))
               [] Pastes(1) /\ Param(2) = 0 -> Go(2, Glue(os, <<is[2]>>))
               [] Param(1) > 0 /\ Pastes(2) ->
                    IF Arg(1) # <<>> THEN Go(1, os \o Arg(1))
                    ELSE IF Param(3) > 0 THEN Go(3, os \o Arg(3)) ELSE Go(2, os)
               [] Param(1) > 0 /\ ~Pastes(2) -> Go(1, os \o Expand(dirs, Arg(1)))
               [] OTHER -> Go(1, Append(os, is[1]))

\* What an object-like macro stands for at token t: __LINE__ is rendered there.
Replacement(d, t) == IF d.renders THEN <<NumberAt(t.offset + t.line, t)>> ELSE d.body

(***************************************************************************)
(* expand: a name in its own hide set stays; line ends may stand between   *)
(* the name of a function-like macro and its parenthesis.  The list is     *)
(* circular and the search for the closing parenthesis goes round it: a    *)
(* call that is not closed in its group is never left.                     *)
(***************************************************************************)
Expand(dirs, is) ==
    IF is = <<>> THEN <<>>
    ELSE LET t == is[1]
             stays == <<t>> \o Expand(dirs, Tail(is))
             paren == Leading(Tail(is), LAMBDA u : u.kind = "\n") + 2
         IN  IF t.s \notin DOMAIN dirs \/ t.s \in t.hides THEN stays
             ELSE LET d == dirs[t.s] IN
             IF ~d.fun
             THEN Expand(dirs, SetLineNumber(Subst(dirs, Replacement(d, t), <<>>, <<>>,
                                                   t.hides \cup {t.s}, <<>>), t.line) \o Tail(is))
             ELSE IF paren > Len(is) \/ is[paren].kind # "(" THEN stays
             ELSE LET call == ActualParameters(d, SubSeq(is, paren + 1, Len(is)))
                      hs == (t.hides \cap call.hides) \cup {t.s}
                  IN  IF paren = Len(is) THEN <<Fails>>
                      ELSE IF ~call.closed THEN <<Never>>
                      ELSE IF ~d.variadic /\ CountedActuals(call.args) > ParamCount(d) THEN <<Fails>>
                      ELSE Expand(dirs, SetLineNumber(Subst(dirs, d.body, d.params, call.args, hs, <<>>),
                                                      t.line) \o call.after)

-----------------------------------------------------------------------------
\* expand_defineds: defined X and defined(X) become 1 or 0, <<Fails>> for other forms.
RECURSIVE ExpandDefineds(_, _)
ExpandDefineds(dirs, is) ==
    LET IsName(i) == i <= Len(is) /\ is[i].kind = "identifier"
        Is(i, kind) == i <= Len(is) /\ is[i].kind = kind
        Found(i) == NumberAt(IF is[i].s \in DOMAIN dirs THEN 1 ELSE 0, is[i])
        After(n) == ExpandDefineds(dirs, SubSeq(is, n + 1, Len(is)))
    IN  IF is = <<>> THEN <<>>
        ELSE CASE ~Is(1, "defined") -> <<is[1]>> \o After(1)
               [] Is(1, "defined") /\ IsName(2) -> <<Found(2)>> \o After(2)
               [] Is(1, "defined") /\ Is(2, "(") /\ IsName(3) /\ Is(4, ")") -> <<Found(3)>> \o After(4)
               [] OTHER -> <<Fails>>

\* What the rendered text of a condition evaluates to (constexpr.c), for the
\* forms used here: a number, its negation, and two numbers with an operator.
Evaluate(ts) ==
    LET Value(i) == CHOOSE n \in Numbers : ts[i].s = NumberText[n]
    IN  CASE Len(ts) = 1 -> Value(1) # 0
          [] Len(ts) = 2 -> ts[1].s = "!" /\ Value(2) = 0
          [] Len(ts) = 3 -> CASE ts[2].s = "&&" -> Value(1) # 0 /\ Value(3) # 0
                              [] ts[2].s = "||" -> Value(1) # 0 \/ Value(3) # 0
                              [] ts[2].s = "==" -> Value(1) = Value(3)

\* parse_conditional_expression: names that are left count as 0.
ConditionTokens(dirs, ts) ==
    LET expanded == Expand(dirs, ExpandDefineds(dirs, ts))
    IN  [i \in DOMAIN expanded |-> IF IsIdentifier(expanded[i]) THEN NumberAt(0, expanded[i])
                                   ELSE expanded[i]]
=============================================================================
