---------------------------- MODULE Preprocessor ----------------------------
(***************************************************************************)
(* The preprocessor of one translation unit (cpp.c): the lines of a file   *)
(* and of the files it includes, the directives, the conditional groups,   *)
(* and the output with the line numbers a reader of it computes.           *)
(*                                                                         *)
(* stack is the chain of CppStates parse_include keeps on the C stack; the *)
(* last one is the global state, with the locals of its cpp_parse.         *)
(***************************************************************************)
EXTENDS Macros, FiniteSets

CONSTANTS
    Builtins,           \* the directives init_directives adds
    IncludeName,        \* spelling of a string token -> [dir, name, system] of the file it asks for
    IncludePath,        \* the directories of -I and of the library, in order
    MaxIncludeDepth,    \* MAX_CPP_INCLUDE_DEPTH
    CollapseAbove       \* the 8 newlines append_tokens_to_string_buffer lets stand

VARIABLES
    files,              \* file name -> the spellings in it, "\n" a line end, "\\" one that is spliced away
    stack,
    directives,
    output,
    status              \* "idle", "run", "done", "error" (exit 1), "crash" or "hang"

cppVars == <<files, stack, directives, output, status>>

\* Positions of the tokens of a source: strip_backslash_newlines drops the splices.
Positions(src) == SelectSeq([i \in DOMAIN src |-> i], LAMBDA i : src[i] # "\\")
LineAt(src, i) == 1 + Cardinality({j \in 1..(i - 1) : src[j] \in {"\n", "\\"}})
LinesOf(src) == LET at == Positions(src) IN [k \in DOMAIN at |-> LineAt(src, at[k])]

\* cpp_next, for a whole file.  A line end is numbered before it is read, so
\* that the one of an empty line has the number of the line before it.
Lexed(file) ==
    LET src == files[file]
        at == Positions(src)
        lines == LinesOf(src)
    IN  [k \in DOMAIN at |->
            [s |-> src[at[k]], kind |-> IF src[at[k]] = " (" THEN "(" ELSE KindOf(src[at[k]]),
             line |-> IF src[at[k]] # "\n" THEN lines[k] ELSE IF k = 1 THEN 1 ELSE lines[k - 1],
             offset |-> 0, hides |-> {}, file |-> file]]

\* init_cpp_from_fh, run_preprocessor_on_file: include_depth starts at 0 in every file.
NewState(file) ==
    [file |-> file, tokens |-> Lexed(file), lines |-> LinesOf(files[file]), ip |-> 1,
     newLine |-> TRUE, group |-> <<>>, conds |-> <<[matched |-> FALSE, skipping |-> FALSE]>>,
     offset |-> 0, override |-> <<>>, depth |-> 0, outLine |-> 1]

Top == Last(stack)
SetTop(f) == stack' = Front(stack) \o <<f>>
AtEnd(f) == f.ip > Len(f.tokens)
Cond(f) == Last(f.conds)
Outer(f) == f.conds[Len(f.conds) - 1]
Skipping(f) == Cond(f).skipping
SetCond(f, matched, skipping) ==
    [f EXCEPT !.conds = Front(@) \o <<[matched |-> matched, skipping |-> skipping]>>]

-----------------------------------------------------------------------------
(* The output: tokens, line ends, and "# line file" markers.               *)
NewLineItem == [Never EXCEPT !.s = "\n", !.kind = "\n"]
Marker(line, file) == [Never EXCEPT !.s = "#", !.kind = "marker", !.line = line, !.file = file]
PresumedFile(f) == IF f.override = <<>> THEN f.file ELSE f.override

\* collapse_trailing_newlines: more than threshold line ends become one.
TrailingNewLines(out) == Len(out) - SelectLastInSeq(out, LAMBDA t : t.kind # "\n")
Collapse(out, threshold) ==
    LET n == TrailingNewLines(out)
    IN  IF n > threshold THEN SubSeq(out, 1, Len(out) - n + 1) ELSE out

\* A slip: no catching up, as if every line put out one line end.
EmitTokenOnly(f, made, t, next) ==
    [out |-> Append(made.out, t), line |-> made.line + (IF t.kind = "\n" THEN 1 ELSE 0)]

\* One token of append_tokens_to_string_buffer.  Behind a line end the output
\* catches up with the line of the next token; behind the last, next is the first.
EmitToken(f, made, t, next) ==
    LET eol == t.kind = "\n"
        collapses == ~eol /\ TrailingNewLines(made.out) > CollapseAbove
        before == IF collapses
                  THEN Collapse(made.out, CollapseAbove) \o <<Marker(f.offset + t.line, PresumedFile(f)), NewLineItem>>
                  ELSE made.out
        line == IF eol THEN made.line + 1 ELSE made.line
        missing == IF eol /\ next.line > line THEN next.line - line ELSE 0
    IN  [out |-> Append(before, t) \o [i \in 1..missing |-> NewLineItem], line |-> line + missing]

Emit(f, ts) ==
    FoldLeft(LAMBDA made, i : EmitToken(f, made, ts[i], ts[(i % Len(ts)) + 1]),
             [out |-> output, line |-> f.outLine], [i \in DOMAIN ts |-> i])

-----------------------------------------------------------------------------
(* The loop of cpp_parse.                                                  *)
AtDirective(f) == ~AtEnd(f) /\ f.newLine /\ f.tokens[f.ip].kind = "#"

\* Where the line that position i is on ends.
EolFrom(f, i) == i - 1 + SelectInSeq(SubSeq(f.tokens, i, Len(f.tokens)), LAMBDA t : t.kind = "\n")
Taken(f, from, to) == [k \in 1..(to - from + 1) |-> [f.tokens[from + k - 1] EXCEPT !.offset = f.offset]]

\* Text that is kept goes to the group, up to the end of its line.
TakeText ==
    /\ status = "run" /\ ~AtEnd(Top) /\ ~AtDirective(Top) /\ ~Skipping(Top)
    /\ LET eol == EolFrom(Top, Top.ip)
       IN  SetTop([Top EXCEPT !.group = @ \o Taken(Top, Top.ip, eol), !.newLine = TRUE, !.ip = eol + 1])
    /\ UNCHANGED <<files, directives, output, status>>

\* Skipped text leaves new_line as it is: any # in it is taken for a directive.
SkipText ==
    /\ status = "run" /\ ~AtEnd(Top) /\ ~AtDirective(Top) /\ Skipping(Top)
    /\ SetTop([Top EXCEPT !.ip = @ + 1])
    /\ UNCHANGED <<files, directives, output, status>>

\* The group before a directive or the end is expanded and put out.
FlushGroup ==
    /\ status = "run" /\ Top.group # <<>> /\ (AtEnd(Top) \/ AtDirective(Top))
    /\ LET expanded == Expand(directives, Top.group)
           made == Emit(Top, expanded)
       IN  IF Stops(expanded)
           THEN /\ status' = IF Never \in ToSet(expanded) THEN "hang" ELSE "error"
                /\ UNCHANGED <<stack, output>>
           ELSE /\ output' = made.out
                /\ SetTop([Top EXCEPT !.group = <<>>, !.outLine = made.line])
                /\ UNCHANGED status
    /\ UNCHANGED <<files, directives>>

-----------------------------------------------------------------------------
(* parse_directive.  A directive is at hand once its group is out; state f *)
(* is left behind its word, or at the end of the line (skip_until_eol).    *)
Word(f) == f.tokens[f.ip + 1]
Directive(words) ==
    status = "run" /\ AtDirective(Top) /\ Top.group = <<>> /\ Word(Top).kind \in words
Behind(f) == [f EXCEPT !.ip = @ + 2]
AtEol(f) == [f EXCEPT !.ip = EolFrom(f, f.ip + 1)]
Rest(f) == Taken(f, f.ip + 2, EolFrom(f, f.ip + 1) - 1)

StopWith(s) == status' = s /\ UNCHANGED <<files, stack, directives, output>>
Goes(f) == SetTop(f) /\ UNCHANGED <<files, directives, output, status>>

\* open_include_file: "name" is looked for beside the including file first.
Candidates(f, q) == IF q.system THEN IncludePath ELSE <<f.file[1]>> \o IncludePath
FoundIn(f, q) == SelectInSeq(Candidates(f, q), LAMBDA dir : <<dir, q.name[1], q.name[2]>> \in DOMAIN files)

Include ==
    /\ Directive({"include"})
    /\ IF Skipping(Top) THEN Goes(AtEol(Top))
       ELSE LET given == Rest(Top)
                named == IF given # <<>> /\ given[1].kind = "string" THEN <<given[1]>>
                         ELSE Expand(directives, given)
            IN  IF Top.depth = MaxIncludeDepth \/ named = <<>> \/ Stops(named)
                    \/ Last(named).s \notin DOMAIN IncludeName
                THEN StopWith("error")
                ELSE LET q == IncludeName[Last(named).s]
                         at == FoundIn(Top, q)
                         file == <<Candidates(Top, q)[at], q.name[1], q.name[2]>>
                     IN  IF at = 0 THEN StopWith("error")
                         ELSE /\ stack' = Front(stack) \o <<AtEol(Top), NewState(file)>>
                              /\ output' = Collapse(output, 0) \o <<Marker(1, file), NewLineItem>>
                              /\ UNCHANGED <<files, directives, status>>

\* The included state is dropped, the open groups of its file with it.
EndInclude ==
    /\ status = "run" /\ AtEnd(Top) /\ Top.group = <<>> /\ Len(stack) > 1
    /\ LET f == stack[Len(stack) - 1]
       IN  output' = Append(Collapse(output, 0), Marker(f.offset + f.lines[f.ip] + 1, PresumedFile(f)))
    /\ stack' = Front(stack)
    /\ UNCHANGED <<files, directives, status>>

EndUnit ==
    /\ status = "run" /\ AtEnd(Top) /\ Top.group = <<>> /\ Len(stack) = 1
    /\ output' = Collapse(output, 0)
    /\ status' = IF Len(Top.conds) > 1 THEN "error" ELSE "done"
    /\ UNCHANGED <<files, stack, directives>>

\* parse_define_tokens on what follows the name: a parenthesis right behind
\* the name opens the parameters.  <<>> when it is not well formed.
ParseDefine(ts) ==
    LET fun == ts # <<>> /\ ts[1].s = "("
        close == SelectInSeq(ts, LAMBDA t : t.kind = ")")
        inner == SubSeq(ts, 2, close - 1)
        variadic == inner # <<>> /\ Last(inner).kind = "..."
        unnamed == variadic /\ (Len(inner) = 1 \/ inner[Len(inner) - 1].kind = ",")
        names == SelectSeq(inner, LAMBDA t : IsIdentifier(t))
        body == IF fun THEN SubSeq(ts, close + 1, Len(ts)) ELSE ts
        listed == IF variadic /\ ~unnamed THEN Front(inner) ELSE inner
        alternates == \A i \in DOMAIN listed :
                        IF i % 2 = 0 THEN listed[i].kind = ","
                        ELSE IsIdentifier(listed[i]) \/ (unnamed /\ i = Len(listed))
        distinct == \A i, j \in DOMAIN names : names[i].s = names[j].s => i = j
    IN  IF \/ fun /\ (close = 0 \/ ~alternates \/ ~distinct \/ (inner # <<>> /\ Len(listed) % 2 = 0))
           \/ body # <<>> /\ (body[1].kind = "##" \/ Last(body).kind = "##")
        THEN <<>>
        ELSE <<[fun |-> fun, variadic |-> fun /\ variadic, renders |-> FALSE, body |-> body,
                params |-> IF ~fun THEN <<>>
                           ELSE [i \in DOMAIN names |-> names[i].s]
                                \o (IF unnamed THEN <<"__VA_ARGS__">> ELSE <<>>)]>>

\* check_directive_redeclaration, as far as it ends the program.
Redeclares(old, new) == old.fun = new.fun /\ (old.fun => old.params = new.params)

Define ==
    /\ Directive({"define"})
    /\ LET ts == Rest(Top)
           parsed == IF ts = <<>> THEN <<>> ELSE ParseDefine(Tail(ts))
       IN  IF Skipping(Top) THEN Goes(AtEol(Top))
           ELSE IF ts = <<>> \/ ~IsIdentifier(ts[1]) \/ parsed = <<>> THEN StopWith("error")
           ELSE IF ts[1].s \in DOMAIN directives /\ ~Redeclares(directives[ts[1].s], parsed[1])
           THEN StopWith("error")
           ELSE /\ directives' = (ts[1].s :> parsed[1]) @@ directives
                /\ SetTop(AtEol(Top))
                /\ UNCHANGED <<files, output, status>>

Undef ==
    /\ Directive({"undef"})
    /\ IF Skipping(Top) THEN Goes(Behind(Top))
       ELSE IF Rest(Top) = <<>> \/ ~IsIdentifier(Rest(Top)[1]) THEN StopWith("error")
       ELSE /\ directives' = [name \in DOMAIN directives \ {Rest(Top)[1].s} |-> directives[name]]
            /\ SetTop(AtEol(Top))
            /\ UNCHANGED <<files, output, status>>

\* enter_if: inside a skipped group everything is skipped and nothing matched.
EnterIf(f) == [f EXCEPT !.conds = Append(@, [matched |-> FALSE, skipping |-> Skipping(f)])]

IfDefined ==
    /\ Directive({"ifdef", "ifndef"})
    /\ LET in == EnterIf(AtEol(Top))
           ts == Rest(Top)
           holds == (ts[1].s \in DOMAIN directives) = (Word(Top).kind = "ifdef")
       IN  IF Skipping(Top) THEN Goes(in)
           ELSE IF ts = <<>> \/ ~IsIdentifier(ts[1]) THEN StopWith("error")
           ELSE Goes(SetCond(in, holds, ~holds))

\* #if and #elif: the controlling expression decides, if it can be evaluated.
Decide(f, ts) ==
    LET condition == ConditionTokens(directives, ts)
    IN  IF ts = <<>> \/ Stops(condition)
        THEN StopWith(IF Never \in ToSet(condition) THEN "hang" ELSE "error")
        ELSE Goes(SetCond(f, Evaluate(condition), ~Evaluate(condition)))

If ==
    /\ Directive({"if"})
    /\ IF Skipping(Top) THEN Goes(EnterIf(AtEol(Top))) ELSE Decide(EnterIf(AtEol(Top)), Rest(Top))

\* A slip: #elif looks at its own condition only.
ElifAgain ==
    /\ Directive({"elif"})
    /\ IF Len(Top.conds) = 1 THEN StopWith("crash")
       ELSE IF Outer(Top).skipping THEN Goes(AtEol(Top)) ELSE Decide(AtEol(Top), Rest(Top))

Elif ==
    /\ Directive({"elif"})
    /\ IF Len(Top.conds) = 1 THEN StopWith("crash")
       ELSE IF Outer(Top).skipping THEN Goes(AtEol(Top))
       ELSE IF Cond(Top).matched THEN Goes(SetCond(Behind(Top), TRUE, TRUE))
       ELSE Decide(AtEol(Top), Rest(Top))

Else ==
    /\ Directive({"else"})
    /\ IF Len(Top.conds) = 1 THEN StopWith("error")
       ELSE IF Outer(Top).skipping THEN Goes(Behind(Top))
       ELSE Goes(SetCond(AtEol(Top), Cond(Top).matched, Cond(Top).matched))

Endif ==
    /\ Directive({"endif"})
    /\ IF Len(Top.conds) = 1 THEN StopWith("error")
       ELSE Goes([Behind(Top) EXCEPT !.conds = Front(@)])

\* parse_line: the offset makes the next line have the given number.
Line ==
    /\ Directive({"line"})
    /\ LET given == Rest(Top)
           ts == IF given # <<>> /\ given[1].kind # "number" THEN Expand(directives, given) ELSE given
           n == CHOOSE k \in Numbers : NumberText[k] = ts[1].s
           to == AtEol(Top)
           offset == n - to.lines[to.ip] - 1
           f == [to EXCEPT !.offset = offset,
                           !.override = IF Len(ts) > 1 /\ ts[2].kind = "string" THEN <<ts[2].s>> ELSE @]
       IN  IF Skipping(Top) THEN Goes(Behind(Top))
           ELSE IF given = <<>> THEN StopWith("crash")
           ELSE IF ts = <<>> \/ ts[1].kind # "number" THEN StopWith("error")
           ELSE /\ SetTop(f)
                /\ output' = Append(output, Marker(f.offset + f.tokens[f.ip].line + 1, PresumedFile(f)))
                /\ UNCHANGED <<files, directives, status>>

\* "# number": kept for a second preprocessing, in a skipped group too.
Numbered ==
    /\ Directive({"number"})
    /\ LET to == AtEol(Top)
           expanded == Expand(directives, Taken(Top, Top.ip, to.ip - 1))
           made == Emit(Top, expanded)
       IN  IF Stops(expanded) THEN StopWith(IF Never \in ToSet(expanded) THEN "hang" ELSE "error")
           ELSE /\ output' = made.out
                /\ SetTop([to EXCEPT !.outLine = made.line])
                /\ UNCHANGED <<files, directives, status>>

Ignored ==
    \/ Directive({"pragma"}) /\ Goes(AtEol(Top))
    \/ Directive({"\n"}) /\ Goes([Top EXCEPT !.ip = @ + 1])
    \/ Directive({"warning"}) /\ Goes(IF Skipping(Top) THEN [Top EXCEPT !.ip = @ + 1] ELSE AtEol(Top))

\* #error and unknown directives end the program, unless they are skipped.
Refused ==
    /\ Directive({"error", "identifier", "string", "other", "(", ")", ",", "#", "##", "...", "defined"})
    /\ IF Skipping(Top) THEN Goes([Top EXCEPT !.ip = @ + 1]) ELSE StopWith("error")

Preprocess ==
    \/ TakeText \/ SkipText \/ FlushGroup
    \/ Include \/ EndInclude \/ EndUnit
    \/ Define \/ Undef \/ IfDefined \/ If \/ Elif \/ Else \/ Endif
    \/ Line \/ Numbered \/ Ignored \/ Refused

-----------------------------------------------------------------------------
\* A slip: the directives of the unit before are still there.
StartUnitOnTop(file, defines) ==
    /\ status' = "run"
    /\ directives' = Builtins @@ FoldLeft(LAMBDA ds, d : (d.name :> d.directive) @@ ds, directives, defines)
    /\ stack' = <<NewState(file)>>
    /\ output' = <<Marker(1, file), NewLineItem>>
    /\ UNCHANGED files

\* init_directives: the built in ones are put over those of the command line.
StartUnit(file, defines) ==
    /\ status' = "run"
    /\ directives' = Builtins @@ FoldLeft(LAMBDA ds, d : (d.name :> d.directive) @@ ds, << >>, defines)
    /\ stack' = <<NewState(file)>>
    /\ output' = <<Marker(1, file), NewLineItem>>
    /\ UNCHANGED files
=============================================================================
