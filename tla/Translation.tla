----------------------------- MODULE Translation -----------------------------
(***************************************************************************)
(* What the preprocessor and the driver promise, stated without the        *)
(* algorithms of the code: which groups of a file are kept, what a macro   *)
(* call expands to by the rules of the language, where a reader of the     *)
(* output places a token, and what a successful command has built.         *)
(***************************************************************************)
EXTENDS Driver

-----------------------------------------------------------------------------
(* Conditional groups.  A file as lines of spellings.                      *)
LinesIn(src) ==
    FoldLeft(LAMBDA ls, s : IF s = "\n" THEN Append(ls, <<>>) ELSE Front(ls) \o <<Append(Last(ls), s)>>,
             <<<<>>>>, SelectSeq(src, LAMBDA s : s # "\\"))

Heads(ls, words) == {k \in DOMAIN ls : Len(ls[k]) > 1 /\ ls[k][1] = "#" /\ ls[k][2] \in words}
Opens(ls) == Heads(ls, {"if", "ifdef", "ifndef"})
Middles(ls) == Heads(ls, {"elif", "else"})
Closes(ls) == Heads(ls, {"endif"})
Depth(ls, k) == Cardinality({o \in Opens(ls) : o < k}) - Cardinality({c \in Closes(ls) : c < k})

\* The openers of the sections line k is in, and the heads of the groups of one.
Around(ls, k) == {o \in Opens(ls) : o < k /\ \A j \in (o + 1)..k : Depth(ls, j) > Depth(ls, o)}
GroupHeads(ls, o) == {o} \cup {m \in Middles(ls) : o \in Around(ls, m) /\ Depth(ls, m) = Depth(ls, o) + 1}

\* Sections are closed, #else is the last of its section, and # starts a line.
WellFormed(ls) ==
    /\ Depth(ls, Len(ls) + 1) = 0
    /\ \A k \in Middles(ls) \cup Closes(ls) : Around(ls, k) # {}
    /\ \A o \in Opens(ls) : \A m \in GroupHeads(ls, o) :
        ls[m][2] = "else" => \A n \in GroupHeads(ls, o) : n <= m
    /\ \A k \in DOMAIN ls : \A i \in DOMAIN ls[k] : ls[k][i] = "#" => i = 1

\* The condition of head h, when kept says which lines before it are kept.
Holds(ls, kept, h) ==
    LET Set(word, name) == {j \in 1..(h - 1) : kept[j] /\ j \in Heads(ls, {word}) /\ ls[j][3] = name}
        Lasting(name) == {j \in Set("define", name) : \A u \in Set("undef", name) : u < j}
        Defined(name) == Lasting(name) # {} \/ name \in DOMAIN Builtins
        \* A name counts as the number it was last defined to be, or as 0.
        Term(w) == IF w \in NumberTexts THEN w
                   ELSE IF w \in DOMAIN Builtins THEN Builtins[w].body[1].s
                   ELSE LET at == {j \in Lasting(w) : ls[j][4] \in NumberTexts /\ \A i \in Lasting(w) : i <= j}
                        IN  IF at = {} THEN "0" ELSE ls[CHOOSE j \in at : TRUE][4]
        Positive(c) == CASE c[1] = "defined" -> Defined(IF c[2] = "(" THEN c[3] ELSE c[2])
                         [] Len(c) = 1 -> Term(c[1]) # "0"
                         [] c[2] = "&&" -> Term(c[1]) # "0" /\ Term(c[3]) # "0"
                         [] c[2] = "||" -> Term(c[1]) # "0" \/ Term(c[3]) # "0"
                         [] c[2] = "==" -> Term(c[1]) = Term(c[3])
        condition == SubSeq(ls[h], 3, Len(ls[h]))
    IN  CASE ls[h][2] = "else" -> TRUE
          [] ls[h][2] = "ifdef" -> Defined(ls[h][3])
          [] ls[h][2] = "ifndef" -> ~Defined(ls[h][3])
          [] OTHER -> IF condition[1] = "!" THEN ~Positive(Tail(condition)) ELSE Positive(condition)

\* A line is kept when, of each section around it, it is in the first group
\* whose condition holds.
KeptLines(ls) ==
    LET Keeps(kept, k) ==
            \A o \in Around(ls, k) :
                LET before == {h \in GroupHeads(ls, o) : h < k}
                    own == CHOOSE h \in before : \A g \in before : g <= h
                IN  Holds(ls, kept, own) /\ \A h \in before \ {own} : ~Holds(ls, kept, h)
    IN  FoldLeft(LAMBDA kept, k : Append(kept, Keeps(kept, k)), <<>>, [k \in DOMAIN ls |-> k])

TextOf(out) == LET ts == SelectSeq(out, LAMBDA t : t.hides = {} /\ t.kind \notin {"\n", "marker"})
               IN  [i \in DOMAIN ts |-> ts[i].s]

\* Of every conditional section, the text of exactly the first group whose condition
\* holds reaches the output (enter_if and the #if, #elif, #else and #endif cases of
\* parse_directive), for a file without #include and without calls of macros.
GroupsAreKept ==
    status = "done" =>
        LET ls == LinesIn(files[inputs[unit]])
            kept == KeptLines(ls)
            text == SelectSeq([k \in DOMAIN ls |-> k],
                              LAMBDA k : kept[k] /\ (ls[k] = <<>> \/ ls[k][1] # "#"))
            plain == /\ Heads(ls, {"include", "line"}) = {} /\ Heads(ls, NumberTexts) = {}
                     /\ \A k \in DOMAIN ls : k \notin Heads(ls, {"define", "undef", "ifdef", "ifndef", "pragma"})
                          => \A i \in DOMAIN ls[k] : ls[k][i] \notin DOMAIN directives
        IN  plain /\ WellFormed(ls) => TextOf(output) = FoldLeft(LAMBDA t, k : t \o ls[k], <<>>, text)

-----------------------------------------------------------------------------
(* Macro expansion by the rules of the language.  A stream holds tokens    *)
(* [s, painted] and, where the replacement of a macro ends, [ends, ...].   *)
(* A name is painted when it is met before the end of a replacement of     *)
(* that macro, and is never replaced after.                                *)
Item(s) == [s |-> s, painted |-> FALSE, ends |-> ""]
EndOf(name) == [s |-> "", painted |-> FALSE, ends |-> name]
PlaceMarker == Item("")
Unspecified == [Item("") EXCEPT !.ends = "unspecified"]

RECURSIVE Substituted(_, _, _, _), Scan(_, _, _)

\* The replacement list of d, with placemarkers for empty operands of ##.
Substituted(dirs, d, args, active) ==
    LET body == d.body
        IsParam(i) == d.fun /\ \E p \in DOMAIN d.params : d.params[p] = body[i].s
        Arg(i) == LET p == CHOOSE p \in DOMAIN d.params : d.params[p] = body[i].s
                  IN  IF p \in DOMAIN args THEN args[p] ELSE <<>>
        Is(i, s) == i \in DOMAIN body /\ body[i].s = s
        Operand(i) == Is(i - 1, "##") \/ Is(i + 1, "##")
        Quoted(ts) == FoldLeft(LAMBDA text, x : IF x.s = "\n" THEN text ELSE text \o x.s, "'", ts) \o "'"
        Piece(i) == IF ~IsParam(i) THEN <<Item(body[i].s)>>
                    ELSE IF Is(i - 1, "#") THEN <<Item(Quoted(Arg(i)))>>
                    ELSE IF Operand(i) THEN IF Arg(i) = <<>> THEN <<PlaceMarker>> ELSE Arg(i)
                    ELSE Scan(dirs, Arg(i), active)
        Paste(made, new) == Front(made) \o <<[Item(Last(made).s \o new[1].s) EXCEPT
                                !.painted = \/ Last(made).s = "" /\ new[1].painted
                                            \/ new[1].s = "" /\ Last(made).painted]>> \o Tail(new)
        Joined == FoldLeft(LAMBDA made, i :
                            IF body[i].s = "##" \/ (body[i].s = "#" /\ i < Len(body) /\ IsParam(i + 1)) THEN made
                            ELSE IF Is(i - 1, "##") THEN Paste(made, Piece(i)) ELSE made \o Piece(i),
                           <<>>, [i \in DOMAIN body |-> i])
    IN  SelectSeq(Joined, LAMBDA x : x.s # "" \/ x.ends # "")

\* The arguments of a call, at the commas of depth 0, and where it is closed.
DepthAt(ts, i) == Cardinality({j \in 1..(i - 1) : ts[j].s = "("}) - Cardinality({j \in 1..(i - 1) : ts[j].s = ")"})
ClosedAt(ts) == SelectInSeq([i \in DOMAIN ts |-> i], LAMBDA i : ts[i].s = ")" /\ DepthAt(ts, i) = 0)
ArgumentsIn(d, ts) ==
    LET close == ClosedAt(ts)
        commas == SelectSeq([i \in 1..(close - 1) |-> i], LAMBDA i : ts[i].s = "," /\ DepthAt(ts, i) = 0)
        used == IF d.variadic /\ Len(commas) >= Len(d.params) THEN SubSeq(commas, 1, Len(d.params) - 1) ELSE commas
        cuts == <<0>> \o used \o <<close>>
    IN  [k \in 1..(Len(cuts) - 1) |-> SubSeq(ts, cuts[k] + 1, cuts[k + 1] - 1)]

Scan(dirs, ts, around) ==
    IF ts = <<>> THEN <<>>
    ELSE LET t == ts[1]
             active == around \cup ({ts[i].ends : i \in DOMAIN ts} \ {""})
             Seen(x) == IF x.s \in active THEN [x EXCEPT !.painted = TRUE] ELSE x
             rest == Tail(ts)
             Replaced(made, after) == Scan(dirs, made \o <<EndOf(t.s)>> \o after, around)
         IN  IF t.ends = "unspecified" THEN <<t>>
             ELSE IF t.ends # "" THEN Scan(dirs, rest, around)
             ELSE IF t.s \notin DOMAIN dirs \/ t.painted \/ t.s \in active
             THEN <<Seen(t)>> \o Scan(dirs, rest, around)
             ELSE IF ~dirs[t.s].fun
             THEN Replaced(Substituted(dirs, dirs[t.s], <<>>, active), rest)
             ELSE LET open == SelectInSeq(rest, LAMBDA x : x.s # "\n" /\ x.ends = "")
                      crosses == \E i \in 1..(open - 1) : rest[i].ends # ""
                      inside == SubSeq(rest, open + 1, Len(rest))
                      close == ClosedAt(inside)
                      call == SubSeq(inside, 1, close)
                      painted == [i \in DOMAIN call |-> Seen(call[i])]
                  IN  IF open = 0 \/ rest[open].s # "(" THEN <<t>> \o Scan(dirs, rest, around)
                      ELSE IF crosses \/ close = 0 \/ \E i \in DOMAIN call : call[i].ends # ""
                      THEN <<Unspecified>>
                      ELSE Replaced(Substituted(dirs, dirs[t.s], ArgumentsIn(dirs[t.s], painted), active),
                                    SubSeq(inside, close + 1, Len(inside)))

Spellings(ts) == LET seen == SelectSeq(ts, LAMBDA t : t.s # "\n") IN [i \in DOMAIN seen |-> seen[i].s]

\* Every group of text expands to what the rules of the language give it: hide sets
\* (expand, subst, glue, hsadd) stop exactly the names that stand in a replacement of
\* their own macro.  Calls that end outside the replacement they began in are left
\* open by the language, and so are left out here.
ExpandsByTheRules ==
    status = "run" /\ Top.group # <<>> /\ (AtEnd(Top) \/ AtDirective(Top)) =>
        LET rendered == {name \in DOMAIN directives : directives[name].renders}
            words == [i \in DOMAIN Top.group |-> Item(Top.group[i].s)]
            expected == Scan(directives, words, rendered)
            got == Expand(directives, Top.group)
        IN  \/ \E i \in DOMAIN expected : expected[i] = Unspecified
            \/ \E i \in DOMAIN Top.group : Top.group[i].s \in rendered
            \/ Stops(got)
            \/ Spellings(got) = Spellings(expected)

-----------------------------------------------------------------------------
(* Reading the output: line and file count on from each marker.            *)
Misplaced(at, t) == t.line + t.offset # at.line \/ (Len(at.file) > 1 /\ at.file # t.file)
Read(at, t) ==
    CASE t.kind = "marker" -> [at EXCEPT !.line = t.line - 1, !.file = t.file, !.first = TRUE]
      [] t.kind = "\n" -> [at EXCEPT !.line = @ + 1, !.first = TRUE]
      [] OTHER -> [at EXCEPT !.first = FALSE,
                             !.wrong = @ \/ (at.first /\ t.hides = {} /\ Misplaced(at, t))]

RepeatsParam(d) == \E i, j \in DOMAIN d.body : i < j /\ d.body[i].s = d.body[j].s /\ d.body[i].s \in ToSet(d.params)

FollowsLines(ts) == ~FoldLeft(Read, [line |-> 0, file |-> <<>>, first |-> TRUE, wrong |-> FALSE], ts).wrong

\* What makes the output shorter (a group, a spliced line, a call over several lines)
\* puts it behind the text, and a #line or #include right after it writes its marker
\* without first catching up: output_line_number is then wrong by those lines.
Shortened(src) ==
    LET OnDirective(j) == \E k \in 1..j : src[k] = "#" /\ \A m \in k..j : src[m] # "\n"
    IN  \E i \in DOMAIN src : \E j \in 1..i :
            /\ src[i] = "#" /\ src[i + 1] \in {"line", "include"}
            /\ src[j] = "endif" \/ (src[j] \in {"\\", ")"} /\ ~OnDirective(j))

\* Line ends at the start of an argument may be collapsed, and then count from the
\* name of the macro.
LooseArgument(src) == \E i \in 1..(Len(src) - 1) : src[i] \in {"(", ","} /\ src[i + 1] = "\n"

\* "Each line in the input ends up on the same line in the output" (the comment in
\* append_tokens_to_string_buffer): a token of the text that starts a line is read on
\* its own line of its own file, into included files and back, behind #line, through
\* spliced lines, dropped groups, long runs of empty lines and calls over several
\* lines (collapse_trailing_newlines, output_line_directive).  It holds where no macro
\* puts out the line ends of an argument twice, no "# number" stands in the source,
\* and neither of the two cases above occurs.
LinesAreKept ==
    \/ status # "done"
    \/ \E name \in DOMAIN directives : RepeatsParam(directives[name])
    \/ Heads(LinesIn(files[inputs[unit]]), NumberTexts) # {}
    \/ Shortened(files[inputs[unit]]) \/ LooseArgument(files[inputs[unit]])
    \/ FollowsLines(output)

-----------------------------------------------------------------------------
Items == [k \in DOMAIN linkerInputs |-> IF linkerInputs[k].input = 0 THEN linkerInputs[k].library
                                        ELSE inputs[linkerInputs[k].input]]
UnitsIn(parts) == [k \in DOMAIN parts |-> parts[k].unit]
IsMadeOf(file, units) == file \in DOMAIN built /\ UnitsIn(built[file]) = units

\* What a command asks for.  Of all inputs and libraries, in the order of the command line
\* (which struct linker_input keeps and the linker needs): one executable.  With -E: the
\* text of all C files.  With -S and -c: of each input that is not that far yet, a file of
\* its own, named by -o or after that input.
IsAskedFor ==
    LET ext == IF opts.assemble THEN "o" ELSE "s"
        done == {"o", "so"} \cup (IF opts.assemble THEN {} ELSE {"s"})
        sources == SelectSeq(inputs, LAMBDA file : Extension(file) = "c")
        Output(default) == IF opts.output # <<>> THEN opts.output ELSE default
    IN  CASE opts.link -> IsMadeOf(Output(<<"", "a", "out">>), Items)
          [] ~opts.compile -> sources # <<>> => IsMadeOf(Output(Stdout), sources)
          [] OTHER -> \A i \in DOMAIN inputs :
                Extension(inputs[i]) \notin done => IsMadeOf(Output(ReplaceExtension(inputs[i], ext)), <<inputs[i]>>)

Succeeds == phase = "exit" /\ exitCode = 0
ToolWasKilled == result \in 1..255
SharesObject == opts.assemble /\ ~opts.link /\ Len(inputs) > 1

\* When the driver exits with 0, what was asked for has been built, whatever tool failed
\* and at which input (the phases of main).  Two cases are left out, in which the code
\* does not keep this: a tool that a signal killed (see SuccessMeansBuilt), and -c with
\* several inputs, of which only the last object is left, under the name of the first input.
BuildsWhatWasAsked == Succeeds /\ ~ToolWasKilled /\ ~SharesObject => IsAskedFor

\* An exit code of 0 says that the target was made, as the rules of make with wcc for a
\* recipe take it to (tests/e2e/Makefile:117-119), also when a signal kills a tool.  It is
\* false of the code: exit(result >> 8) shifts the signal out.
SuccessMeansBuilt == Succeeds /\ ~SharesObject => IsAskedFor

\* A unit is translated as if it were alone: no macro, group or line of the units before it
\* is left when its turn comes, so that equal sources give equal code (preprocess,
\* init_directives, run_preprocessor_on_file).
UnitsStandAlone ==
    \A f, g \in DOMAIN built : \A i \in DOMAIN built[f], j \in DOMAIN built[g] :
        LET a == built[f][i]
            b == built[g][j]
        IN  a.unit \in DOMAIN files /\ b.unit \in DOMAIN files /\ files[a.unit] = files[b.unit]
                => a.text = b.text
=============================================================================
