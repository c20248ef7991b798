------------------------------- MODULE Driver -------------------------------
(***************************************************************************)
(* main of the compiler (main.c): it reads the arguments, preprocesses and *)
(* compiles each C file, hands the results to the assembler and the linker *)
(* and exits.  One state of Preprocessor serves all units, one after the   *)
(* other.  What compile makes of a unit is its preprocessed text; the      *)
(* assembler and the linker are other programs, run by system().           *)
(***************************************************************************)
EXTENDS Preprocessor

CONSTANTS
    Jobs,               \* [files, argv]: argv is made of [opt, val] records, opt = "file" an input
    ToolResults         \* what system() may return: the exit code * 256, the number
                        \* of the signal that killed the tool, or -1

VARIABLES
    argv,               \* the arguments not read yet
    opts,               \* what the flags have set
    inputs,             \* input_filenames
    linkerInputs,       \* files and libraries in the order of the command line
    defines,            \* directive_cli_strings
    phase,              \* "args", "preprocess", "compile", "unit", "assemble", "link" or "exit"
    unit,               \* the input at hand
    assembly, objects,  \* assembler_input_filenames and linker_input_filenames, <<>> where there is none
    built,              \* the files written: name -> [unit, text], an executable a sequence
    temps,              \* how many temporary files were made
    result,             \* what system() returned last
    exitCode

driverVars == <<argv, opts, inputs, linkerInputs, defines, phase, unit, assembly, objects, built, temps, result, exitCode>>
vars == <<cppVars, driverVars>>

Init ==
    /\ \E job \in Jobs : files = job.files /\ argv = job.argv
    /\ stack = <<>> /\ directives = << >> /\ output = <<>> /\ status = "idle"
    /\ opts = [compile |-> TRUE, assemble |-> TRUE, link |-> TRUE, single |-> FALSE,
               shared |-> FALSE, static |-> FALSE, output |-> <<>>]
    /\ inputs = <<>> /\ linkerInputs = <<>> /\ defines = <<>>
    /\ phase = "args" /\ unit = 1
    /\ assembly = <<>> /\ objects = <<>> /\ built = << >> /\ temps = 0 /\ result = 0 /\ exitCode = 0

\* The extension decides what a file is; replace_extension names the results.
Extension(file) == file[3]
IsObject(file) == Extension(file) \in {"o", "so"}
ReplaceExtension(file, ext) == <<file[1], file[2], ext>>
TempFile(ext) == <<"tmp", ToString(temps), ext>>
Stdout == <<"", "-", "">>

\* The options that set the phases, and those the linker sees.
WithOption(o, a) ==
    CASE a.opt = "-S" -> [o EXCEPT !.assemble = FALSE, !.link = FALSE, !.single = TRUE]
      [] a.opt = "-c" -> [o EXCEPT !.link = FALSE, !.single = TRUE]
      [] a.opt = "-E" -> [o EXCEPT !.compile = FALSE, !.assemble = FALSE, !.link = FALSE, !.single = TRUE]
      [] a.opt = "-shared" -> [o EXCEPT !.shared = TRUE]
      [] a.opt = "-static" -> [o EXCEPT !.static = TRUE]
      [] a.opt = "-o" -> [o EXCEPT !.output = a.val]
      [] OTHER -> o

ReadArgument ==
    /\ phase = "args" /\ argv # <<>>
    /\ LET a == Head(argv)
       IN  /\ opts' = WithOption(opts, a)
           /\ inputs' = IF a.opt = "file" THEN Append(inputs, a.val) ELSE inputs
           /\ linkerInputs' = IF a.opt = "file" THEN Append(linkerInputs, [input |-> Len(inputs) + 1, library |-> <<>>])
                              ELSE IF a.opt = "-l" THEN Append(linkerInputs, [input |-> 0, library |-> a.val])
                              ELSE linkerInputs
           /\ defines' = IF a.opt = "-D" THEN Append(defines, a.val) ELSE defines
    /\ argv' = Tail(argv)
    /\ UNCHANGED <<cppVars, phase, unit, assembly, objects, built, temps, result, exitCode>>

Exit(code) == phase' = "exit" /\ exitCode' = code

CheckArguments ==
    /\ phase = "args" /\ argv = <<>>
    /\ IF \/ inputs = <<>>
          \/ opts.output # <<>> /\ Len(inputs) > 1 /\ opts.single
          \/ opts.static /\ opts.shared
       THEN Exit(1)
       ELSE phase' = (IF opts.compile THEN "compile" ELSE "preprocess") /\ UNCHANGED exitCode
    /\ assembly' = [i \in DOMAIN inputs |-> <<>>]
    /\ objects' = [i \in DOMAIN inputs |-> <<>>]
    /\ UNCHANGED <<cppVars, argv, opts, inputs, linkerInputs, defines, unit, built, temps, result>>

\* The loops over the inputs share their counter here.
NextInput(other) ==
    IF unit < Len(inputs) THEN unit' = unit + 1 /\ phase' = phase ELSE unit' = 1 /\ phase' = other

\* -E looks at C files only; otherwise what is no assembly and no object is C.
TakeInput ==
    /\ phase \in {"preprocess", "compile"} /\ status = "idle"
    /\ LET file == inputs[unit]
           ext == Extension(file)
           behind == IF phase = "preprocess" THEN "exit" ELSE IF opts.assemble THEN "assemble" ELSE "exit"
       IN  IF IF phase = "preprocess" THEN ext # "c" ELSE ext = "s" \/ IsObject(file)
           THEN /\ assembly' = IF phase = "compile" /\ ext = "s" THEN [assembly EXCEPT ![unit] = file] ELSE assembly
                /\ NextInput(behind)
                /\ UNCHANGED <<cppVars, exitCode>>
           ELSE IF file \notin DOMAIN files
           THEN Exit(1) /\ UNCHANGED <<cppVars, unit, assembly>>
           ELSE StartUnit(file, defines) /\ UNCHANGED <<phase, unit, assembly, exitCode>>
    /\ UNCHANGED <<argv, opts, inputs, linkerInputs, defines, objects, built, temps, result>>

PreprocessUnit == Preprocess /\ UNCHANGED driverVars

Text == LET tokens == SelectSeq(output, LAMBDA t : t.kind \notin {"\n", "marker"})
        IN  [i \in DOMAIN tokens |-> tokens[i].s]
Writes(file, what) == built' = (file :> what) @@ built
Code == <<[unit |-> inputs[unit], text |-> Text]>>

\* preprocess_to_file: standard output takes all units, a file the last.
WritePreprocessed ==
    /\ phase = "preprocess" /\ status = "done"
    /\ LET file == IF opts.output = <<>> THEN Stdout ELSE opts.output
       IN  Writes(file, IF file = Stdout /\ Stdout \in DOMAIN built THEN built[Stdout] \o Code ELSE Code)
    /\ status' = "idle"
    /\ NextInput("exit")
    /\ UNCHANGED <<files, stack, directives, output>>
    /\ UNCHANGED <<argv, opts, inputs, linkerInputs, defines, assembly, objects, temps, result, exitCode>>

Compile ==
    /\ phase = "compile" /\ status = "done"
    /\ LET keeps == ~opts.assemble /\ ~opts.link
           file == IF ~keeps THEN TempFile("s")
                   ELSE IF opts.output # <<>> THEN opts.output ELSE ReplaceExtension(inputs[unit], "s")
       IN  /\ Writes(file, Code)
           /\ temps' = IF keeps THEN temps ELSE temps + 1
           /\ assembly' = IF opts.assemble THEN [assembly EXCEPT ![unit] = file] ELSE assembly
    /\ status' = "idle"
    /\ NextInput(IF opts.assemble THEN "assemble" ELSE "exit")
    /\ UNCHANGED <<files, stack, directives, output>>
    /\ UNCHANGED <<argv, opts, inputs, linkerInputs, defines, objects, result, exitCode>>

\* error() exits with 1; a crash of the compiler is a signal.
UnitFails ==
    /\ phase \in {"preprocess", "compile"} /\ status \in {"error", "crash"}
    /\ Exit(IF status = "error" THEN 1 ELSE 139)
    /\ UNCHANGED <<cppVars, argv, opts, inputs, linkerInputs, defines, unit, assembly, objects, built, temps, result>>

\* exit(result >> 8), of which the system keeps 8 bits.  The number of a signal is
\* shifted out: when a tool was killed, the driver exits with 0.
ToolFails == Exit((result' \div 256) % 256)

Assemble ==
    /\ phase = "assemble" /\ assembly[unit] # <<>>
    /\ result' \in ToolResults
    /\ IF result' # 0 THEN ToolFails /\ UNCHANGED <<unit, objects, built, temps>>
       ELSE LET from == assembly[unit]
                 file == IF opts.link THEN TempFile("o")
                         ELSE IF opts.output # <<>> THEN opts.output
                         ELSE ReplaceExtension(IF opts.single THEN inputs[1] ELSE from, "o")
             IN  /\ Writes(file, IF from \in DOMAIN built THEN built[from] ELSE <<[unit |-> from, text |-> <<>>]>>)
                 /\ temps' = IF opts.link THEN temps + 1 ELSE temps
                 /\ objects' = IF opts.link THEN [objects EXCEPT ![unit] = file] ELSE objects
                 /\ NextInput(IF opts.link THEN "link" ELSE "exit")
                 /\ UNCHANGED exitCode
    /\ UNCHANGED <<cppVars, argv, opts, inputs, linkerInputs, defines, assembly>>

NothingToAssemble ==
    /\ phase = "assemble" /\ assembly[unit] = <<>>
    /\ NextInput(IF opts.link THEN "link" ELSE "exit")
    /\ UNCHANGED <<cppVars, argv, opts, inputs, linkerInputs, defines, assembly, objects, built, temps, result, exitCode>>

\* The object of input i: its own file if it is one, or what was assembled.
ObjectOf(i) == IF IsObject(inputs[i]) THEN inputs[i] ELSE objects[i]
Linked(i) == IF ObjectOf(i) \in DOMAIN built THEN built[ObjectOf(i)] ELSE <<[unit |-> ObjectOf(i), text |-> <<>>]>>
\* A slip: all files before all libraries.
LinkOrderOfFiles ==
    FoldLeft(LAMBDA parts, i : parts \o Linked(i), <<>>, [i \in DOMAIN inputs |-> i])
    \o FoldLeft(LAMBDA parts, l : IF l.input = 0 THEN Append(parts, [unit |-> l.library, text |-> <<>>]) ELSE parts,
                <<>>, linkerInputs)
LinkOrder == FoldLeft(LAMBDA parts, l : parts \o (IF l.input = 0 THEN <<[unit |-> l.library, text |-> <<>>]>>
                                                  ELSE Linked(l.input)), <<>>, linkerInputs)

Link ==
    /\ phase = "link"
    /\ result' \in ToolResults
    /\ IF result' # 0 THEN ToolFails /\ UNCHANGED built
        ELSE /\ Writes(IF opts.output = <<>> THEN <<"", "a", "out">> ELSE opts.output, LinkOrder)
             /\ Exit(0)
    /\ UNCHANGED <<cppVars, argv, opts, inputs, linkerInputs, defines, unit, assembly, objects, temps>>

Done == phase = "exit" /\ UNCHANGED vars
Hangs == status = "hang" /\ UNCHANGED vars

Next ==
    \/ ReadArgument \/ CheckArguments
    \/ TakeInput \/ PreprocessUnit \/ WritePreprocessed \/ Compile \/ UnitFails
    \/ Assemble \/ NothingToAssemble \/ Link
    \/ Done \/ Hangs

Spec == Init /\ [][Next]_vars
=============================================================================
