----------------------------- MODULE Statements -----------------------------
(***************************************************************************)
(* From the statements of a function to intermediate code (parser.c): ifs, *)
(* loops, switches, labels and gotos, and the operators that jump, && ||   *)
(* and ?:.  The code then runs beside the statements it was made from.     *)
(*                                                                         *)
(* Labels and vregs are named by the nodes of the tree they are made for,  *)
(* see StatementOrder.                                                     *)
(***************************************************************************)
EXTENDS StatementOrder, FiniteSets, TLC

CONSTANTS
  Programs,   \* trees
  Values      \* what an atom may be

VARIABLES
  program,
  stage,      \* "labels", "numbers", "run", "exit"
  ir,         \* the code
  pc,
  vregs,      \* path -> value
  expected    \* the path of the atom that is to be next, or Ended

vars == <<program, stage, ir, pc, vregs, expected>>

-----------------------------------------------------------------------------
(* The code.  A value is the vreg of a node, or a constant.                *)
NoLabel == <<>>
Nowhere == [of |-> <<-2>>, const |-> 0]
InVreg(path) == [of |-> path, const |-> 0]
Number(n) == [of |-> <<-3>>, const |-> n]
Tac(op, dst, src) == [op |-> op, dst |-> dst, src |-> src, case |-> 0, label |-> NoLabel, to |-> NoLabel]
Nop == Tac("IR_NOP", <<>>, Nowhere)
At(label)       == <<[Nop EXCEPT !.label = label]>>     \* add_jmp_target_instruction
Jump(label)     == <<[Nop EXCEPT !.op = "IR_JMP", !.to = label]>>
JumpIf(op, v, label) == <<[Tac(op, <<>>, v) EXCEPT !.to = label]>>
Named(name) == << <<>>, name >>
New(path, n) == << path, n >>                           \* new_label_dst

(* What a piece of the program becomes.  `cases' is the code of case_ir,   *)
(* `default' the label of the default statement of the switch around it,   *)
(* and `left' a statement that the parser has not come to at the end.      *)
Just(tacs) == [tacs |-> tacs, cases |-> <<>>, default |-> NoLabel, left |-> <<>>]
Around(before, code, after) == [code EXCEPT !.tacs = before \o @ \o after]
Both(one, two) ==
  [tacs    |-> one.tacs \o two.tacs,
   cases   |-> one.cases \o two.cases,
   default |-> IF two.default = NoLabel THEN one.default ELSE two.default,
   left    |-> two.left]

(* Where an expression has its value: a constant is not in a vreg. *)
ValueOf(tree, path) ==
  LET node == Node(tree, path) IN IF node.k = "const" THEN Number(node.v) ELSE InVreg(path)

(* and_or_expr, parse_ternary_expression: a result is moved to the vreg of *)
(* the whole on two ways.                                                  *)
RECURSIVE Expression(_, _)
Expression(tree, path) ==
  LET kid(i)  == Expression(tree, Append(path, i))
      value(i) == ValueOf(tree, Append(path, i))
      node    == Node(tree, path)
      Set(v)  == <<Tac("IR_MOVE", path, v)>>
      AndOr(second, store, short) ==
        kid(1) \o JumpIf(second, value(1), New(path, 2))
        \o At(New(path, 1)) \o Set(Number(short)) \o Jump(New(path, 3))
        \o At(New(path, 2)) \o kid(2) \o JumpIf(store, value(2), New(path, 1))
        \o Set(Number(1 - short)) \o At(New(path, 3))
  IN CASE node.k = "none"  -> <<>>
       [] node.k = "const" -> <<>>
       [] node.k = "atom"  -> <<Tac("EFFECT", path, Nowhere)>>
       [] node.k = "and"   -> AndOr("IR_JNZ", "IR_JZ", 0)
       [] node.k = "or"    -> AndOr("IR_JZ", "IR_JNZ", 1)
       [] node.k = "ternary" ->
            kid(1) \o JumpIf("IR_JZ", value(1), New(path, 1))
            \o kid(2) \o Set(value(2)) \o Jump(New(path, 2))
            \o At(New(path, 1)) \o kid(3) \o Set(value(3)) \o At(New(path, 2))

FirstOf(labels) == SelectSeq(labels, LAMBDA l : l # NoLabel)[1]

(* Slip: to the condition. *)
ForContinueAtCondition(lincrement, lcond, lbody) == FirstOf(<<lcond, lincrement, lbody>>)

(* Where a continue in a for goes. *)
ForContinue(lincrement, lcond, lbody) == FirstOf(<<lincrement, lcond, lbody>>)

(* The labels of a loop; parts of a for that are not there have none.      *)
Has(tree, path, i) == Node(tree, Append(path, i)).k # "none"
LoopLabels(tree, path) ==
  LET node == Node(tree, path)
      for(i, label) == IF node.k # "for" \/ Has(tree, path, i) THEN label ELSE NoLabel
  IN  [body |-> New(path, 1), end |-> New(path, 2), init |-> New(path, 3),
       cond |-> for(2, New(path, 4)), increment |-> for(3, New(path, 5))]
LoopBody(tree, path) ==
  Append(path, CASE Node(tree, path).k = "for" -> 4 [] Node(tree, path).k = "while" -> 2 [] Node(tree, path).k = "do" -> 1)
LoopContinue(tree, path) ==
  LET l == LoopLabels(tree, path)
  IN  IF Node(tree, path).k = "for" THEN ForContinue(l.increment, l.cond, l.body) ELSE l.cond

(* parse_iteration_statement *)
LoopCode(tree, path, body) ==
  LET node == Node(tree, path)
      l    == LoopLabels(tree, path)
      has(i) == Has(tree, path, i)
      kid(i) == Append(path, i)
      If(b, tacs) == IF b THEN tacs ELSE <<>>
      Condition(i) == At(l.cond) \o Expression(tree, kid(i)) \o JumpIf("IR_JZ", ValueOf(tree, kid(i)), l.end)
      head == CASE node.k = "for" ->
                     If(has(1), At(l.init) \o Expression(tree, kid(1)))
                     \o If(has(2), Condition(2)) \o Jump(l.body)
                     \o If(has(3), At(l.increment) \o Expression(tree, kid(3)) \o If(has(2), Jump(l.cond)))
                [] node.k = "while" -> Condition(1) \o Jump(l.body)
                [] node.k = "do"    -> <<>>
      again == CASE node.k = "for" ->
                      Jump(FirstOf(<<l.increment, l.cond, l.body>>))
                      \o If(~has(1) /\ ~has(2) /\ has(3), Jump(l.body))
                 [] node.k = "while" -> Jump(l.cond)
                 [] node.k = "do"    -> Condition(2) \o Jump(l.body)
      loop(op) == <<Tac(op, <<>>, Nowhere)>>
  IN  Around(loop("IR_START_LOOP") \o head \o At(l.body), body, again \o At(l.end) \o loop("IR_END_LOOP"))

(* parse_switch_statement: the comparisons of case_ir are put in front of  *)
(* the statements.                                                         *)
SwitchCode(tree, path, body) ==
  LET lend   == New(path, 1)
      missed == Jump(IF body.default = NoLabel THEN lend ELSE body.default)
  IN  [Just(Expression(tree, Append(path, 1)) \o <<Nop>> \o body.cases \o missed \o body.tacs \o At(lend))
        EXCEPT !.left = body.left]

(* parse_case_statement: the comparison with the value of the switch.  The *)
(* parser does not go on to the statement when that is another case.       *)
Comparison(tree, path, switch) ==
  << [Tac("IR_EQ", path, ValueOf(tree, Append(switch, 1))) EXCEPT !.case = Node(tree, path).v] >>
  \o JumpIf("IR_JNZ", InVreg(path), New(path, 1))

(* parse_statement.  `switch' is the path of the switch around, whose      *)
(* value is controlling_case_value, `break' and `continue' are the labels  *)
(* of cur_loop_break_dst and cur_loop_continue_dst.                        *)
RECURSIVE StatementCode(_, _, _, _, _), InBlock(_, _, _, _, _)
StatementCode(tree, path, switch, break, continue) ==
  LET node   == Node(tree, path)
      kid(i) == Append(path, i)
      Same(i) == StatementCode(tree, kid(i), switch, break, continue)
      cond == Expression(tree, kid(1)) \o JumpIf("IR_JZ", ValueOf(tree, kid(1)), New(path, 1))
  IN CASE node.k = "expr"     -> Just(Expression(tree, kid(1)))
       [] node.k = "empty"    -> Just(<<>>)
       [] node.k = "block"    ->
            FoldLeft(LAMBDA code, i : Both(code, InBlock(tree, kid(i), switch, break, continue)),
                     Just(<<>>), [i \in DOMAIN node.kids |-> i])
       [] node.k = "if" /\ Len(node.kids) = 2 -> Around(cond, Same(2), At(New(path, 1)) \o At(New(path, 2)))
       [] node.k = "if" /\ Len(node.kids) = 3 ->
            Both(Around(cond, Same(2), Jump(New(path, 2)) \o At(New(path, 1))),
                 Around(<<>>, Same(3), At(New(path, 2))))
       [] node.k \in Loops    ->
            LoopCode(tree, path, StatementCode(tree, LoopBody(tree, path), switch, New(path, 2), LoopContinue(tree, path)))
       [] node.k = "switch"   -> SwitchCode(tree, path, StatementCode(tree, kid(2), path, New(path, 1), continue))
       [] node.k = "case"     ->
            LET case == [Just(At(New(path, 1))) EXCEPT !.cases = Comparison(tree, path, switch)]
            IN  IF Node(tree, kid(1)).k = "case" THEN [case EXCEPT !.left = kid(1)] ELSE Both(case, Same(1))
       [] node.k = "default"  -> Both([Just(At(New(path, 1))) EXCEPT !.default = New(path, 1)], Same(1))
       [] node.k = "label"    -> [Just(At(Named(node.v))) EXCEPT !.left = kid(1)]
       [] node.k = "goto"     -> Just(Jump(Named(node.v)))
       [] node.k = "break"    -> Just(Jump(break))
       [] node.k = "continue" -> Just(Jump(continue))
       [] node.k = "return"   -> Just(Expression(tree, kid(1)) \o <<Tac("IR_RETURN", <<>>, Nowhere)>>)

(* parse_compound_statement goes on with what a statement has left. *)
InBlock(tree, path, switch, break, continue) ==
  LET code == StatementCode(tree, path, switch, break, continue)
  IN  IF code.left = <<>> THEN code ELSE Both(code, InBlock(tree, code.left, switch, break, continue))

(* parse_function, with the gotos of backpatch_gotos. *)
FunctionCode(tree) == <<Nop>> \o InBlock(tree, <<>>, NoLabel, NoLabel, NoLabel).tacs

-----------------------------------------------------------------------------
(* merge_consecutive_labels: the first of labels that follow each other.   *)
FirstLabel(code, label) ==
  LET Merged(i) == i > 1 /\ code[i].label # NoLabel /\ code[i - 1].label # NoLabel
      here == CHOOSE i \in DOMAIN code : code[i].label = label
  IN  code[CHOOSE i \in 1 .. here : ~Merged(i) /\ \A j \in i + 1 .. here : Merged(j)].label
MergeLabels ==
  /\ stage = "labels"
  /\ ir' = FlattenSeq([i \in DOMAIN ir |->
             IF i > 1 /\ ir[i].label # NoLabel /\ ir[i - 1].label # NoLabel THEN <<>>
             ELSE <<[ir[i] EXCEPT !.to = IF @ = NoLabel THEN @ ELSE FirstLabel(ir, @)]>>])
  /\ stage' = "numbers"
  /\ UNCHANGED <<program, pc, vregs, expected>>

(* renumber_labels: in the order in which the code names them. *)
RenumberLabels ==
  /\ stage = "numbers"
  /\ \E names \in {FlattenSeq([i \in DOMAIN ir |-> <<ir[i].to, ir[i].label>>])} :
       LET FirstAt(label) == SelectInSeq(names, LAMBDA l : l = label)
           Mapped(label)  == IF label = NoLabel THEN label
                             ELSE <<Cardinality(ToSet(SubSeq(names, 1, FirstAt(label))) \ {NoLabel})>>
       IN  ir' = [i \in DOMAIN ir |-> [ir[i] EXCEPT !.label = Mapped(@), !.to = Mapped(@)]]
  /\ stage' = "run"
  /\ UNCHANGED <<program, pc, vregs, expected>>

-----------------------------------------------------------------------------
(* The code runs.                                                          *)
Now == IF pc > Len(ir) THEN Tac("IR_RETURN", <<>>, Nowhere) ELSE ir[pc]   \* insert_end_of_function
Holds(v) == IF v.of = Number(0).of THEN v.const ELSE vregs[v.of]
Set(path, v) == vregs' = (path :> v) @@ vregs
LabelAt(label) == CHOOSE i \in DOMAIN ir : ir[i].label = label
Running == stage = "run"
Goes(i) == pc' = i /\ UNCHANGED <<program, stage, ir>>

Skip ==
  /\ Running /\ Now.op \in {"IR_NOP", "IR_START_LOOP", "IR_END_LOOP"}
  /\ Goes(pc + 1)
  /\ UNCHANGED <<vregs, expected>>

JumpAlways ==
  /\ Running /\ Now.op = "IR_JMP"
  /\ Goes(LabelAt(Now.to))
  /\ UNCHANGED <<vregs, expected>>

JumpOnValue ==
  /\ Running /\ Now.op \in {"IR_JZ", "IR_JNZ"}
  /\ Goes(IF (Holds(Now.src) = 0) = (Now.op = "IR_JZ") THEN LabelAt(Now.to) ELSE pc + 1)
  /\ UNCHANGED <<vregs, expected>>

Assign ==
  /\ Running /\ Now.op \in {"IR_MOVE", "IR_EQ"}
  /\ Set(Now.dst, IF Now.op = "IR_MOVE" THEN Holds(Now.src) ELSE IF Holds(Now.src) = Now.case THEN 1 ELSE 0)
  /\ Goes(pc + 1)
  /\ UNCHANGED expected

(* A statement starts with an empty stack of values: those of another one  *)
(* are not read any more.                                                  *)
StatementOf(path) == Innermost(program, path, Loops \cup {"expr", "if", "switch", "return", "case"})
OfSameStatement == {path \in DOMAIN vregs : StatementOf(path) = StatementOf(Now.dst)}

Effect ==
  /\ Running /\ Now.op = "EFFECT"
  /\ \E v \in Values :
       /\ vregs' = (Now.dst :> v) @@ [path \in OfSameStatement |-> vregs[path]]
       /\ expected' = NextAtom(program, Now.dst, v)
  /\ Goes(pc + 1)

Return ==
  /\ Running /\ Now.op = "IR_RETURN"
  /\ stage' = "exit"
  /\ UNCHANGED <<program, ir, pc, vregs, expected>>

Init ==
  /\ program \in Programs
  /\ stage = "labels"
  /\ ir = FunctionCode(program)
  /\ pc = 1
  /\ vregs = <<>>
  /\ expected = FirstAtom(program)

Exited == stage = "exit" /\ UNCHANGED vars
Next ==
  \/ MergeLabels \/ RenumberLabels
  \/ Skip \/ JumpAlways \/ JumpOnValue \/ Assign \/ Effect \/ Return
  \/ Exited
Spec == Init /\ [][Next]_vars

-----------------------------------------------------------------------------
(* Whatever values its expressions have, the code evaluates them in the    *)
(* order of the statements and returns when they end: parse_statement with *)
(* its jumps, the case_ir that parse_switch_statement moves, and the       *)
(* labels that merge_consecutive_labels replaces.                          *)
RunsAsWritten ==
  /\ Running => (Now.op = "EFFECT" => Now.dst = expected)
  /\ stage = "exit" => expected = Ended
=============================================================================
