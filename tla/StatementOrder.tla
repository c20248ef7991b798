--------------------------- MODULE StatementOrder ---------------------------
(***************************************************************************)
(* The order in which the expressions of a C function are evaluated, by    *)
(* the rules of the language: the reference for the code of Statements.    *)
(*                                                                         *)
(* A program is a tree [k |-> kind, v |-> number or label, kids |-> trees]; *)
(* a node is named by its path from the root.  An `atom' stands for an     *)
(* expression with an effect that can be seen and a value that can be      *)
(* anything, a `const' for a constant, `none' for what is not there.       *)
(*                                                                         *)
(* The kids of an if, while or switch are the expression and statements,   *)
(* those of a do the body and the expression, those of a for its three     *)
(* expressions and the body; expr and return have an expression, case,     *)
(* default and label a statement.                                          *)
(***************************************************************************)
EXTENDS Integers, Sequences, SequencesExt

Ended == <<-1>>      \* the path that stands for the end of the function
Loops == {"while", "do", "for"}

RECURSIVE Node(_, _), Paths(_)
Node(tree, path) == IF path = <<>> THEN tree ELSE Node(tree.kids[Head(path)], Tail(path))
Paths(tree) == {<<>>} \cup UNION {{<<i>> \o p : p \in Paths(tree.kids[i])} : i \in DOMAIN tree.kids}

(* The innermost node around a path that is of one of the kinds.           *)
RECURSIVE Innermost(_, _, _)
Innermost(tree, path, kinds) ==
  LET outer == Front(path) IN IF Node(tree, outer).k \in kinds THEN outer ELSE Innermost(tree, outer, kinds)

(* Enter is the first atom from the start of a node, After that behind a   *)
(* statement, and With that behind an expression with value v.             *)
RECURSIVE Enter(_, _), After(_, _), With(_, _, _)
Continued(tree, loop) ==
  CASE Node(tree, loop).k = "while" -> Enter(tree, loop \o <<1>>)
    [] Node(tree, loop).k = "do"    -> Enter(tree, loop \o <<2>>)
    [] Node(tree, loop).k = "for"   -> Enter(tree, loop \o <<3>>)

(* The case for a value or the default, of this switch and no inner one. *)
Chosen(tree, switch, v) ==
  LET inside == {p \in Paths(tree) : /\ Len(p) > Len(switch) /\ SubSeq(p, 1, Len(switch)) = switch
                                     /\ Node(tree, p).k \in {"case", "default"}
                                     /\ Innermost(tree, p, {"switch"}) = switch}
      cases == {p \in inside : Node(tree, p).k = "case" /\ Node(tree, p).v = v}
  IN  IF cases # {} THEN cases ELSE {p \in inside : Node(tree, p).k = "default"}

Enter(tree, path) ==
  LET node == Node(tree, path)
      kid(i) == Append(path, i)
  IN CASE node.k = "atom"  -> path
       [] node.k = "const" -> With(tree, path, node.v)
       [] node.k = "none"  -> With(tree, path, 1)
       [] node.k = "empty" -> After(tree, path)
       [] node.k = "block" /\ node.kids = <<>> -> After(tree, path)
       [] node.k = "break" -> After(tree, Innermost(tree, path, Loops \cup {"switch"}))
       [] node.k = "continue" -> Continued(tree, Innermost(tree, path, Loops))
       [] node.k = "goto"  -> Enter(tree, CHOOSE p \in Paths(tree) : Node(tree, p).k = "label" /\ Node(tree, p).v = node.v)
       [] OTHER -> Enter(tree, kid(1))

With(tree, path, v) ==
  LET up   == Front(path)
      node == Node(tree, up)
      i    == Last(path)
      kid(k) == Append(up, k)
      Branch(yes, no) == IF v # 0 THEN yes ELSE no
      one == IF v # 0 THEN 1 ELSE 0
  IN CASE node.k = "and" /\ i = 1 -> IF v # 0 THEN Enter(tree, kid(2)) ELSE With(tree, up, 0)
       [] node.k = "or"  /\ i = 1 -> IF v # 0 THEN With(tree, up, 1) ELSE Enter(tree, kid(2))
       [] node.k \in {"and", "or"} /\ i = 2 -> With(tree, up, one)
       [] node.k = "ternary" -> IF i = 1 THEN Enter(tree, kid(IF v # 0 THEN 2 ELSE 3)) ELSE With(tree, up, v)
       [] node.k = "if" ->
            IF v # 0 THEN Enter(tree, kid(2))
            ELSE IF Len(node.kids) = 3 THEN Enter(tree, kid(3)) ELSE After(tree, up)
       [] node.k = "while" -> IF v # 0 THEN Enter(tree, kid(2)) ELSE After(tree, up)
       [] node.k = "do"    -> IF v # 0 THEN Enter(tree, kid(1)) ELSE After(tree, up)
       [] node.k = "for" /\ i \in {1, 3} -> Enter(tree, kid(2))
       [] node.k = "for" /\ i = 2 -> IF v # 0 THEN Enter(tree, kid(4)) ELSE After(tree, up)
       [] node.k = "switch" ->
            LET chosen == Chosen(tree, up, v)
            IN  IF chosen = {} THEN After(tree, up) ELSE Enter(tree, CHOOSE p \in chosen : TRUE)
       [] node.k = "expr"   -> After(tree, up)
       [] node.k = "return" -> Ended

After(tree, path) ==
  IF path = <<>> THEN Ended
  ELSE
    LET up   == Front(path)
        node == Node(tree, up)
        next == Last(path) + 1
    IN CASE node.k = "block" /\ next <= Len(node.kids) -> Enter(tree, Append(up, next))
         [] node.k \in Loops -> Continued(tree, up)
         [] OTHER -> After(tree, up)

(* The atom behind one that had value v. *)
NextAtom(tree, path, v) == With(tree, path, v)
FirstAtom(tree) == Enter(tree, <<>>)
=============================================================================
