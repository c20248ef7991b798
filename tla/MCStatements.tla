---------------------------- MODULE MCStatements ----------------------------
(***************************************************************************)
(* Functions for Statements: every statement of one level in loops,        *)
(* switches and ifs of all shapes, with jumps out of them, and conditions  *)
(* of && || and ?:.  A loop has an atom in it, so that it is seen to go on.*)
(***************************************************************************)
EXTENDS Statements

T(k, v, kids) == [k |-> k, v |-> v, kids |-> kids]
Atom == T("atom", 0, <<>>)
None == T("none", 0, <<>>)
Const(n) == T("const", n, <<>>)
Expr(e) == T("expr", 0, <<e>>)
Do(ss) == T("block", 0, ss)
One == Expr(Atom)
Empty == T("empty", 0, <<>>)
Break == T("break", 0, <<>>)
Continue == T("continue", 0, <<>>)
Back == T("return", 0, <<Atom>>)
Goto(l) == T("goto", l, <<>>)
Label(l, s) == T("label", l, <<s>>)
Case(n, s) == T("case", n, <<s>>)
Default(s) == T("default", 0, <<s>>)
If(e, s) == T("if", 0, <<e, s>>)
IfElse(e, s, t) == T("if", 0, <<e, s, t>>)
For(i, c, n, s) == T("for", 0, <<i, c, n, s>>)
Switch(s) == T("switch", 0, <<Atom, s>>)

(* The loops around a body, those of a for with each of its parts or not.  *)
LoopsOf(s) ==
  {T("while", 0, <<Atom, s>>), T("do", 0, <<s, Atom>>), T("while", 0, <<Const(1), s>>)} \cup
  {For(i, c, n, s) : i, c, n \in {None, Atom}}

Leaves == {One, Empty, Break, Continue, Back, Goto(1), Goto(2)}
Simple == Leaves \cup {If(Atom, s) : s \in Leaves} \cup {IfElse(Atom, One, s) : s \in {Break, Continue, Empty}}

(* In a loop each of these, with labels in front of it and behind it.      *)
InLoop(s) == Do(<<Label(2, One), s, One>>)
Looping == UNION {LoopsOf(InLoop(s)) : s \in Simple}
Framed(s) == Do(<<One, s, Label(1, One)>>)

(* In a switch, with the default first, last or nowhere; a case may be in  *)
(* a block or loop of its own, and two may stand together.                 *)
InSwitch(s) ==
  {Do(<<Label(2, Case(0, One)), s, Case(1, One)>>), Do(<<Label(2, Default(One)), Case(1, s), Case(0, Case(2, One))>>),
   Do(<<Case(0, Do(<<s, Case(1, Empty), One>>)), Default(Break), One, Case(2, Label(2, One))>>),
   Do(<<Label(2, Break), Case(0, T("while", 0, <<Atom, Do(<<Case(1, s), Default(One)>>)>>))>>)}
Switches == {Do(<<Switch(s)>>) : s \in UNION {InSwitch(s) : s \in Simple}}
SwitchInLoop == {Framed(l) : l \in UNION {LoopsOf(s) : s \in Switches}}
LoopInSwitch == {Framed(T("while", 0, <<Atom, Switch(b)>>)) :
                   b \in UNION {InSwitch(l) : l \in LoopsOf(Do(<<One, If(Atom, Continue), If(Atom, Break)>>))}}

Conditions ==
  LET one == {Atom, Const(0), Const(1)}
      two == one \cup {T(k, 0, <<a, b>>) : k \in {"and", "or"}, a, b \in one} \cup
             {T("ternary", 0, <<a, b, c>>) : a, b, c \in {Atom, Const(0)}}
  IN  two \cup {T(k, 0, <<a, Atom>>) : k \in {"and", "or"}, a \in two}
          \cup {T(k, 0, <<Atom, a>>) : k \in {"and", "or"}, a \in two}
          \cup {T("ternary", 0, <<Atom, a, b>>) : a, b \in two}
Tests == {Do(<<IfElse(c, One, One), T("do", 0, <<One, c>>), T("switch", 0, <<c, Do(<<Case(0, One), Case(1, One)>>)>>)>>) :
            c \in Conditions}

All == {Framed(l) : l \in Looping} \cup SwitchInLoop \cup LoopInSwitch \cup Tests
=============================================================================
