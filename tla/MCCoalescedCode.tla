-------------------------- MODULE MCCoalescedCode ---------------------------
(***************************************************************************)
(* Small functions for CoalescedCode, in the code the parser makes: each   *)
(* read of a variable is copied to a vreg of its own first, and so is the  *)
(* result of an operation before it is assigned.                           *)
(***************************************************************************)
EXTENDS CoalescedCode

(* rax rcx rdx xmm0 *)
MCOffset == 4

X == 1
Y == 2
Z == 3
F == 4                              \* the floating point variables
G == 5
Temp(i, k) == 10 + 3 * i + k        \* of the statement at position i

IrTac(op, dst, src1, src2) ==
  [op |-> op, dst |-> dst, src1 |-> src1, src2 |-> src2, label |-> 0, target |-> 0,
   pregs |-> NoPregs, subs |-> NoSubs]

Start0 == <<IrTac("IR_NOP", 0, 0, 0)>>
Constant(d) == <<IrTac("IR_MOVE", d, 0, 0)>>
Label(l) == <<[IrTac("IR_NOP", 0, 0, 0) EXCEPT !.label = l]>>
Jump(l) == <<[IrTac("IR_JMP", 0, 0, 0) EXCEPT !.target = l]>>
JumpIfZero(i, v, l) ==
  <<IrTac("IR_MOVE", Temp(i, 0), v, 0), [IrTac("IR_JZ", 0, Temp(i, 0), 0) EXCEPT !.target = l]>>
Assign(i, d, s) == <<IrTac("IR_MOVE", Temp(i, 0), s, 0), IrTac("IR_MOVE", d, Temp(i, 0), 0)>>
Operate(i, op, d, s1, s2) ==
  <<IrTac("IR_MOVE", Temp(i, 0), s2, 0), IrTac("IR_MOVE", Temp(i, 1), s1, 0),
    IrTac(op, Temp(i, 2), Temp(i, 1), Temp(i, 0)), IrTac("IR_MOVE", d, Temp(i, 2), 0)>>
Increment(i, d) ==
  <<IrTac("IR_MOVE", Temp(i, 0), d, 0), IrTac("IR_ADD", Temp(i, 1), Temp(i, 0), 0),
    IrTac("IR_MOVE", d, Temp(i, 1), 0)>>
Param(i, d, r) == <<[IrTac("IR_MOVE", d, Temp(i, 0), 0) EXCEPT !.pregs.src1 = r]>>
Return(i, s) ==
  <<IrTac("IR_MOVE", Temp(i, 0), s, 0),
    [IrTac("IR_MOVE", Temp(i, 1), Temp(i, 0), 0) EXCEPT !.pregs.dst = RAX],
    IrTac("IR_RETURN", 0, 0, 0)>>

Body(statements) == FlattenSeq([i \in 1 .. Len(statements) |-> statements[i]])

-----------------------------------------------------------------------------
(* Every flow of control that Size statements make with two labels that    *)
(* are both jumped to, and one variable: the passes up to make_live_ranges *)
(* treat each on its own.                                                  *)
CONSTANT Size
FlowKinds == {<<"constant", 0>>, <<"increment", 0>>} \cup {"jump", "jz"} \X (1 .. 2)
FlowStatement(i, k) ==
  CASE k[1] = "constant"  -> Constant(X)
    [] k[1] = "increment" -> Increment(i, X)
    [] k[1] = "jump"      -> Jump(k[2])
    [] k[1] = "jz"        -> JumpIfZero(i, X, k[2])

InsertLabels(s, p1, p2) ==
  Start0 \o Body(SubSeq(s, 1, p1)) \o Label(1) \o Body(SubSeq(s, p1 + 1, p2)) \o Label(2)
    \o Body(SubSeq(s, p2 + 1, Len(s))) \o Return(Size + 1, X)

FlowSources ==
  {[tacs |-> InsertLabels([i \in 1 .. Size |-> FlowStatement(i, k[i])], p[1], p[2]), sse |-> {}] :
     k \in {f \in [1 .. Size -> FlowKinds] : \A l \in 1 .. 2 : \E i \in 1 .. Size : f[i][2] = l},
     p \in {q \in (0 .. Size) \X (0 .. Size) : q[1] < q[2]}}

Assignments(i) ==
  {Assign(i, p[1], p[2]) : p \in {q \in (X .. Z) \X (X .. Z) : q[1] # q[2]}}
Operations(i) ==
  {Operate(i, "IR_SUB", p[1], p[2], p[3]) : p \in {X, Z} \X (X .. Z) \X (X .. Z)}
Statements(i) == Assignments(i) \cup Operations(i)

(* Two statements on two parameters and a third variable, the first one in *)
(* a loop or before it, and copies of a floating point variable.  The loop *)
(* goes on while a variable is zero.                                       *)
Copying(before, inside, test, result) ==
  [tacs |-> Start0 \o Param(8, X, RCX) \o Param(9, Y, RDX) \o Constant(F) \o before \o Label(1)
              \o inside \o Assign(3, G, F) \o Operate(4, "IR_ADD", F, G, F)
              \o JumpIfZero(5, test, 1) \o Return(6, result),
   sse |-> {F, G, Temp(3, 0), Temp(4, 0), Temp(4, 1), Temp(4, 2)}]
CopySources ==
  {Copying(<<>>, s1 \o s2, X, X) : s1 \in Statements(1), s2 \in Statements(2)}
    \cup {Copying(s1, s2, v, X) : s1 \in Assignments(1), s2 \in Operations(2), v \in {Y, Z}}
=============================================================================
