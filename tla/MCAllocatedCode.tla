-------------------------- MODULE MCAllocatedCode ---------------------------
(***************************************************************************)
(* Small functions for AllocatedCode, on a machine with five integer       *)
(* registers and one xmm register: a parameter and two constants, two      *)
(* operations on these three variables that may be repeated in a loop, and *)
(* a return.  A floating point parameter is added to itself at the end.    *)
(***************************************************************************)
EXTENDS AllocatedCode, TLC

(* rax rbx rcx rdx rdi xmm0 *)
MCPregMap == [i \in 0 .. 5 |-> i]
RDI == 5
XMM0 == 6

Variables == 7 .. 9                         \* x, y, z
ParamVreg == 10
ReturnVreg == 11
Pieces == VregCount - 21                    \* temporaries of a structure
Piece(n) == 11 + n
First(i) == 11 + Pieces + i                 \* for the operation at position i
Second(i) == 13 + Pieces + i
Result(i) == 15 + Pieces + i
Third == 18 + Pieces
FloatParam == 19 + Pieces
Float == 20 + Pieces
FloatSum == 21 + Pieces

(* A call with two arguments: they are moved to their registers backwards. *)
Call(i, d, s1, s2) ==
  ArgMove(Second(i), s2, RDX) \o ArgMove(First(i), s1, RDI)
    \o CallWith(<<<<First(i), RDI>>, <<Second(i), RDX>>>>, d, Result(i))

(* A call whose first argument is a structure of eight bytes: its pieces   *)
(* are loaded when the other two arguments are in their registers already. *)
StructCall(i, d, s1, s2) ==
  ArgMove(Third, s2, RCX) \o ArgMove(Second(i), s1, RDX)
    \o StructArgMove(First(i), RDI, Piece(1), Piece(2), Piece(3), Piece(4))
    \o CallWith(<<<<First(i), RDI>>, <<Second(i), RDX>>, <<Third, RCX>>>>, d, Result(i))

(* The operations, at position i of the body: the operands of one that is  *)
(* not a move or a call are different vregs.                               *)
Triples == Variables \X Variables \X Variables
Distinct == {p \in Triples : p[1] # p[2] /\ p[1] # p[3] /\ p[2] # p[3]}
Assignments == {Assign(p[1], p[2]) : p \in Distinct}
Complements == {Complement(p[1], p[2]) : p \in Distinct}
Subtractions == {Subtract(p[1], p[2], p[3]) : p \in Distinct}
Divisions == {Divide(p[1], p[2], p[3]) : p \in Distinct}
Shifts == {Shift(p[1], p[2], p[3]) : p \in Distinct}
Calls(i) == {Call(i, p[1], p[2], p[3]) : p \in {q \in Triples : q[2] # q[3] /\ q[1] # q[3]}}
Operations(i) == <<Assignments, Complements, Subtractions, Divisions, Shifts, Calls(i)>>

Function(body, loop) ==
  [code |-> (0 :> (Param(7, ParamVreg, RDI) \o Param(Float, FloatParam, XMM0)
                     \o Constant(8) \o Constant(9)))
            @@ (1 :> IF loop THEN body \o JumpBack(9) ELSE body)
            @@ (2 :> (AddSse(FloatSum, Float, Float) \o Return(8, ReturnVreg))),
   succ |-> (0 :> {1}) @@ (1 :> IF loop THEN {1, 2} ELSE {2}) @@ (2 :> {}),
   arrives |-> {<<RDI, ParamVreg>>, <<XMM0, FloatParam>>},
   sse |-> {FloatParam, Float, FloatSum}]

(* Any two operations: in a loop, where their order matters less, the kind *)
(* of the first is not behind that of the second.                          *)
MCPrograms ==
  UNION {{Function(o1 \o o2, k1 <= k2) : o1 \in Operations(1)[k1], o2 \in Operations(2)[k2]} :
           k1, k2 \in 1 .. 6}

StructPrograms ==
  {Function(StructCall(1, p[1], p[2], p[3]) \o o2, TRUE) :
     p \in Distinct, o2 \in {Subtract(q[1], q[2], q[3]) : q \in Distinct}}
=============================================================================
