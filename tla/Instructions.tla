---------------------------- MODULE Instructions ----------------------------
(***************************************************************************)
(* The instructions (tacs) an operation of the source becomes, after       *)
(* functions.c has moved arguments and results to and from their registers *)
(* and instruction selection has applied the rules of instrrules.c.        *)
(*                                                                         *)
(* A tac has its operation, its vregs (0 when there is none), and          *)
(*   forced   the <<vreg, register>> of its values with a live_range_preg, *)
(*   prefers  the preferred_live_range_preg_index of src1,                 *)
(*   results  the return_value_live_ranges of a call,                      *)
(*   ins      the <<register, value>> it reads from a register its         *)
(*            template or the calling convention names,                    *)
(*   outs     the <<register, value>> it leaves in such a register.        *)
(* Registers are reserved vregs; a register that no vreg is bound to is    *)
(* its own value.                                                          *)
(***************************************************************************)
EXTENDS Integers, Sequences

CONSTANTS RAX, RCX, RDX

Tac(op, dst, src1, src2) ==
  [op |-> op, dst |-> dst, src1 |-> src1, src2 |-> src2,
   forced |-> {}, prefers |-> 0, results |-> {}, ins |-> {}, outs |-> {}]

Own(registers) == {<<r, r>> : r \in registers}

-----------------------------------------------------------------------------
(* A copy of a vreg, a constant, and the jump at the end of a loop. *)
Assign(d, s) == <<Tac("X_MOV", d, s, 0)>>
Constant(d) == <<Tac("X_MOV", d, 0, 0)>>
JumpBack(s) == <<Tac("X_TEST", 0, s, 0), Tac("X_JNZ", 0, 0, 0)>>

(* add_sub_rule *)
Subtract(d, s1, s2) == <<Tac("X_MOV", d, s1, 0), Tac("X_SUB", d, s2, d)>>

(* add_commutative_operation_rule *)
Or(d, s1, s2) == <<Tac("X_MOV", d, s2, 0), Tac("X_BOR", d, s1, d)>>

(* add_sse_operation_rule *)
AddSse(d, s1, s2) == <<Tac("X_MOV", d, s1, 0), Tac("X_FADD", d, s2, d)>>

(* The rule of IR_BNOT: an operation with one operand. *)
Complement(d, s) == <<Tac("X_MOV", d, s, 0), Tac("X_BNOT", d, d, 0)>>

(* add_div_rule: the dividend is put in rax, the sign in rdx, and the      *)
(* quotient comes out of rax.                                              *)
Divide(d, s1, s2) ==
  <<[Tac("X_MOV", 0, s1, 0) EXCEPT !.outs = Own({RAX})],
    [Tac("X_CLTD", 0, 0, 0) EXCEPT !.ins = Own({RAX}), !.outs = Own({RDX})],
    [Tac("X_IDIV", 0, s2, 0) EXCEPT !.ins = Own({RAX, RDX}), !.outs = Own({RAX, RDX})],
    [Tac("X_MOV", d, 0, 0) EXCEPT !.ins = Own({RAX})]>>

(* add_binary_register_shift_rule: the count is put in cl. *)
Shift(d, s1, s2) ==
  <<[Tac("X_MOVC", 0, s2, 0) EXCEPT !.outs = Own({RCX})],
    Tac("X_MOV", d, s1, 0),
    [Tac("X_SHR", d, 0, d) EXCEPT !.ins = Own({RCX})]>>

(* add_binary_constant_shift_rule *)
ShiftByConstant(d, s1) == <<Tac("X_MOV", d, s1, 0), Tac("X_SHC", d, 0, d)>>

(* make_param_move_to_register_tac: the parameter p arrives in register r. *)
Param(d, p, r) == <<[Tac("X_MOV", d, p, 0) EXCEPT !.forced = {<<p, r>>}]>>

(* add_function_return_moves *)
Return(s, rv) ==
  <<[Tac("X_MOV", rv, s, 0) EXCEPT !.forced = {<<rv, RAX>>}, !.prefers = RAX],
    [Tac("X_RET", 0, 0, 0) EXCEPT !.ins = {<<RAX, rv>>}]>>

(* add_arg_move_to_register: a is forced into the register r. *)
ArgMove(a, s, r) ==
  <<[Tac("X_MOV", a, s, 0) EXCEPT !.forced = {<<a, r>>}, !.prefers = r]>>

(* make_int_struct_or_union_arg_move_instructions, for an eight byte piece *)
(* of a structure that is loaded in two parts: t1 is the first part, t2    *)
(* the second, t3 the second in its place and t4 both together.            *)
StructArgMove(a, r, t1, t2, t3, t4) ==
  Constant(t1) \o Constant(t2) \o ShiftByConstant(t3, t2) \o Or(t4, t3, t1) \o ArgMove(a, t4, r)

(* add_ir_call_reg_instructions, the call, and the move of its result from *)
(* rax (add_function_call_result_moves).  args are the <<a, r>> that were  *)
(* moved.                                                                  *)
CallWith(args, d, ret) ==
  [i \in 1 .. Len(args) |-> Tac("IR_CALL_ARG_REG", 0, args[i][1], 0)]
    \o <<[Tac("X_CALL", ret, 0, 0) EXCEPT
             !.forced = {<<ret, RAX>>},
             !.results = {RAX},
             !.ins = {<<args[i][2], args[i][1]>> : i \in 1 .. Len(args)},
             !.outs = {<<RAX, ret>>}],
         [Tac("X_MOV", d, ret, 0) EXCEPT !.forced = {<<ret, RAX>>}]>>
=============================================================================
