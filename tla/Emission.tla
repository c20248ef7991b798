------------------------------ MODULE Emission ------------------------------
(***************************************************************************)
(* The last passes, in codegen.c: where the objects of a function are in   *)
(* its frame, prologue and epilogue, and the adjustments of rsp around     *)
(* calls.  Selection is only modelled for the instructions that move rsp   *)
(* or use the floating point stack (instrrules.c); the others stay.        *)
(***************************************************************************)
EXTENDS FunctionCalls

RSP == 20
RBP == 21
CalleeSaved == 40 .. 44
IsTac(op) == Tac(op, NoValue, NoValue, NoValue)
OnRegister(op, preg) == Tac(op, VregIn(0, Type("long"), preg), NoValue, NoValue)
Adjust(op, amount) == Tac(op, VregIn(0, Type("long"), RSP), Constant(amount, Type("long")), NoValue)
AdjustsRsp(t) == t.op \in {"ADD_RSP", "SUB_RSP"}

(* The rules of IR_ARG, IR_CALL and IR_ALLOCATE_STACK.  A float or double  *)
(* in a register makes room first, the float with a second X_ARG.          *)
Select(f) ==
  Expand(f, LAMBDA t, base :
    LET Push(op, form) == [Tac(op, NoValue, NoValue, t.src2) EXCEPT !.form = form]
        T == t.src2.type.t
    IN  CASE t.op = "ARG" /\ T = "ldouble" -> <<Push("X_ARG", "high"), Push("X_ARG", "low")>>
          [] t.op = "ARG" /\ T = "float"   -> <<Push("X_ARG", "room"), Push("X_ARG", "store")>>
          [] t.op = "ARG" /\ T = "double"  -> <<Push("X_MOV", "room"), Push("X_ARG", "store")>>
          [] t.op = "ARG" /\ T \notin {"ldouble", "float", "double"} -> <<Push("X_ARG", "push")>>
          [] t.op = "CALL" /\ t.dst.type.t = "ldouble" ->
               <<[t EXCEPT !.op = "X_CALL"], Tac("FSTP", t.dst, NoValue, NoValue)>>
          [] t.op = "CALL" /\ t.dst.type.t # "ldouble" -> <<[t EXCEPT !.op = "X_CALL"]>>
          [] t.op = "ALLOCATE_STACK" -> <<[t EXCEPT !.op = "X_ALLOCATE_STACK"]>>
          [] OTHER -> <<t>>)

(* make_stack_offsets, process_stack_offset: objects with the largest      *)
(* alignment first.  FILL and USE stand for other instructions: they do    *)
(* not show how large an object is.                                        *)
StackOffsets(f) ==
  LET named == {v \in ToSet(ValuesOf([f EXCEPT !.ir = SelectSeq(@, LAMBDA t : t.op \notin {"FILL", "USE"})])) :
                  v.k = "stack" /\ v.n < 0}
      Most(i, Measure(_)) == Max({0} \cup {Measure(v.type) : v \in {w \in named : w.n = -i}})
      sizes  == [i \in 1 .. f.slots |-> Most(i, Size)]
      aligns == [i \in 1 .. f.slots |-> Most(i, Alignment)]
      Before(i) == SelectSeq([j \in 1 .. f.slots |-> j],
                             LAMBDA j : aligns[j] > aligns[i] \/ (aligns[j] = aligns[i] /\ j <= i))
      Total(is) == FoldLeft(LAMBDA n, j : n + sizes[j], 0, is)
      Placed(v) == IF v.k = "overflow" THEN Stack(2 + StackSize(f.fpa) \div 8, v.type) ELSE v
  IN  [MapValues(f, Placed) EXCEPT
        !.offsets = [i \in 1 .. f.slots |-> Total(Before(i))],
        !.frame   = RoundUp(Total([j \in 1 .. f.slots |-> j]), 8)]

-----------------------------------------------------------------------------
(* insert_push_callee_saved_registers, insert_end_of_function *)
Saved(f) ==
  LET used == {v.preg : v \in ToSet(ValuesOf(f))} \cap CalleeSaved
  IN  SelectSeq([i \in 1 .. 5 |-> 39 + i], LAMBDA p : p \in used)
Prologue(f) ==
  <<OnRegister("PUSH", RBP), IsTac("MOV_RBP_RSP")>>
  \o (IF f.frame > 0 THEN <<Adjust("SUB_RSP", f.frame)>> ELSE <<>>)
  \o [i \in DOMAIN Saved(f) |-> OnRegister("PUSH", Saved(f)[i])]

(* Slip: restored in the order they were saved in. *)
EpilogueInOrder(f) ==
  [i \in DOMAIN Saved(f) |-> OnRegister("POP", Saved(f)[i])] \o <<IsTac("LEAVE"), IsTac("RET")>>
Epilogue(f) ==
  [i \in DOMAIN Saved(f) |-> OnRegister("POP", Reverse(Saved(f))[i])] \o <<IsTac("LEAVE"), IsTac("RET")>>

(* Slip: what was pushed for the calls around this one is not counted. *)
AlignmentAlone(call, pushed) ==
  IF call.pushes % 2 = 1 THEN [pushes |-> 1, popped |-> call.pushes + 1]
                         ELSE [pushes |-> 0, popped |-> call.pushes]

(* IR_START_CALL: how many pushes align the stack, and how many are to be  *)
(* taken back at IR_END_CALL.  Two would be one alignment too many.        *)
AlignmentOf(call, pushed) ==
  LET padded == call.padding >= 8
      odd    == (pushed + call.pushes) % 2 = 1
  IN  CASE padded /\ odd -> [pushes |-> 0, popped |-> call.pushes - 1]
        [] ~padded /\ odd -> [pushes |-> 1, popped |-> call.pushes + 1]
        [] padded /\ ~odd -> [pushes |-> 1, popped |-> call.pushes]
        [] OTHER -> [pushes |-> 0, popped |-> call.pushes]

(* add_final_x86_instructions.  cur_stack_push_count starts with the       *)
(* return address and rbp; what moves rsp is counted in the order of the   *)
(* code, which gives each call its alignment.                              *)
FinalInstructions(f) ==
  LET Counted(s, t) ==
        LET a == AlignmentOf(t.call, s.pushed)
        IN  CASE t.op = "START_CALL" -> [pushed |-> s.pushed + a.pushes, of |-> (t.call.n :> a) @@ s.of]
              [] t.op = "END_CALL"   -> [s EXCEPT !.pushed = @ - s.of[t.call.n].popped]
              [] t.op = "X_ALLOCATE_STACK" -> [s EXCEPT !.pushed = @ + t.src1.n \div 8]
              [] OTHER -> [s EXCEPT !.pushed = @ + 1]
      counts == {"START_CALL", "END_CALL", "X_ALLOCATE_STACK", "X_ARG", "ARG_STACK_PADDING"}
      aligned == FoldLeft(Counted, [pushed |-> 2 + f.frame \div 8 + Len(Saved(f)), of |-> <<>>],
                          SelectSeq(f.ir, LAMBDA t : t.op \in counts)).of
      MoveBy(op, n) == <<Nop>> \o (IF n > 0 THEN <<Adjust(op, 8 * n)>> ELSE <<>>)
      Call(t) ==
        <<Nop>> \o (IF t.call.variadic
                    THEN <<Move(VregIn(0, Type("char"), RAX), Constant(t.call.sses, Type("char")))>> ELSE <<>>)
        \o <<[OfCall("CALL_FROM_FUNC", t.call) EXCEPT !.dst = t.dst]>>
      Final(t) ==
        CASE t.op = "START_CALL" -> MoveBy("SUB_RSP", aligned[t.call.n].pushes)
          [] t.op = "END_CALL"   -> MoveBy("ADD_RSP", aligned[t.call.n].popped)
          [] t.op = "ARG_STACK_PADDING" -> <<t, Adjust("SUB_RSP", 8)>>
          [] t.op = "X_CALL"     -> Call(t)
          [] t.op = "RETURN"     -> <<t>> \o Epilogue(f)
          [] OTHER               -> <<t>>
      all == <<f.ir[1]>> \o Prologue(f) \o FlattenSeq([i \in 1 .. Len(f.ir) - 1 |-> Final(f.ir[i + 1])])
  IN  [f EXCEPT !.ir = IF f.ir[Len(f.ir)].op = "RETURN" THEN all ELSE all \o Epilogue(f)]

(* remove_nops: the label of one that goes is the next instruction's. *)
RemoveNops(f) ==
  LET Goes(i) == i > 1 /\ f.ir[i].op = "NOP" /\ f.ir[i + 1].label = 0
      kept    == SelectSeq([i \in DOMAIN f.ir |-> i], LAMBDA i : ~Goes(i))
      Passed(j) == {f.ir[i].label : i \in (IF j = 1 THEN 1 ELSE kept[j - 1] + 1) .. kept[j]}
  IN  [f EXCEPT !.ir = [j \in DOMAIN kept |-> [f.ir[kept[j]] EXCEPT !.label = Max(Passed(j))]]]

Merges(one, two) == AdjustsRsp(one) /\ AdjustsRsp(two) /\ one.label = 0 /\ two.label = 0

(* merge_rsp_func_call_add_subs: what a merge leaves, and the instruction  *)
(* after a pair that is gone, are not looked at again.                     *)
MergeAdjustments(f) ==
  LET Amount(t) == IF t.op = "ADD_RSP" THEN t.src1.n ELSE -t.src1.n
      Both(i)   == Amount(f.ir[i]) + Amount(f.ir[i + 1])
      pairs     == SelectSeq([i \in 1 .. Len(f.ir) - 1 |-> i], LAMBDA i : Merges(f.ir[i], f.ir[i + 1]))
      Seen(is, i) == i - 1 \in is \/ (i - 2 \in is /\ Both(i - 2) = 0)
      merged    == FoldLeft(LAMBDA is, i : IF Seen(is, i) THEN is ELSE is \cup {i}, {}, pairs)
      Left(i)   == CASE i \in merged /\ Both(i) < 0 -> <<Adjust("SUB_RSP", -Both(i))>>
                     [] i \in merged /\ Both(i) > 0 -> <<Adjust("ADD_RSP", Both(i))>>
                     [] (i \in merged /\ Both(i) = 0) \/ i - 1 \in merged -> <<>>
                     [] OTHER -> <<f.ir[i]>>
  IN  [f EXCEPT !.ir = FlattenSeq([i \in DOMAIN f.ir |-> Left(i)])]
=============================================================================
