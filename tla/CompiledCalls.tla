--------------------------- MODULE CompiledCalls ----------------------------
(***************************************************************************)
(* Calls, compiled and run: main calls f with arguments of any types, and  *)
(* g, some of the arguments are results of g.  The passes from the parser  *)
(* to the last one of codegen.c work on the three functions, in the order  *)
(* of run_compiler_phases (wcc.c), and a machine runs what comes out.      *)
(*                                                                         *)
(* Registers are allocated by AllocatedCode: here a vreg that has to be in *)
(* a register is there, and the others are in places of their own, which   *)
(* is what that module promises.  A byte is a name with numbers; a value   *)
(* arrives when its bytes do.                                              *)
(***************************************************************************)
EXTENDS Emission

CONSTANT Jobs  \* the calls: see Parameters and Arguments below

VARIABLES
  job,     \* the call that is compiled
  stage,   \* the next pass, or "run" or "exit"
  code,    \* name -> function
  frames,  \* the functions that run: name, pc, vregs, and what they found on entry
  regs,    \* register -> its eight bytes
  mem,     \* address -> byte, of the stack from rsp up
  rsp, rbp,
  seen     \* the values the program has used, and whether they were right

vars == <<job, stage, code, frames, regs, mem, rsp, rbp, seen>>
machine == <<frames, regs, mem, rsp, rbp, seen>>

-----------------------------------------------------------------------------
(* What the parser makes of the program.                                   *)
SaveArea == [t |-> "struct", packed |-> FALSE, members |->
              <<[type |-> [t |-> "array", of |-> Type("long"), n |-> 24], width |-> NoField]>>]
VaList == [t |-> "struct", packed |-> FALSE, members |->
             [i \in 1 .. 4 |-> [type |-> IF i < 3 THEN Uint ELSE Pointer, width |-> NoField]]]

(* Values are recognised by a number.                                      *)
OfG == 50
OfF == 60
Kept == 70
KeptByF == 80
Fill(v, n) == [Tac("FILL", v, NoValue, NoValue) EXCEPT !.to = n]
Use(v, what, n) == [Tac("USE", NoValue, v, NoValue) EXCEPT !.to = n, !.form = what]
Return(v) == Tac("RETURN", NoValue, v, NoValue)
Object(n, T, id) == <<Declare(Local(n, T)), Fill(Local(n, T), id)>>
Made(n, T, id) == IF IsStruct(T) THEN Object(-n, T, id) ELSE <<Fill(Vreg(n, T), id)>>
Value(n, T) == IF IsStruct(T) THEN Local(-n, T) ELSE Vreg(n, T)
InTurn(is, On(_)) == FlattenSeq([i \in is |-> On(i)])

Types(j) == j.params \o j.extra
Allocated(returns, all) == Allocate((IF ReturnsInMemory(returns) THEN <<Pointer>> ELSE <<>>) \o all)
CallOf(n, callee, types, fpa, returns, variadic) ==
  [n |-> n, callee |-> callee, types |-> types, returns |-> returns, variadic |-> variadic,
   pushes |-> (StackSize(fpa) + 7) \div 8, padding |-> Padding(fpa), sses |-> fpa.sses]

(* parse_function_call.  The declaration of a structure result is behind   *)
(* the last argument.                                                      *)
Called(call, arguments, result) ==
  <<OfCall("START_CALL", call)>> \o arguments
  \o (IF IsStruct(call.returns) THEN <<Declare(result)>> ELSE <<>>)
  \o <<[OfCall("CALL", call) EXCEPT !.dst = result], OfCall("END_CALL", call)>>

CallG(j, n, v) == Called(CallOf(n, "g", <<>>, Allocated(j.ofG, <<>>), j.ofG, FALSE), <<>>, v)

(* An argument is a value, an object, what a pointer points to, or a call. *)
Prepared(j, i) ==
  LET T == Types(j)[i]
  IN  CASE j.args[i] = "call" -> <<>>
        [] j.args[i] = "pointer" -> Object(-i, T, i) \o <<AddressOf(Vreg(i, Pointer), Local(-i, T))>>
        [] OTHER -> Made(i, T, i)
Passed(j, call, fpa, first, i) ==
  LET T == Types(j)[i]
      v == IF j.args[i] = "pointer" THEN Through(Vreg(i, T)) ELSE Value(i, T)
      locations == fpa.locations[first + i]
  IN  (IF j.args[i] = "call" THEN CallG(j, i + 1, v) ELSE <<>>)
      \o <<Argument(call, [index |-> i - 1, locations |-> locations, resultInMemory |-> first = 1], v)>>
      \o (IF locations[1].padding >= 8 THEN <<IsTac("ARG_STACK_PADDING")>> ELSE <<>>)

Id(j, i) == IF j.args[i] = "call" THEN OfG ELSE i
SavedBy(preg) == <<Move(VregIn(99, Type("long"), preg), Constant(0, Type("long")))>>
UsesSaved(n) == InTurn(1 .. n, LAMBDA i : SavedBy(39 + i))

MainCalling(j, first, fpa) ==
  LET call   == CallOf(1, "f", j.params, fpa, j.returns, j.variadic)
      is     == DOMAIN Types(j)
      result == IF j.returns.t = "void" THEN NoValue ELSE Value(30, j.returns)
      copy   == Local(-31, j.returns)
      taken  == CASE j.result = "used" -> <<Use(result, "result", OfF)>>
                  [] j.result = "copied" -> <<Declare(copy), Move(copy, result), Use(copy, "result", OfF)>>
                  [] j.result = "ignored" -> <<>>
      objects == {i \in is : IsStruct(Types(j)[i]) /\ j.args[i] # "call"}
  IN  <<Nop>> \o UsesSaved(j.saved) \o Object(-32, j.keeps, Kept)
      \o InTurn(is, LAMBDA i : Prepared(j, i))
      \o Called(call, InTurn(is, LAMBDA i : Passed(j, call, fpa, first, i)), result)
      \o taken \o CallG(j, 40, Value(33, j.ofG))
      \o InTurn(is, LAMBDA i : IF i \in objects THEN <<Use(Local(-i, Types(j)[i]), "object", i)>> ELSE <<>>)
      \o <<Use(Local(-32, j.keeps), "object", Kept), Return(NoValue)>>
Main(j) == MainCalling(j, IF ReturnsInMemory(j.returns) THEN 1 ELSE 0, Allocated(j.returns, Types(j)))

F(j) ==
  LET is    == DOMAIN j.params
      list  == IF j.list = "pointer" THEN Vreg(91, Pointer) ELSE Local(-2, VaList)
      Taken(i) == IF i \in j.taken THEN <<AddressOf(Vreg(60 + i, Pointer), Local(i + 1, j.params[i]))>> ELSE <<>>
      Seen(i) == <<Use(Local(i + 1, j.params[i]), "argument", Id(j, i))>>
      Extra(k) ==
        LET T == j.extra[k]
            v == IF IsStruct(T) \/ T.t = "ldouble" THEN Local(-10 - k, T) ELSE Vreg(10 + k, Promoted(T))
        IN  (IF IsStruct(T) THEN <<Declare(v)>> ELSE <<>>)
            \o << Tac("VA_ARG", v, list, NoValue), Use([v EXCEPT !.type = T], "argument", Id(j, Len(j.params) + k)) >>
      fetched == << Declare(Local(-2, VaList)), Tac("VA_START", NoValue, Local(-2, VaList), NoValue) >>
                 \o (IF j.list = "pointer" THEN <<AddressOf(list, Local(-2, VaList))>> ELSE <<>>)
                 \o InTurn(DOMAIN j.extra, Extra)
  IN  (IF j.variadic THEN <<Nop, Declare(Local(-1, SaveArea))>> ELSE <<Nop, Nop>>)
      \o UsesSaved(j.saved) \o Object(-3, j.keeps, KeptByF) \o InTurn(is, Taken) \o InTurn(is, Seen)
      \o (IF j.variadic THEN fetched ELSE <<>>)
      \o <<Use(Local(-3, j.keeps), "object", KeptByF)>>
      \o (IF j.returns.t = "void" THEN <<Return(NoValue)>>
          ELSE Made(5, j.returns, OfF) \o <<Return(Value(5, j.returns))>>)

G(j) == <<Nop, Nop>> \o UsesSaved(1) \o Made(5, j.ofG, OfG) \o <<Return(Value(5, j.ofG))>>

Function(ir, params, returns, variadic) ==
  [ir |-> ir, params |-> params, returns |-> returns, variadic |-> variadic, vregs |-> 100, slots |-> 0,
   saveArea |-> Local(-1, SaveArea), resultPointer |-> NoValue, fpa |-> NoParams, offsets |-> <<>>, frame |-> 0]
Parsed(j) ==
  [main |-> Function(Main(j), <<>>, Type("void"), FALSE),
   f    |-> Function(F(j), j.params, j.returns, j.variadic),
   g    |-> Function(G(j), <<>>, j.ofG, FALSE)]

-----------------------------------------------------------------------------
(* The machine.                                                            *)
Byte(name, n) == [i \in 1 .. 8 |-> <<name, n, i>>]
Junk == [i \in 1 .. 8 |-> <<"junk", 0, 0>>]
Zero == <<"zero", 0, 0>>
Extension == <<"extension", 0, 0>>
NumberWord(n) == [i \in 1 .. 8 |-> IF i > 4 THEN Zero ELSE <<"number", n, i>>]
IsNumber(bytes) == \A i \in DOMAIN bytes : bytes[i] \in {<<"number", bytes[1][2], i>>} \cup
                                              (IF i > 1 THEN {Zero, Extension} ELSE {})
NumberIn(bytes) == IF IsNumber(bytes) THEN bytes[1][2] ELSE 0

Pregs == IntRegisters \cup {RAX} \cup {XMM0 + i : i \in SseRegisters} \cup {ST0} \cup CalleeSaved
StackTop == 4096
Top    == frames[Len(frames)]
Body == code[Top.fn]
Now    == Body.ir[Top.pc]

Extended(bytes, T) ==
  bytes \o [i \in 1 .. Largest(8 - Len(bytes), 0) |-> IF T.t \in Unsigned THEN Zero ELSE Extension]
At(address, n) == [i \in 1 .. n |-> IF address + i - 1 \in DOMAIN mem THEN mem[address + i - 1] ELSE Junk[1]]
InVreg(v) == IF v.preg # Nowhere THEN regs[v.preg]
             ELSE IF v.n \in DOMAIN Top.vregs THEN Top.vregs[v.n] ELSE Junk
(* get_stack_offset *)
AddressIn(v) ==
  CASE v.k = "vreg" -> NumberIn(InVreg(v)) + v.at
    [] v.k = "stack" /\ v.n < 0 -> rbp - Body.offsets[-v.n] + v.at
    [] v.k = "stack" /\ v.n > 0 -> rbp + 8 * v.n + v.at
Bytes(v) ==
  CASE v.k = "constant" -> NumberWord(v.n)
    [] v.k = "vreg" /\ IsStruct(v.type) -> InVreg(v)
    [] v.k = "vreg" /\ v.preg = ST0 -> InVreg(v)
    [] v.k = "vreg" /\ v.preg # ST0 /\ ~IsStruct(v.type) -> Extended(SubSeq(InVreg(v), 1, Size(v.type)), v.type)
    [] v.k = "stack" -> Extended(At(AddressIn(v), Size(v.type)), v.type)
NumberOf(v) == NumberIn(SubSeq(Bytes(v), 1, Size(v.type)))
BytesShifted(w, n) == [i \in 1 .. 8 |-> IF i - n \in 1 .. 8 THEN w[i - n] ELSE Zero]
BytesOr(a, b) == [i \in 1 .. 8 |-> CASE a[i] = Zero -> b[i] [] b[i] = Zero -> a[i] [] OTHER -> Junk[1]]

(* What an instruction computes. *)
Computed(t) ==
  CASE t.op \in {"MOVE", "MOVE_PREG_CLASS", "LOAD_LONG_DOUBLE"} -> Bytes(t.src1)
    [] t.op = "INDIRECT"   -> Extended(At(AddressIn(t.src1), Size(t.dst.type)), t.dst.type)
    [] t.op = "ADDRESS_OF" -> NumberWord(AddressIn(t.src1))
    [] t.op = "MOVE_STACK_PTR" -> NumberWord(rsp)
    [] t.op = "FSTP"       -> regs[ST0]
    [] t.op = "BSHL"       -> BytesShifted(Bytes(t.src1), t.src2.n \div 8)
    [] t.op = "BSHR"       -> BytesShifted(Bytes(t.src1), -(t.src2.n \div 8))
    [] t.op = "BOR"        -> BytesOr(Bytes(t.src1), Bytes(t.src2))
    [] t.op = "ADD"        -> NumberWord(NumberOf(t.src1) + NumberOf(t.src2))
    [] t.op = "BAND"       -> NumberWord((NumberOf(t.src1) \div 16) * 16)
    [] t.op = "GT"         -> NumberWord(IF NumberOf(t.src1) > NumberOf(t.src2) THEN 1 ELSE 0)
    [] t.op = "FILL"       -> [i \in 1 .. Largest(8, Size(t.dst.type)) |-> <<"data", t.to, i>>]
Computes == {"MOVE", "MOVE_PREG_CLASS", "LOAD_LONG_DOUBLE", "INDIRECT", "ADDRESS_OF", "MOVE_STACK_PTR",
             "FSTP", "BSHL", "BSHR", "BOR", "ADD", "BAND", "GT", "FILL"}

Written(address, bytes) == [a \in address .. address + Len(bytes) - 1 |-> bytes[a - address + 1]] @@ mem
(* What is below rsp may be overwritten at any time. *)
From(address, m) == [a \in {b \in DOMAIN m : b >= address} |-> m[a]]
Going(pc) == [frames EXCEPT ![Len(frames)].pc = pc]
Onwards == frames' = Going(Top.pc + 1)
Running == stage = "run" /\ frames # <<>>

Compute ==
  /\ Running /\ Now.op \in Computes
  /\ LET w   == Computed(Now)
         dst == IF Now.op = "LOAD_LONG_DOUBLE" THEN VregIn(0, Type("ldouble"), ST0) ELSE Now.dst
         toVreg == dst.k = "vreg" /\ ~dst.through
     IN  /\ mem' = IF toVreg THEN mem ELSE Written(AddressIn(dst), SubSeq(w, 1, Size(dst.type)))
         /\ regs' = IF toVreg /\ dst.preg # Nowhere THEN [regs EXCEPT ![dst.preg] = w] ELSE regs
         /\ frames' = [Going(Top.pc + 1) EXCEPT ![Len(frames)].vregs =
                         IF toVreg /\ dst.preg = Nowhere THEN (dst.n :> w) @@ @ ELSE @]
  /\ UNCHANGED <<job, stage, code, rsp, rbp, seen>>

Skip ==
  /\ Running /\ Now.op \in {"NOP", "DECL_LOCAL_COMP_OBJ", "CALL_ARG_REG", "RETURN", "ARG_STACK_PADDING"}
  /\ Onwards
  /\ UNCHANGED <<job, stage, code, regs, mem, rsp, rbp, seen>>

Jump ==
  /\ Running /\ Now.op \in {"JMP", "JZ", "JNZ"}
  /\ LET target == CHOOSE i \in DOMAIN Body.ir : Body.ir[i].label = Now.to
         taken == CASE Now.op = "JMP" -> TRUE
                    [] Now.op = "JZ"  -> NumberOf(Now.src1) = 0
                    [] Now.op = "JNZ" -> NumberOf(Now.src1) # 0
     IN  frames' = Going(IF taken THEN target ELSE Top.pc + 1)
  /\ UNCHANGED <<job, stage, code, regs, mem, rsp, rbp, seen>>

(* The bytes of a type that hold data: ten of a long double, no padding. *)
DataOf(T) == UNION {{s.offset + i : i \in 1 .. (IF s.type.t = "ldouble" THEN 10 ELSE Size(s.type))} :
                       s \in ToSet(Scalars(T, 0))}
UseValue ==
  /\ Running /\ Now.op = "USE"
  /\ LET bytes == Bytes(Now.src1)
     IN  seen' = Append(seen, [what |-> Now.form, of |-> Now.to,
                               right |-> \A i \in DataOf(Now.src1.type) : bytes[i] = <<"data", Now.to, i>>])
  /\ Onwards
  /\ UNCHANGED <<job, stage, code, regs, mem, rsp, rbp>>

Push ==
  /\ Running /\ Now.op = "PUSH"
  /\ rsp' = rsp - 8
  /\ mem' = Written(rsp - 8, IF Now.dst.preg = RBP THEN NumberWord(rbp) ELSE regs[Now.dst.preg])
  /\ Onwards
  /\ UNCHANGED <<job, stage, code, regs, rbp, seen>>

Pop ==
  /\ Running /\ Now.op = "POP"
  /\ rsp' = rsp + 8
  /\ regs' = [regs EXCEPT ![Now.dst.preg] = At(rsp, 8)]
  /\ mem' = From(rsp', mem)
  /\ Onwards
  /\ UNCHANGED <<job, stage, code, rbp, seen>>

EnterFrame ==
  /\ Running /\ Now.op = "MOV_RBP_RSP"
  /\ rbp' = rsp
  /\ Onwards
  /\ UNCHANGED <<job, stage, code, regs, mem, rsp, seen>>

LeaveFrame ==
  /\ Running /\ Now.op = "LEAVE"
  /\ rsp' = rbp + 8
  /\ rbp' = NumberIn(At(rbp, 8))
  /\ mem' = From(rsp', mem)
  /\ Onwards
  /\ UNCHANGED <<job, stage, code, regs, seen>>

MoveRsp ==
  /\ Running /\ (AdjustsRsp(Now) \/ Now.op = "X_ALLOCATE_STACK" \/ Now.op = "X_MOV")
  /\ rsp' = CASE Now.op = "ADD_RSP" -> rsp + Now.src1.n
              [] Now.op = "X_MOV"   -> rsp - 8
              [] OTHER -> rsp - Now.src1.n
  /\ mem' = From(rsp', mem)
  /\ Onwards
  /\ UNCHANGED <<job, stage, code, regs, rbp, seen>>

PushArgument ==
  /\ Running /\ Now.op = "X_ARG"
  /\ rsp' = IF Now.form = "store" THEN rsp ELSE rsp - 8
  /\ mem' = IF Now.form = "room" THEN mem
            ELSE Written(rsp', IF Now.form = "high" THEN SubSeq(Bytes(Now.src2), 9, 16)
                                                    ELSE SubSeq(Bytes(Now.src2), 1, 8))
  /\ Onwards
  /\ UNCHANGED <<job, stage, code, regs, rbp, seen>>

(* The registers a result is in, and those a call may change otherwise. *)
ResultIn(T) ==
  CASE T.t = "void" -> {}
    [] T.t = "ldouble" -> {ST0}
    [] IsStruct(T) /\ ~ReturnsInMemory(T) ->
         {IF piece.int # Nowhere THEN ResultRegisters.int[piece.int] ELSE ResultRegisters.sse[piece.sse] :
            piece \in ToSet(ResultLocations(T))}
    [] FitsSseRegister(T) -> {XMM0}
    [] OTHER -> {RAX}
Clobbered(kept) == [p \in Pregs |-> IF p \in CalleeSaved \cup kept THEN regs[p] ELSE Junk]

Entry(name, sp) ==
  [fn |-> name, pc |-> 1, vregs |-> <<>>, rsp |-> sp, rbp |-> rbp, saved |-> [p \in CalleeSaved |-> regs[p]]]

CallFunction ==
  /\ Running /\ Now.op = "CALL_FROM_FUNC" /\ Now.call.callee # "memcpy"
  /\ rsp' = rsp - 8
  /\ mem' = Written(rsp - 8, Byte("return", Len(frames)))
  /\ frames' = Append(frames, Entry(Now.call.callee, rsp - 8))
  /\ UNCHANGED <<job, stage, code, regs, rbp, seen>>

CallMemcpy ==
  /\ Running /\ Now.op = "CALL_FROM_FUNC" /\ Now.call.callee = "memcpy"
  /\ mem' = Written(NumberIn(regs[0]), At(NumberIn(regs[1]), NumberIn(regs[2])))
  /\ regs' = Clobbered({})
  /\ Onwards
  /\ UNCHANGED <<job, stage, code, rsp, rbp, seen>>

Ret ==
  /\ Running /\ Now.op = "RET" /\ At(rsp, 8) = Byte("return", Len(frames) - 1)
  /\ rsp' = rsp + 8
  /\ mem' = From(rsp', mem)
  /\ regs' = Clobbered(ResultIn(Body.returns))
  /\ frames' = LET callers == Front(frames)
               IN  IF callers = <<>> THEN <<>> ELSE [callers EXCEPT ![Len(callers)].pc = @ + 1]
  /\ stage' = IF Len(frames) = 1 THEN "exit" ELSE "run"
  /\ UNCHANGED <<job, code, rbp, seen>>

-----------------------------------------------------------------------------
(* run_compiler_phases, without the passes that are in other modules.      *)
Pass(from, to, On(_)) ==
  /\ stage = from
  /\ stage' = to
  /\ code' = [name \in DOMAIN code |-> On(code[name])]
  /\ UNCHANGED <<job, machine>>

CopyStructs     == Pass("copies", "arguments", ProcessStructCopies)
OrderArguments  == Pass("arguments", "vregs", ReverseArguments)
AssignVregs     == Pass("vregs", "long doubles", AllocateValueVregs)
AssignStack     == Pass("long doubles", "results", LAMBDA f : AllocateStackIndexes(MoveLongDoubles(f)))
DropResults     == Pass("results", "parameters", RemoveUnusedResults)
MoveParameters  == Pass("parameters", "returns", ParamMoves)
MoveReturned    == Pass("returns", "taken", ReturnMoves)
MoveResults     == Pass("taken", "varargs", ResultMoves)
ExpandVarargs   == Pass("varargs", "moves", Varargs)
MoveArguments   == Pass("moves", "select", ArgMoves)
SelectPushes    == Pass("select", "frame", Select)
LayOutFrame     == Pass("frame", "final", StackOffsets)
Finish          == Pass("final", "nops", FinalInstructions)
Tidy            == Pass("nops", "run", LAMBDA f : MergeAdjustments(RemoveNops(f)))

Init ==
  /\ job \in Jobs
  /\ stage = "copies"
  /\ code = Parsed(job)
  /\ rsp = StackTop - 8 /\ rbp = StackTop + 64
  /\ regs = [p \in Pregs |-> IF p \in CalleeSaved THEN Byte("saved", p) ELSE Junk]
  /\ mem = [a \in StackTop - 8 .. StackTop - 1 |-> Byte("return", 0)[a - StackTop + 9]]
  /\ frames = << [fn |-> "main", pc |-> 1, vregs |-> <<>>, rsp |-> StackTop - 8, rbp |-> StackTop + 64,
                  saved |-> [p \in CalleeSaved |-> Byte("saved", p)]] >>
  /\ seen = <<>>

Compile ==
  \/ CopyStructs \/ OrderArguments \/ AssignVregs \/ AssignStack \/ DropResults \/ MoveParameters
  \/ MoveReturned \/ MoveResults \/ ExpandVarargs \/ MoveArguments \/ SelectPushes \/ LayOutFrame
  \/ Finish \/ Tidy
Run ==
  \/ Compute \/ Skip \/ Jump \/ UseValue \/ Push \/ Pop \/ EnterFrame \/ LeaveFrame \/ MoveRsp
  \/ PushArgument \/ CallFunction \/ CallMemcpy \/ Ret
Exited == stage = "exit" /\ UNCHANGED vars
Next == Compile \/ Run \/ Exited
Spec == Init /\ [][Next]_vars

-----------------------------------------------------------------------------
(* Whatever its type and place, registers, stack or save area, a parameter *)
(* and what va_arg fetches have the bytes of the argument that was passed  *)
(* (add_function_call_arg_moves, add_function_param_moves,                 *)
(* process_function_varargs).                                              *)
ArgumentsArrive == \A i \in DOMAIN seen : seen[i].what = "argument" => seen[i].right

(* The result of a call is what the function returned, also after it was   *)
(* copied (add_function_return_moves, add_function_call_result_moves).     *)
ResultsArrive == \A i \in DOMAIN seen : seen[i].what = "result" => seen[i].right

(* No object of a frame is written by code that is about another one: the  *)
(* frame has room for what the passes copy (make_stack_offsets).           *)
ObjectsKeepTheirValues == \A i \in DOMAIN seen : seen[i].what = "object" => seen[i].right

(* The stack is aligned to 16 bytes at every call (IR_START_CALL in        *)
(* add_final_x86_instructions, merge_rsp_func_call_add_subs).              *)
CallsAreAligned ==
  stage = "run" => (Now.op = "CALL_FROM_FUNC" => rsp % 16 = 0)

(* A function returns to where it was called, with the stack and the       *)
(* registers that are not its own as they were.                            *)
ReturnsCleanly ==
  stage = "run" =>
    (Now.op = "RET" => /\ rsp = Top.rsp /\ rbp = Top.rbp
                       /\ At(rsp, 8) = Byte("return", Len(frames) - 1)
                       /\ \A p \in CalleeSaved : regs[p] = Top.saved[p])
=============================================================================
