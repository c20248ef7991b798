--------------------------- MODULE FunctionCalls ----------------------------
(***************************************************************************)
(* The passes of functions.c: what a function does with its parameters and *)
(* its result, what a caller does with arguments and results, and the      *)
(* va_start and va_arg of a variadic function.                             *)
(***************************************************************************)
EXTENDS IntermediateCode

(* Registers by number: 0..5 carry integer arguments, 10..17 floating ones. *)
RDI == 0
RDX == 2
RAX == 6
XMM0 == 10
ST0 == 30
IntRegisters == 0 .. 5
SseRegisters == 0 .. 7
ArgumentRegisters == [int |-> [i \in IntRegisters |-> i], sse |-> [i \in SseRegisters |-> XMM0 + i]]
ResultRegisters   == [int |-> [i \in 0 .. 1 |-> IF i = 0 THEN RAX ELSE RDX], sse |-> [i \in 0 .. 1 |-> XMM0 + i]]

-----------------------------------------------------------------------------
(* Pieces of a structure, to and from registers.                           *)

(* make_int_struct_or_union_move_from_register_to_stack_instructions: the  *)
(* vreg is shifted as its parts are stored; only then is it free of its    *)
(* register.                                                               *)
StoreInt(at, piece, preg, vreg) ==
  LET cs == Chunks(piece.size)
      Shift(i, T) == IF i = 1 THEN VregIn(vreg, T, preg) ELSE Vreg(vreg, T)
      Store(i) == Move(Shifted(at, piece.at + cs[i].at, UnsignedInt[cs[i].size]), Shift(i, UnsignedInt[cs[i].size]))
      Next(i)  == Tac("BSHR", Vreg(vreg, Type("long")), Shift(i, Type("long")),
                      Constant(8 * cs[i].size, Type("long")))
  IN  FlattenSeq([i \in DOMAIN cs |-> IF i < Len(cs) THEN <<Store(i), Next(i)>> ELSE <<Store(i)>>])

(* make_sse_struct_or_union_move_from_register_to_stack_instructions *)
StoreSse(at, piece, preg, vreg) ==
  LET One(T) == <<Move(Shifted(at, piece.at, T), VregIn(vreg, T, preg))>>
      long   == Vreg(vreg + 1, Type("long"))
  IN  CASE piece.size = 4 -> One(Type("float"))
        [] piece.size = 8 /\ piece.members = 1 -> One(Type("double"))
        [] OTHER -> << Tac("MOVE_PREG_CLASS", long, VregIn(vreg, Type("double"), preg), NoValue),
                       Move(Shifted(at, piece.at, Type("long")), long) >>

StorePiece(at, piece, registers, vreg) ==
  IF piece.int # Nowhere THEN StoreInt(at, piece, registers.int[piece.int], vreg)
                         ELSE StoreSse(at, piece, registers.sse[piece.sse], vreg)

(* An operand is read through its vreg when it is an lvalue there. *)
Read(to, v, by, T) ==
  Tac(IF v.through THEN "INDIRECT" ELSE "MOVE", to, OnlyPointer(Shifted(v, by, T)), NoValue)

(* make_int_struct_or_union_arg_move_instructions *)
LoadInt(v, piece, preg, base) ==
  LET cs == Chunks(piece.size)
      Ulong(n) == Vreg(base + n, Type("ulong"))
      So(i)  == Ulong(10 * i)        \* the parts up to the i-th
      Part(i) ==
        LET read == Read(IF i = 1 THEN So(1) ELSE Ulong(10 * i + 1), v, piece.at + cs[i].at, UnsignedInt[cs[i].size])
        IN  IF i = 1 THEN <<read>>
            ELSE << read,
                    Tac("BSHL", Ulong(10 * i + 2), Ulong(10 * i + 1), Constant(8 * cs[i].at, Type("long"))),
                    Tac("BOR", So(i), Ulong(10 * i + 2), So(i - 1)) >>
  IN  FlattenSeq([i \in DOMAIN cs |-> Part(i)])
      \o <<Move(VregIn(base + 1, Type("long"), preg), So(Len(cs)))>>

(* make_sse_struct_or_union_arg_move_instructions *)
LoadSse(v, piece, preg, base) ==
  LET One(T) == << Read(Vreg(base, T), v, piece.at, T), Move(VregIn(base + 1, T, preg), Vreg(base, T)) >>
  IN  CASE piece.size = 4 -> One(Type("float"))
        [] piece.size = 8 /\ piece.members = 1 -> One(Type("double"))
        [] OTHER -> << Read(Vreg(base, Type("long")), v, piece.at, Type("long")),
                       Tac("MOVE_PREG_CLASS", Vreg(base + 2, Type("double")), Vreg(base, Type("long")), NoValue),
                       Move(VregIn(base + 1, Type("double"), preg), Vreg(base + 2, Type("double"))) >>

LoadPiece(v, piece, registers, base) ==
  IF piece.int # Nowhere THEN LoadInt(v, piece, registers.int[piece.int], base)
                         ELSE LoadSse(v, piece, registers.sse[piece.sse], base)

(* add_ir_call_reg_instructions: keeps a register busy up to the call. *)
KeepUntilCall(vreg, T) == Tac("CALL_ARG_REG", NoValue, Vreg(vreg, T), NoValue)

-----------------------------------------------------------------------------
(* Parameters.                                                             *)
AddressTaken(f, i) ==
  \E k \in DOMAIN f.ir : f.ir[k].op = "ADDRESS_OF" /\ f.ir[k].src1.k = "stack" /\ f.ir[k].src1.n = i + 1

(* A parameter on the stack keeps its place there in these cases. *)
StaysPushed(f, i) == AddressTaken(f, i) \/ f.params[i].t = "ldouble" \/ IsStruct(f.params[i])

(* add_function_vararg_param_moves *)
SaveRegisters(f, fpa, base) ==
  LET area(at) == [f.saveArea EXCEPT !.at = at, !.type = Type("long")]
      OfInt(i) == <<Move(area(8 * i), VregIn(base + i, Type("long"), i))>>
      OfSse(i) == << Tac("MOVE_PREG_CLASS", Vreg(base + 20 + i, Type("long")),
                       VregIn(base + 10 + i, Type("double"), XMM0 + i), NoValue),
                   Move(area(48 + 16 * i), Vreg(base + 20 + i, Type("long"))) >>
      From(n, k) == [j \in 1 .. k - n |-> n + j - 1]
      skip == [Tac("JZ", NoValue, VregIn(base + 30, Type("char"), RAX), NoValue) EXCEPT !.to = base]
  IN  FlattenSeq([j \in DOMAIN From(fpa.ints, 6) |-> OfInt(From(fpa.ints, 6)[j])]) \o <<skip>> \o
      FlattenSeq([j \in DOMAIN From(fpa.sses, 8) |-> OfSse(From(fpa.sses, 8)[j])])

(* add_function_param_moves.  The moves are put around the second          *)
(* instruction: those of pushed parameters in front of it, or, after the   *)
(* registers were saved for va_arg, in front of the end of that.           *)
MovesOf(f, first, fpa, base) ==
  LET Loc(i)   == fpa.locations[first + i]
      pushed   == {i \in DOMAIN f.params : OnStack(Loc(i))}
      Index(i) == (Loc(i)[1].stack + 16) \div 8
      T(i)     == Decay(f.params[i])
      Register(i) == IF Loc(i)[1].int # Nowhere THEN ArgumentRegisters.int[Loc(i)[1].int]
                                                ELSE ArgumentRegisters.sse[Loc(i)[1].sse]
      slotted  == {i \in DOMAIN f.params \ pushed : IsStruct(T(i)) \/ AddressTaken(f, i)}
      Slot(i)  == -(f.slots + Cardinality({j \in slotted : j <= i}))
      New(i)   == base + 10 * i
      FromRegister(i) ==
        CASE IsStruct(T(i)) ->
               <<Declare(Stack(Slot(i), T(i)))>> \o
               FlattenSeq([p \in DOMAIN Loc(i) |->
                 StorePiece(Stack(Slot(i), T(i)), Loc(i)[p], ArgumentRegisters, New(i) + 2 * p)])
          [] i \in slotted -> <<Move(Stack(Slot(i), T(i)), VregIn(New(i), T(i), Register(i)))>>
          [] OTHER -> <<Move(Vreg(New(i) + 1, T(i)), VregIn(New(i), T(i), Register(i)))>>
      (* The slot is also given the register of the parameter's position. *)
      Positional(i) ==
        LET class == IF FitsSseRegister(f.params[i]) THEN "sse" ELSE "int"
        IN  IF i - 1 \in DOMAIN ArgumentRegisters[class] THEN ArgumentRegisters[class][i - 1] ELSE Nowhere
      FromStack(i) == <<Move(Vreg(New(i), f.params[i]),
                             [Stack(Index(i), f.params[i]) EXCEPT !.preg = Positional(i)])>>
      Each(is, On(_)) == FlattenSeq([i \in DOMAIN f.params |-> IF i \in is THEN On(i) ELSE <<>>])
      result == IF first = 0 THEN <<>>
                ELSE <<Move(Vreg(base, Pointer), VregIn(base + 1, Pointer, RDI))>>
      moves  == Each({i \in pushed : ~StaysPushed(f, i)}, FromStack)
      front  == result \o Each(DOMAIN f.params \ pushed, FromRegister)
      (* convert_register_param_..., remap_stack_index, convert_pushed_... *)
      Place(v) ==
        LET i == v.n - 1
        IN  IF v.k # "stack" \/ v.n < 2 THEN v
            ELSE CASE i \in slotted -> [v EXCEPT !.n = Slot(i)]
                   [] i \in pushed /\ StaysPushed(f, i) -> [v EXCEPT !.n = Index(i)]
                   [] i \in pushed -> [v EXCEPT !.k = "vreg", !.n = New(i)]
                   [] OTHER -> [v EXCEPT !.k = "vreg", !.n = New(i) + 1]
      body == MapValues(f, Place).ir
  IN  [f EXCEPT
        !.ir = IF f.variadic
               THEN <<body[1]>> \o front \o <<body[2]>> \o SaveRegisters(f, fpa, base + Room * Room)
                    \o moves \o <<Labelled(base + Room * Room)>> \o SubSeq(body, 3, Len(body))
               ELSE <<body[1]>> \o front \o moves \o SubSeq(body, 2, Len(body)),
        !.vregs = @ + Room * Room + Room, !.slots = @ + Cardinality(slotted),
        !.resultPointer = Vreg(base, Pointer), !.fpa = fpa]
ParamMoves(f) == MovesOf(f, FirstParam(f), Allocate(ParamTypes(f)), f.vregs + 1)

-----------------------------------------------------------------------------
(* Results.                                                                *)

(* add_function_return_moves *)
ReturnMoves(f) ==
  Expand(f, LAMBDA t, base :
    LET T == t.src1.type
        return == Tac("RETURN", NoValue, NoValue, NoValue)
        pieces == ResultLocations(T)
        preg == IF FitsSseRegister(f.returns) THEN XMM0 ELSE RAX
        At(p) == base + 40 * (p - 1)
    IN  CASE t.op # "RETURN" \/ t.src1.k = "none" -> <<t>>
          [] t.op = "RETURN" /\ T.t = "ldouble" -> <<Tac("LOAD_LONG_DOUBLE", NoValue, t.src1, NoValue), return>>
          [] t.op = "RETURN" /\ IsStruct(T) /\ ReturnsInMemory(T) ->
               <<Nop>> \o CopyMemory(Through(f.resultPointer), As(t.src1, Pointer), Size(T), base)
               \o <<Move(VregIn(base + 90, Pointer, RAX), f.resultPointer), return>>
          [] t.op = "RETURN" /\ IsStruct(T) /\ ~ReturnsInMemory(T) ->
               FlattenSeq(Reverse([p \in DOMAIN pieces |-> LoadPiece(t.src1, pieces[p], ResultRegisters, At(p))]))
               \o [p \in DOMAIN pieces |-> KeepUntilCall(At(p) + 1, Type("long"))] \o <<return>>
          [] OTHER -> <<Move(VregIn(base, Decay(f.returns), preg), t.src1), return>>)

ResultMovesFrom(f, registers) ==
  Expand(f, LAMBDA t, base :
    LET T == t.dst.type
        pieces == ResultLocations(T)
        result == VregIn(base, T, IF FitsSseRegister(T) THEN XMM0 ELSE RAX)
        address == VregIn(base + 1, Pointer, RAX)
        At(p) == base + 10 * p
    IN  CASE t.op # "CALL" \/ t.dst.k = "none" \/ T.t = "ldouble" -> <<t>>
          [] t.op = "CALL" /\ IsStruct(T) /\ ~ReturnsInMemory(T) ->
               <<[t EXCEPT !.dst = NoValue]>> \o
               [p \in DOMAIN pieces |-> Tac("CALL_ARG_REG", Vreg(At(p), Type("long")), NoValue, NoValue)] \o
               FlattenSeq([p \in DOMAIN pieces |-> StorePiece(t.dst, pieces[p], registers, At(p))])
          [] t.op = "CALL" /\ IsStruct(T) /\ ReturnsInMemory(T) ->
               << AddressOf(Vreg(base + 2, Pointer), t.dst),
                  Move(VregIn(base + 3, Pointer, RDI), Vreg(base + 2, Pointer)),
                  [t EXCEPT !.dst = address] >> \o
               CopyMemory(t.dst, Through(address), Size(T), base + 10)
          [] OTHER -> <<[t EXCEPT !.dst = result], Move(t.dst, result)>>)

(* Slip: the registers of arguments. *)
ResultMovesAsParams(f) == ResultMovesFrom(f, ArgumentRegisters)

(* add_function_call_result_moves *)
ResultMoves(f) == ResultMovesFrom(f, ResultRegisters)

-----------------------------------------------------------------------------
(* va_start and va_arg.  A va_list is an object on the stack, or a pointer *)
(* to one in a vreg.                                                       *)
Uint == Type("uint")

(* Slip: saved SSE registers are taken to be eight bytes long.             *)
VaStartNarrow(f, t, base) ==
  LET At(by, T) == Shifted(t.src1, by, T)
  IN  << Nop, Move(At(0, Uint), Constant(8 * f.fpa.ints, Uint)),
         Move(At(4, Uint), Constant(48 + 8 * f.fpa.sses, Uint)),
         AddressOf(Vreg(base, Pointer), [NoValue EXCEPT !.k = "overflow", !.type = Pointer]),
         Move(At(8, Pointer), Vreg(base, Pointer)),
         AddressOf(Vreg(base + 1, Pointer), f.saveArea),
         Move(At(16, Pointer), Vreg(base + 1, Pointer)) >>

(* process_function_va_start *)
VaStart(f, t, base) ==
  LET At(by, T) == Shifted(t.src1, by, T)
  IN  << Nop, Move(At(0, Uint), Constant(8 * f.fpa.ints, Uint)),
         Move(At(4, Uint), Constant(48 + 16 * f.fpa.sses, Uint)),
         AddressOf(Vreg(base, Pointer), [NoValue EXCEPT !.k = "overflow", !.type = Pointer]),
         Move(At(8, Pointer), Vreg(base, Pointer)),
         AddressOf(Vreg(base + 1, Pointer), f.saveArea),
         Move(At(16, Pointer), Vreg(base + 1, Pointer)) >>

(* read_from_va_list, write_to_va_list *)
ReadList(list, by, to) ==
  IF list.k = "vreg" THEN Tac("INDIRECT", to, Shifted(list, by, Pointer), NoValue)
                     ELSE Move(to, Shifted(list, by, to.type))
WriteList(list, by, v) ==
  IF list.k = "vreg" THEN Move(Through(Shifted(list, by, v.type)), v) ELSE Move(Shifted(list, by, v.type), v)

VaArgSize(T) ==
  CASE T.t = "ldouble" -> 16
    [] IsStruct(T)     -> RoundUp(Size(T), Eight)
    [] OTHER           -> Eight

(* add_function_va_arg_register_save_area_read, with the check in front.   *)
FetchSaved(t, gp, fp, onStack, base) ==
  LET list   == t.src1
      where  == IF gp > 0 THEN 0 ELSE 4
      offset == Vreg(base, Uint)
      full   == Vreg(base + 1, Uint)
      area   == Vreg(base + 2, Pointer)
      saved  == Vreg(base + 3, Pointer)
      after  == Vreg(base + 4, Uint)
  IN  << ReadList(list, where, offset),
         Tac("GT", full, offset, Constant(IF gp > 0 THEN 48 - 8 * gp ELSE 176 - 16 * fp, Uint)),
         [Tac("JNZ", NoValue, full, NoValue) EXCEPT !.to = onStack],
         ReadList(list, 16, area),
         Tac("ADD", saved, area, offset) >>
      \o (IF IsStruct(t.dst.type)
          THEN CopyInRegisters(t.dst, Through(saved), VaArgSize(t.dst.type), fp > 0, base + 10)
          ELSE <<Tac("INDIRECT", t.dst, saved, NoValue)>>)
      \o << Tac("ADD", after, offset, Constant(8 * gp + 16 * fp, Uint)), WriteList(list, where, after) >>

(* add_function_va_arg_stack_read *)
FetchPushed(t, base) ==
  LET area    == Vreg(base, Pointer)
      above   == Vreg(base + 1, Type("long"))
      aligned == Vreg(base + 2, Pointer)
      from    == IF t.dst.type.t = "ldouble" THEN aligned ELSE area
      after   == Vreg(base + 3, Pointer)
  IN  <<ReadList(t.src1, 8, area)>>
      \o (IF t.dst.type.t = "ldouble"
          THEN << Tac("ADD", above, area, Constant(15, Type("long"))),
                  Tac("BAND", aligned, above, Constant(-16, Type("long"))) >>
          ELSE <<>>)
      \o (IF IsStruct(t.dst.type) THEN CopyMemory(t.dst, Through(from), VaArgSize(t.dst.type), base + 10)
          ELSE <<Tac("INDIRECT", t.dst, from, NoValue)>>)
      \o << Tac("ADD", after, from, Constant(VaArgSize(t.dst.type), Uint)), WriteList(t.src1, 8, after) >>

(* process_function_va_arg *)
VaArgIn(pieces, t, base) ==
  LET T      == t.dst.type
      gp     == CASE IsStruct(T) /\ pieces[1].int # Nowhere -> Len(pieces)
                  [] FitsIntRegister(T) -> 1
                  [] OTHER -> 0
      fp     == CASE gp > 0 -> 0
                  [] IsStruct(T) -> Len(pieces)
                  [] OTHER -> 1
      done   == base + 98
      pushed == base + 99
  IN  IF T.t = "ldouble" \/ (IsStruct(T) /\ OnStack(pieces)) THEN <<Nop>> \o FetchPushed(t, base)
      ELSE <<Nop>> \o FetchSaved(t, gp, fp, pushed, base)
           \o <<[Tac("JMP", NoValue, NoValue, NoValue) EXCEPT !.to = done], Labelled(pushed)>>
           \o FetchPushed(t, base + 50) \o <<Labelled(done)>>
VaArg(t, base) == VaArgIn(ResultLocations(t.dst.type), t, base)

(* process_function_varargs *)
Varargs(f) ==
  Expand(f, LAMBDA t, base :
    CASE t.op = "VA_START" -> VaStart(f, t, base)
      [] t.op = "VA_ARG"   -> VaArg(t, base)
      [] OTHER -> <<t>>)

-----------------------------------------------------------------------------
(* Arguments.                                                              *)
ArgumentsOf(f, n) == SelectSeq(f.ir, LAMBDA t : t.op = "ARG" /\ t.call.n = n)
InRegister(t) == \E p \in DOMAIN t.arg.locations : t.arg.locations[p].int # Nowhere \/ t.arg.locations[p].sse # Nowhere

(* What is moved to register r right before the call: the parameter's type *)
(* counts, or without one the promoted type of the argument.               *)
MoveToRegister(class, t, piece, r, base) ==
  LET T == IF t.arg.index + 1 \in DOMAIN t.call.types THEN Decay(t.call.types[t.arg.index + 1])
                                                      ELSE Promoted(t.src2.type)
  IN  IF IsStruct(T) THEN LoadPiece(t.src2, piece, ArgumentRegisters, base)
      ELSE <<Move(VregIn(base + 1, T, ArgumentRegisters[class][r]), t.src2)>>

(* add_function_call_arg_moves_for_preg_class: from the last register that *)
(* is used without a gap down to the first.                                *)
ArgMovesOfClass(f, class) ==
  LET registers == IF class = "int" THEN IntRegisters ELSE SseRegisters
      first(as) == IF class = "int" /\ \E a \in ToSet(as) : a.arg.resultInMemory THEN 1 ELSE 0
      Uses(a, p, r) == a.arg.locations[p][class] = r
      At(as, r) == SelectSeq(as, LAMBDA a : \E p \in DOMAIN a.arg.locations : Uses(a, p, r))
      Used(as) == {r \in registers : r >= first(as) /\ \A q \in first(as) .. r : At(as, q) # <<>>}
      Moves(as, r, base) ==
        LET a == At(as, r)[1]
            p == CHOOSE p \in DOMAIN a.arg.locations : Uses(a, p, r)
        IN  MoveToRegister(class, a, a.arg.locations[p], r, base + 40 * r)
      AtCall(t, as, base) ==
        LET rs == SelectSeq([i \in 1 .. 8 |-> 8 - i], LAMBDA r : r \in Used(as))
        IN  FlattenSeq([i \in DOMAIN rs |-> Moves(as, rs[i], base)])
            \o [i \in DOMAIN rs |-> KeepUntilCall(base + 40 * (Len(rs) - i) + 1, Type("long"))]
            \o <<t>>
  IN  Expand(f, LAMBDA t, base : IF t.op = "CALL" THEN AtCall(t, ArgumentsOf(f, t.call.n), base) ELSE <<t>>)

(* remove_IR_ARG_instructions_that_have_been_handled *)
RemoveHandled(f) ==
  [f EXCEPT !.ir = [i \in DOMAIN @ |-> IF @[i].op = "ARG" /\ InRegister(@[i]) THEN Nop ELSE @[i]]]

(* add_function_call_arg_move_for_struct_or_union_on_stack *)
PushStructs(f) ==
  Expand(f, LAMBDA t, base :
    IF t.op = "ARG" /\ IsStruct(t.src2.type)
    THEN LET size == Size(t.src2.type)
             top  == Vreg(base + 50, Pointer)
         IN  << Tac("ALLOCATE_STACK", NoValue, Constant(RoundUp(size, Eight), Type("long")), NoValue),
                Tac("MOVE_STACK_PTR", top, NoValue, NoValue), Nop >>
             \o CopyMemory(Through(top), As(t.src2, Pointer), size, base)
    ELSE <<t>>)

(* add_function_call_arg_moves: the copies may have brought calls of memcpy. *)
ArgMoves(f) ==
  RemoveHandled(ArgMovesOfClass(PushStructs(RemoveHandled(
    ArgMovesOfClass(ArgMovesOfClass(f, "int"), "sse"))), "int"))
=============================================================================
