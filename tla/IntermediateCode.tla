-------------------------- MODULE IntermediateCode --------------------------
(***************************************************************************)
(* The intermediate code of a function, and the passes over it in ir.c     *)
(* that decide where values are: copies of structures, the order of        *)
(* arguments, locals in vregs or on the stack.                             *)
(*                                                                         *)
(* A value is a vreg, a local or parameter by its local_index (`local') or *)
(* stack_index (`stack'), a constant or the end of the pushed parameters.  *)
(* It is read or written as `type', `at' bytes into the object; `through'  *)
(* is an lvalue in a vreg, `preg' the register the vreg is constrained to. *)
(* A function is its code, and how many vregs and stack slots it uses.     *)
(***************************************************************************)
EXTENDS CallingConvention

Type(name) == [t |-> name]
NoValue == [k |-> "none", n |-> 0, at |-> 0, type |-> Type("void"), through |-> FALSE, preg |-> Nowhere]
Vreg(n, T)    == [NoValue EXCEPT !.k = "vreg", !.n = n, !.type = T]
VregIn(n, T, p) == [Vreg(n, T) EXCEPT !.preg = p]
Local(n, T)   == [NoValue EXCEPT !.k = "local", !.n = n, !.type = T]
Stack(n, T)   == [NoValue EXCEPT !.k = "stack", !.n = n, !.type = T]
Constant(n, T) == [NoValue EXCEPT !.k = "constant", !.n = n, !.type = T]
Through(v)    == [v EXCEPT !.through = TRUE]
As(v, T)      == [v EXCEPT !.type = T]
Shifted(v, by, T) == [v EXCEPT !.at = @ + by, !.type = T]
OnlyPointer(v) == [v EXCEPT !.through = FALSE]

(* What a call's instructions share, and what an IR_ARG has of its own.    *)
NoCall == [n |-> 0, callee |-> "", types |-> <<>>, returns |-> Type("void"), variadic |-> FALSE,
           pushes |-> 0, padding |-> 0, sses |-> 0]
NoArg  == [index |-> 0, locations |-> <<>>, resultInMemory |-> FALSE]
Tac(op, dst, src1, src2) ==
  [op |-> op, dst |-> dst, src1 |-> src1, src2 |-> src2, label |-> 0, to |-> 0,
   call |-> NoCall, arg |-> NoArg, form |-> ""]
Nop == Tac("NOP", NoValue, NoValue, NoValue)
Move(dst, src) == Tac("MOVE", dst, src, NoValue)
AddressOf(dst, src) == Tac("ADDRESS_OF", dst, src, NoValue)
Declare(v) == Tac("DECL_LOCAL_COMP_OBJ", NoValue, v, NoValue)
OfCall(op, call) == [Tac(op, NoValue, NoValue, NoValue) EXCEPT !.call = call]
Argument(call, arg, v) == [OfCall("ARG", call) EXCEPT !.arg = arg, !.src2 = v]
Labelled(label) == [Nop EXCEPT !.label = label]

(* A pass puts a sequence in the place of each instruction; new vregs, and *)
(* new calls and labels, are numbered from a base that is its own.         *)
Room == 500
Expand(f, Pass(_, _)) ==
  [f EXCEPT !.ir    = FlattenSeq([i \in DOMAIN f.ir |-> Pass(f.ir[i], f.vregs + Room * i)]),
            !.vregs = @ + Room * (Len(f.ir) + 1)]
MapValues(f, On(_)) ==
  [f EXCEPT !.ir = [i \in DOMAIN f.ir |->
     [f.ir[i] EXCEPT !.dst = On(@), !.src1 = On(@), !.src2 = On(@)]]]
ValuesOf(f) == FlattenSeq([i \in DOMAIN f.ir |-> <<f.ir[i].dst, f.ir[i].src1, f.ir[i].src2>>])

-----------------------------------------------------------------------------
(* Copies of memory.                                                       *)
SignedInt   == [n \in {1, 2, 4, 8} |-> Type(CASE n = 1 -> "char" [] n = 2 -> "short" [] n = 4 -> "int" [] n = 8 -> "long")]
UnsignedInt == [n \in {1, 2, 4, 8} |-> Type(CASE n = 1 -> "uchar" [] n = 2 -> "ushort" [] n = 4 -> "uint" [] n = 8 -> "ulong")]

(* Slip: as many moves of 8 bytes as it takes. *)
ChunksOfEight(size) == [i \in 1 .. (size + 7) \div 8 |-> [size |-> 8, at |-> 8 * (i - 1)]]

(* The moves of 8, 4, 2 and 1 bytes that make up a size. *)
Chunks(size) ==
  [i \in 1 .. size \div 8 |-> [size |-> 8, at |-> 8 * (i - 1)]] \o
  SelectSeq([i \in 1 .. 3 |-> LET unit == CASE i = 1 -> 4 [] i = 2 -> 2 [] i = 3 -> 1
                              IN  [size |-> unit, at |-> size - (size % (2 * unit))]],
            LAMBDA c : size % (2 * c.size) >= c.size)

(* add_memory_copy_with_registers: saved SSE registers are 16 bytes apart. *)
CopyInRegisters(dst, src, size, splay, base) ==
  LET Copy(i) ==
        LET c    == Chunks(size)[i]
            temp == Vreg(base + i, SignedInt[c.size])
            from == src.at + c.at
            read == [As(src, temp.type) EXCEPT !.at = IF splay /\ from >= 8 THEN from + 8 ELSE from]
        IN  << Tac(IF src.through THEN "INDIRECT" ELSE "MOVE", temp, OnlyPointer(read), NoValue),
               Move(Shifted(dst, c.at, temp.type), temp) >>
  IN  FlattenSeq([i \in DOMAIN Chunks(size) |-> Copy(i)])

(* add_memory_copy_with_memcpy.  The arguments are in registers 0, 1, 2.   *)
CopyByCall(dst, src, size, base) ==
  LET call  == [NoCall EXCEPT !.n = base, !.callee = "memcpy",
                              !.types = <<Pointer, Pointer, Type("long")>>]
      InRegister(i) == [NoArg EXCEPT !.index = i, !.locations =
                          <<Whole @@ [int |-> i, sse |-> Nowhere, stack |-> Nowhere, padding |-> Nowhere]>>]
      Address(v, n) == IF v.through THEN <<>> ELSE <<AddressOf(Vreg(base + n, Pointer), v)>>
      Pointed(v, n) == IF v.through THEN OnlyPointer(v) ELSE Vreg(base + n, Pointer)
  IN  <<OfCall("START_CALL", call)>> \o Address(src, 1) \o Address(dst, 2) \o
      << Argument(call, InRegister(0), Pointed(dst, 2)),
         Argument(call, InRegister(1), Pointed(src, 1)),
         Argument(call, InRegister(2), Constant(size, Type("long"))),
         OfCall("CALL", call), OfCall("END_CALL", call) >>

(* add_memory_copy *)
CopyMemory(dst, src, size, base) ==
  IF size > 32 THEN CopyByCall(dst, src, size, base)
               ELSE CopyInRegisters(dst, src, size, FALSE, base)

(* process_struct_and_union_copies *)
ProcessStructCopies(f) ==
  Expand(f, LAMBDA t, base :
    IF t.op = "MOVE" /\ IsStruct(t.src1.type)
    THEN <<Nop>> \o CopyMemory(t.dst, t.src1, Size(t.dst.type), base)
    ELSE <<t>>)

-----------------------------------------------------------------------------
(* The instructions of an argument end with its IR_ARG, or the padding     *)
(* behind it; what is between the last argument and the call gets lost.    *)
ReverseCall(ir, n) ==
  LET At(op) == SelectSeq([i \in DOMAIN ir |-> i], LAMBDA i : ir[i].op = op /\ ir[i].call.n = n)
      args   == At("ARG")
      start  == At("START_CALL")[1]
      end    == At("END_CALL")[1]
      Final(j)  == IF ir[args[j] + 1].op = "ARG_STACK_PADDING" THEN args[j] + 1 ELSE args[j]
      First(j) == IF j = 1 THEN start + 1 ELSE Final(j - 1) + 1
  IN  IF Len(args) < 2 THEN ir
      ELSE SubSeq(ir, 1, start)
           \o FlattenSeq(Reverse([j \in DOMAIN args |-> SubSeq(ir, First(j), Final(j))]))
           \o SubSeq(ir, end - 1, Len(ir))

(* reverse_function_argument_order *)
ReverseArguments(f) ==
  LET starts == SelectSeq(f.ir, LAMBDA t : t.op = "START_CALL")
  IN  [f EXCEPT !.ir = FoldLeft(LAMBDA ir, t : ReverseCall(ir, t.call.n), @, starts)]

-----------------------------------------------------------------------------
(* Locals.  Those whose address is taken, and those no register holds,     *)
(* stay on the stack.                                                      *)
IsLocal(v) == v.k = "local" /\ v.n < 0
InMemory(T) == IsStruct(T) \/ T.t \in {"ldouble", "array"}

(* allocate_value_vregs *)
AllocateValueVregs(f) ==
  LET onStack ==
        {v.n : v \in {w \in ToSet(ValuesOf(f)) : IsLocal(w) /\ InMemory(w.type)}} \cup
        {t.src1.n : t \in {u \in ToSet(f.ir) : u.op = "ADDRESS_OF" /\ IsLocal(u.src1)}}
      Assign(v) == IF IsLocal(v) /\ v.n \notin onStack
                   THEN [v EXCEPT !.k = "vreg", !.n = f.vregs - v.n] ELSE v
  IN  [MapValues(f, Assign) EXCEPT !.vregs = @ + Room]

(* move_long_doubles_to_the_stack.  A new local is named after its vreg.   *)
MoveLongDoubles(f) ==
  LET moved == {v.n : v \in {w \in ToSet(ValuesOf(f)) : w.k = "vreg" /\ w.type.t = "ldouble" /\ ~w.through}}
      Assign(v) == IF v.k = "vreg" /\ v.n \in moved
                   THEN [v EXCEPT !.k = "local", !.n = -(Room + v.n)] ELSE v
  IN  MapValues(f, Assign)

(* allocate_value_stack_indexes: locals in the order the code names them.  *)
AllocateStackIndexes(f) ==
  LET names == SelectSeq(ValuesOf(f), IsLocal)
      FirstAt(n) == SelectInSeq(names, LAMBDA v : v.n = n)
      firsts == {FirstAt(v.n) : v \in ToSet(names)}
      Map(v) == CASE IsLocal(v) -> [v EXCEPT !.k = "stack", !.n = -Cardinality({i \in firsts : i <= FirstAt(v.n)})]
                  [] v.k = "local" /\ v.n > 0 -> [v EXCEPT !.k = "stack"]
                  [] OTHER -> v
  IN  [MapValues(f, Map) EXCEPT !.slots = Cardinality(firsts), !.saveArea = Map(@)]

(* remove_unused_function_call_results *)
RemoveUnusedResults(f) ==
  LET Uses(t, n) == \/ t.src1.k = "vreg" /\ t.src1.n = n
                    \/ t.src2.k = "vreg" /\ t.src2.n = n
                    \/ t.op = "MOVE" /\ t.dst.k = "vreg" /\ t.dst.through /\ t.dst.n = n
      Unused(i) == LET t == f.ir[i]
                   IN  t.op = "CALL" /\ t.dst.k = "vreg" /\ \A j \in i .. Len(f.ir) : ~Uses(f.ir[j], t.dst.n)
  IN  [f EXCEPT !.ir = [i \in DOMAIN @ |-> IF Unused(i) THEN [@[i] EXCEPT !.dst = NoValue] ELSE @[i]]]
=============================================================================
