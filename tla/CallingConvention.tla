------------------------- MODULE CallingConvention --------------------------
(***************************************************************************)
(* Where the arguments of a call and the parameters of a function are      *)
(* (functions.c): the caller and the callee each compute it from types.    *)
(*                                                                         *)
(* An allocation counts the registers of each class and the bytes of the   *)
(* stack in use, and has the locations of each parameter: one, or one for  *)
(* each eight bytes of a structure.                                        *)
(***************************************************************************)
EXTENDS Layout

Nowhere == -1
Eight == 8
NoParams == [ints |-> 0, sses |-> 0, offset |-> 0, biggest |-> 1, locations |-> <<>>]

(* add_type_to_allocation.  An integer counts as one also on the stack. *)
Pushed(fpa, size, align, offset, piece) ==
  [fpa |-> [fpa EXCEPT !.offset = offset + size, !.biggest = Largest(@, align)],
   location |-> piece @@ [int |-> Nowhere, sse |-> Nowhere, stack |-> offset, padding |-> offset - fpa.offset]]
CountInt(fpa, T) == IF FitsIntRegister(T) THEN [fpa EXCEPT !.ints = @ + 1] ELSE fpa
AddScalar(fpa, T, align, piece) ==
  CASE FitsIntRegister(T) /\ fpa.ints < 6 ->
         [fpa |-> CountInt(fpa, T),
          location |-> piece @@ [int |-> fpa.ints, sse |-> Nowhere, stack |-> Nowhere, padding |-> Nowhere]]
    [] FitsSseRegister(T) /\ fpa.sses < 8 ->
         [fpa |-> [fpa EXCEPT !.sses = @ + 1],
          location |-> piece @@ [int |-> Nowhere, sse |-> fpa.sses, stack |-> Nowhere, padding |-> Nowhere]]
    [] OTHER -> Pushed(CountInt(fpa, T), Largest(Size(T), Eight), align, RoundUp(fpa.offset, align), piece)
AddType(fpa, T, piece) == AddScalar(fpa, Decay(T), Largest(Alignment(Decay(T)), Eight), piece)

Whole == [size |-> 0, members |-> 0, at |-> 0]
OnStack(locations) == \E i \in DOMAIN locations : locations[i].stack # Nowhere

(* add_single_stack_function_param_location *)
Located(added) == [added.fpa EXCEPT !.locations = Append(@, <<added.location>>)]
AddWhole(fpa, T) == Located(AddType(fpa, T, Whole))

(* Pieces of a structure get registers when there is one for each of them; *)
(* if not, what they were given is given back and it is on the stack.      *)
AddPiece(s, p) ==
  LET Further(added) == [fpa |-> added.fpa, locations |-> Append(s.locations, added.location)]
  IN  Further(AddType(s.fpa, [t |-> IF p.int THEN "int" ELSE "float"],
                      [size |-> p.size, members |-> p.members, at |-> p.at]))
AddPieces(fpa, T, pieces) ==
  LET Kept(all) == IF OnStack(all.locations) /\ Len(pieces) > 1
                   THEN AddWhole(fpa, T)
                   ELSE [all.fpa EXCEPT !.locations = Append(@, all.locations)]
  IN  Kept(FoldLeft(AddPiece, [fpa |-> fpa, locations |-> <<>>], pieces))

(* The size of a structure without the padding at its end is taken to be   *)
(* that of its scalars: padding between them is not counted either, and    *)
(* each member of a union is.                                              *)
ScalarsSize(scalars) == FoldLeft(LAMBDA n, s : n + Size(s.type), 0, scalars)

(* add_function_param_to_allocation *)
AddSmall(fpa, T, scalars, size) ==
    LET count   == (size + 7) \div Eight
        In(i)   == {s \in DOMAIN scalars : scalars[s].offset \div Eight = i - 1}
        inMemory ==
          \E s \in DOMAIN scalars :
            /\ ~FitsIntRegister(scalars[s].type) /\ ~FitsSseRegister(scalars[s].type)
            /\ scalars[s].offset \div Eight < count
        unaligned ==
          \E s \in DOMAIN scalars : scalars[s].offset % Alignment(scalars[s].type) # 0
        pieces ==
          [i \in 1 .. count |->
            [int     |-> \E s \in In(i) : FitsIntRegister(scalars[s].type),
             size    |-> IF size - Eight * (i - 1) > Eight THEN Eight ELSE size - Eight * (i - 1),
             members |-> Cardinality(In(i)),
             at      |-> Eight * (i - 1)]]
    IN  IF inMemory \/ unaligned THEN AddWhole(fpa, T) ELSE AddPieces(fpa, T, pieces)
AddParam(fpa, T) ==
  IF ~IsStruct(T) \/ Size(T) > 16 THEN AddWhole(fpa, T)
  ELSE AddSmall(fpa, T, Scalars(T, 0), ScalarsSize(Scalars(T, 0)))

(* finalize_function_param_allocation *)
Padding(fpa) == RoundUp(fpa.offset, fpa.biggest) - fpa.offset
StackSize(fpa) == fpa.offset + Padding(fpa)

Allocate(types) == FoldLeft(AddParam, NoParams, types)

(* parse_function and setup_return_for_struct_or_union: a result that has  *)
(* no registers is written through a pointer, the first parameter.         *)
Pointer == [t |-> "ptr"]
ResultLocations(T) == AddParam(NoParams, T).locations[1]
ReturnsInMemory(T) == IsStruct(T) /\ OnStack(ResultLocations(T))
ParamTypes(f) == (IF ReturnsInMemory(f.returns) THEN <<Pointer>> ELSE <<>>) \o f.params
FirstParam(f) == IF ReturnsInMemory(f.returns) THEN 1 ELSE 0
=============================================================================
