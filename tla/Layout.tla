------------------------------- MODULE Layout -------------------------------
(***************************************************************************)
(* Sizes, alignments and members of C types on x86-64 (types.c).           *)
(*                                                                         *)
(* A scalar type is [t |-> "int"], an array also has `of' and `n', and a   *)
(* struct or union has its `members' and whether it is `packed'.  A member *)
(* has a type and, as a bit field, a width; width is NoField for others.   *)
(***************************************************************************)
EXTENDS Integers, Sequences, FiniteSets, SequencesExt

NoField == -1
IsStruct(T) == T.t \in {"struct", "union"}
ScalarSize ==
  [char |-> 1, short |-> 2, int |-> 4, enum |-> 4, long |-> 8, ptr |-> 8,
   uchar |-> 1, ushort |-> 2, uint |-> 4, ulong |-> 8,
   float |-> 4, double |-> 8, ldouble |-> 16]
Unsigned == {"uchar", "ushort", "uint", "ulong"}

RoundUp(n, a) == ((n + a - 1) \div a) * a
Largest(a, b) == IF a > b THEN a ELSE b

RECURSIVE Alignment(_)
Alignment(T) ==
  CASE T.t = "array" -> Alignment(T.of)
    [] IsStruct(T)   -> FoldLeft(LAMBDA a, m : Largest(a, Alignment(m.type)), 1, T.members)
    [] OTHER         -> ScalarSize[T.t]

(* recursive_complete_struct_or_union: the bit at which each member starts, *)
(* and the bits of the whole.  A union is as long as its longest member,    *)
(* and is not rounded up to its alignment.                                  *)
RECURSIVE Bits(_)
Laid(T) ==
  LET BitsOf(m) == IF m.width = NoField THEN Bits(m.type) ELSE m.width
      AlignOf(m) ==
        CASE m.width # NoField -> 32
          [] m.width = NoField /\ T.packed -> 8
          [] OTHER -> 8 * Alignment(m.type)
      CrossesInt(bit, width) == (bit + width - 1) \div 32 # bit \div 32
      Start(bit, m) ==
        CASE m.width = NoField -> RoundUp(bit, AlignOf(m))
          [] m.width = 0       -> RoundUp(bit, 32)
          [] OTHER             -> IF CrossesInt(bit, m.width) THEN RoundUp(bit, 32) ELSE bit
      Add(s, m) ==
        LET start == Start(s.bit, m)
        IN  [starts  |-> Append(s.starts, start),
             bit     |-> IF T.t = "union" THEN start ELSE start + BitsOf(m),
             longest |-> Largest(s.longest, BitsOf(m)),
             align   |-> Largest(s.align, AlignOf(m))]
  IN  FoldLeft(Add, [starts |-> <<>>, bit |-> 0, longest |-> 0, align |-> 8], T.members)
BitsUsed(T, laid) == IF T.t = "union" THEN laid.longest ELSE RoundUp(laid.bit, laid.align)

Bits(T) ==
  CASE T.t = "array" -> T.n * Bits(T.of)
    [] IsStruct(T)   -> BitsUsed(T, Laid(T))
    [] OTHER         -> 8 * ScalarSize[T.t]
Size(T) == Bits(T) \div 8

(* flatten_type: the scalars in a type, each with its offset in bytes. *)
RECURSIVE Scalars(_, _)
Scalars(T, offset) ==
  CASE IsStruct(T) ->
         LET starts == Laid(T).starts
         IN  FlattenSeq([i \in DOMAIN T.members |->
               Scalars(T.members[i].type, offset + starts[i] \div 8)])
    [] T.t = "array" ->
         FlattenSeq([i \in 1 .. T.n |-> Scalars(T.of, offset + (i - 1) * Size(T.of))])
    [] OTHER -> <<[type |-> T, offset |-> offset]>>

(* The types an argument may change to on its way to a parameter: all that *)
(* are below int are promoted to int, whatever their sign.                 *)
Decay(T) ==
  CASE T.t = "array" -> [t |-> "ptr"]
    [] T.t = "enum"  -> [t |-> "int"]
    [] OTHER         -> T
Promoted(T) ==
  CASE T.t \in {"char", "short", "uchar", "ushort"} -> [t |-> "int"]
    [] T.t = "float" -> [t |-> "double"]
    [] T.t = "array" -> [t |-> "ptr"]
    [] OTHER         -> T
FitsIntRegister(T) == T.t \in {"char", "short", "int", "long", "ptr"} \cup Unsigned
FitsSseRegister(T) == T.t \in {"float", "double"}
=============================================================================
