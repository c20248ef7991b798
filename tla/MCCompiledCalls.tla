-------------------------- MODULE MCCompiledCalls ---------------------------
(***************************************************************************)
(* Calls that use up the registers of either class, structures of all      *)
(* kinds of pieces, alignment and padding, variadic functions, and results *)
(* as arguments.                                                           *)
(***************************************************************************)
EXTENDS CompiledCalls

Member(T) == [type |-> T, width |-> NoField]
Struct(types) == [t |-> "struct", packed |-> FALSE, members |-> [i \in DOMAIN types |-> Member(types[i])]]
Array(T, n) == [t |-> "array", of |-> T, n |-> n]
Many(n, x) == [i \in 1 .. n |-> x]

Char == Type("char")
Int_ == Type("int")
Long == Type("long")
Float == Type("float")
Double == Type("double")
LongDouble == Type("ldouble")
Void == Type("void")

Chars(n)  == Struct(<<Array(Char, n)>>)
Longs(n)  == Struct(Many(n, Long))
Floats(n) == Struct(Many(n, Float))
Doubles(n) == Struct(Many(n, Double))
Mixed     == Struct(<<Double, Long>>)
Wide      == Struct(<<LongDouble>>)

Values(n) == Many(n, "value")
J(params, extra, returns, args) ==
  [params |-> params, extra |-> extra, variadic |-> extra # <<>>, returns |-> returns, args |-> args,
   ofG |-> Int_, keeps |-> Longs(1), result |-> IF returns = Void THEN "ignored" ELSE "used",
   taken |-> {}, saved |-> 0, list |-> "object"]
Fixed(params, returns) == J(params, <<>>, returns, Many(Len(params), "value"))
Varying(params, extra, returns) == J(params, extra, returns, Many(Len(params) + Len(extra), "value"))
With(j, args) == [j EXCEPT !.args = args]
Result(j, how) == [j EXCEPT !.result = how]

(* Scalars: all registers of a class in use, the rest on the stack, padding *)
(* in front of a long double, parameters whose address is taken.           *)
Scalar == {
  Fixed(<<Char, Type("ushort"), Int_>>, Char),
  [Fixed(Many(9, Long), Long) EXCEPT !.taken = {1, 7}, !.saved = 2, !.keeps = Chars(3)],
  [Fixed(Many(9, Double), Double) EXCEPT !.taken = {2, 9}, !.saved = 1],
  Fixed(Many(7, Double) \o <<Float, Long>>, Float),
  [Fixed(<<LongDouble, LongDouble, Int_>>, LongDouble) EXCEPT !.taken = {1}],
  [Fixed(Many(7, Long) \o <<LongDouble, Char>>, Void) EXCEPT !.keeps = LongDouble],
  [Fixed(Many(8, Long) \o <<LongDouble>>, Int_) EXCEPT !.result = "ignored"]}

(* Structures of up to 16 bytes, by their pieces, as argument and result.  *)
InPieces == {Fixed(<<T>>, T) : T \in {Chars(1), Chars(3), Chars(7), Chars(11), Longs(2), Floats(1), Floats(2),
                                      Floats(3), Doubles(2), Mixed, Struct(<<Int_, Float, Double>>)}}
PiecesAndScalars == {
  Fixed(Many(5, Long) \o <<Longs(2), Long, Long>>, Longs(1)),
  Fixed(Many(7, Double) \o <<Doubles(2), Double, Floats(2)>>, Void),
  Fixed(<<Chars(5), Int_, Floats(3), Mixed, Double, Longs(2)>>, Void),
  Result(Fixed(<<Longs(2)>>, Longs(2)), "copied"), Result(Fixed(<<Chars(3)>>, Mixed), "ignored")}

(* Any three parameters when two registers of each class are left.         *)
LastRegisters ==
  {Fixed(Many(4, Long) \o Many(6, Double) \o <<T, U, V>>, Void) :
     T, U, V \in {Long, Double, Longs(2), Mixed, LongDouble}}

(* Structures in memory, copied in registers or by memcpy.                 *)
InMemoryOnly == {
  Fixed(<<Longs(3), Long>>, Longs(3)),
  [Fixed(<<Chars(40), Long, Chars(19)>>, Chars(40)) EXCEPT !.saved = 1],
  Result(Fixed(<<Wide, Wide, Int_>>, Wide), "copied"),
  Result(Fixed(Many(6, Long), Chars(33)), "ignored"),
  [Fixed(Many(7, Long) \o <<Wide, Longs(3)>>, Void) EXCEPT !.keeps = Chars(21)]}

(* Arguments that are pointed to, or results of calls of their own, made   *)
(* while other arguments are on the stack already.                         *)
Nested == {
  With(Fixed(<<Longs(3), Longs(2), Int_>>, Void), <<"pointer", "pointer", "value">>),
  With(Fixed(<<Chars(40), Floats(3)>>, Void), <<"pointer", "pointer">>),
  With(Fixed(<<Int_, Int_, Int_>>, Int_), <<"call", "value", "call">>),
  With([Fixed(Many(8, Long), Void) EXCEPT !.ofG = Long], Many(6, "value") \o <<"call", "value">>),
  With([Fixed(Many(9, Long), Void) EXCEPT !.ofG = Long], Many(6, "value") \o <<"call", "call", "value">>),
  With([Fixed(<<Longs(3), Longs(3), Long>>, Longs(3)) EXCEPT !.ofG = Longs(3)], <<"call", "value", "value">>),
  With([Fixed(<<Doubles(2), Longs(5)>>, Void) EXCEPT !.ofG = Doubles(2)], <<"call", "value">>)}

(* Variadic functions: from the save area, from the stack, from both.      *)
Variadic == {
  Varying(<<Int_>>, <<Int_, Double, Long>>, Int_),
  Varying(<<Int_>>, <<Type("uchar"), Type("short"), Type("ushort"), Char, Type("uchar"), Type("uchar"), Type("ushort")>>, Int_),
  Varying(<<Int_>>, Many(7, Long), Int_),
  [Varying(<<Double, Int_>>, Many(8, Double), Double) EXCEPT !.list = "pointer", !.saved = 1],
  Varying(<<Int_>>, <<Longs(2), Doubles(2), Longs(3), LongDouble, Int_>>, Void),
  [Varying(<<Int_>>, <<Longs(2), Doubles(2), Longs(3), LongDouble>>, Void) EXCEPT !.list = "pointer"],
  Varying(<<Int_>>, Many(4, Long) \o <<Longs(2), Long, Longs(2)>>, Longs(3)),
  Varying(<<Long, Double>>, Many(6, Doubles(1)) \o <<Doubles(2), Floats(2)>>, Void),
  Varying(<<Int_>>, <<Chars(40), Int_>>, Void)}

Calls == Scalar \cup InPieces \cup PiecesAndScalars \cup LastRegisters \cup InMemoryOnly \cup Nested \cup Variadic
=============================================================================
