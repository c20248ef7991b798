---------------------- MODULE RegisterAllocation_proofs ----------------------
(***************************************************************************)
(* Proofs about RegisterAllocation, for every register file, function,     *)
(* interference graph and spill cost.                                      *)
(***************************************************************************)
EXTENDS RegisterAllocation, FiniteSetTheorems, TLAPS

(* What the allocator is handed is well formed and stays as it is. *)
InputsOK ==
  /\ ig \subseteq {e \in Vregs \X Vregs : e[1] <= e[2]}
  /\ class \in [Free -> Classes]
  /\ cost \in [Free -> Int]
  /\ preferred \in [Free -> 0 .. Reserved]
  /\ \A v \in Free : preferred[v] # 0 => preferred[v] \in ReservedOf(class[v])
  /\ \A e \in ig : e[1] <= Reserved \/ class[e[1]] = class[e[2]]
  /\ origStack \in [Free -> Nat]
  /\ \A v \in Free : origStack[v] \in {0, 2 + v}
  /\ locals \in Nat

StateOK ==
  /\ preg \in [Vregs -> Int]
  /\ stackIndex \in [Vregs -> Int]
  /\ stackCount \in Nat
  /\ pass \in Classes
  /\ todo \subseteq Free
  /\ pc \in {"order", "colour", "remap", "done"}

(* The reserved vregs hold their own registers from the first pass on. *)
ReservedInv ==
  /\ pc = "order" /\ pass = "INT" => \A v \in Vregs : preg[v] = -1
  /\ (pc # "order" \/ pass = "SSE") /\ pc # "done" =>
       \A r \in 1 .. Reserved : preg[r] = r - 1

(* A live range only ever has a register of its own class. *)
RangeInv ==
  /\ pc # "done" => \A v \in Free : Placed(v) => preg[v] \in PregsOf(class[v])
  /\ pc = "done" =>
       \A v \in Free : Placed(v) => \E p \in PregsOf(class[v]) : preg[v] = PregMap[p]

(* A vreg is waiting until its class is being coloured and it is chosen. *)
Waiting(v) ==
  \/ pass = "INT" /\ class[v] = "SSE"
  \/ pc = "order" /\ class[v] = pass
  \/ v \in todo

(* The vregs that wait have no place yet, all others have exactly one. *)
PlaceInv ==
  /\ \A v \in todo : pc = "colour" /\ class[v] = pass
  /\ pc \in {"remap", "done"} => pass = "SSE"
  /\ \A v \in Free :
       IF Waiting(v) THEN ~Placed(v) /\ ~Spilled(v) ELSE Placed(v) <=> ~Spilled(v)

IInv ==
  /\ InputsOK
  /\ StateOK
  /\ ReservedInv
  /\ RangeInv
  /\ PlaceInv
  /\ NoSharedRegister

-----------------------------------------------------------------------------
(* Arithmetic on the numbering of registers: the two classes partition the *)
(* reserved vregs, and reserved vreg r stands for preg r - 1.              *)
LEMMA RegisterNumbering ==
  /\ Reserved \in Nat
  /\ Free \subseteq Vregs
  /\ 1 .. Reserved \subseteq Vregs
  /\ \A v \in Vregs : v \in Nat /\ (v \in Free <=> ~(v <= Reserved))
  /\ \A v \in Vregs : v <= Reserved <=> v \in 1 .. Reserved
  /\ \A c \in Classes :
       /\ RegisterCount(c) \in Nat \ {0}
       /\ ReservedOf(c) \subseteq 1 .. Reserved
       /\ PregsOf(c) \subseteq Pregs
       /\ \A r \in 1 .. Reserved : r \in ReservedOf(c) <=> r - 1 \in PregsOf(c)
  BY CountAssumption
  DEF Reserved, Free, Vregs, Classes, RegisterCount, ReservedOf, PregsOf, Pregs, LiveRangeStart

(* Interference has no direction. *)
LEMMA InterferenceSymmetric ==
  ASSUME InputsOK, NEW u \in Vregs, NEW v \in Vregs
  PROVE  Interferes(u, v) <=> Interferes(v, u)
  BY DEF Interferes

(* A colour of the class that color_vreg did not meet among the neighbours *)
(* it looks at is not the register of any vreg that interferes.            *)
LEMMA FreshColor ==
  ASSUME IInv, pc = "colour", NEW v \in todo, NEW p \in PregsOf(pass),
         p \notin NeighborColors(v),
         NEW w \in Vregs, Interferes(w, v), Placed(w)
  PROVE  preg[w] # p
<1>1. CASE w <= Reserved /\ w \notin ReservedOf(pass)
  <2>1. w \in 1 .. Reserved
    BY <1>1, RegisterNumbering, CountAssumption DEF Vregs
  <2>2. w - 1 \notin PregsOf(pass)
    BY <1>1, <2>1, RegisterNumbering DEF IInv, StateOK
  <2>3. preg[w] = w - 1
    BY <2>1 DEF IInv, ReservedInv
  <2> QED BY <2>2, <2>3
<1>2. CASE ~(w <= Reserved /\ w \notin ReservedOf(pass))
  <2>1. w \in Neighbors(v)
    BY <1>2 DEF Neighbors
  <2>2. preg[w] \in NeighborColors(v)
    BY <2>1 DEF NeighborColors, Placed
  <2> QED BY <2>2
<1> QED BY <1>1, <1>2

(* Giving such a colour to a waiting vreg keeps the invariant. *)
LEMMA ColorKeepsInvariant ==
  ASSUME IInv, pc = "colour", NEW v \in todo, NEW p \in PregsOf(pass),
         p \notin NeighborColors(v),
         preg' = [preg EXCEPT ![v] = p],
         todo' = todo \ {v},
         UNCHANGED <<inputs, stackIndex, stackCount, pass, pc>>
  PROVE  IInv'
<1> USE DEF IInv
<1>1. v \in Free /\ v \in Vregs /\ ~(v <= Reserved) /\ class[v] = pass /\ ~Placed(v) /\ ~Spilled(v)
  BY RegisterNumbering DEF StateOK, PlaceInv, Waiting
<1>2. p \in Int /\ p # -1 /\ p \in Nat
  BY RegisterNumbering DEF StateOK, Pregs
<1>3. \A w \in Vregs : preg'[w] = IF w = v THEN p ELSE preg[w]
  BY <1>1 DEF StateOK
<1>4. InputsOK'
  BY DEF InputsOK, inputs
<1>5. StateOK'
  BY <1>1, <1>2 DEF StateOK
<1>6. ReservedInv'
  BY <1>1, <1>3, RegisterNumbering DEF ReservedInv
<1>7. RangeInv'
  BY <1>1, <1>3, RegisterNumbering DEF RangeInv, Placed, inputs, StateOK
<1>8. PlaceInv'
  <2>1. \A w \in todo' : pc' = "colour" /\ class'[w] = pass'
    BY DEF PlaceInv, inputs
  <2>2. \A w \in Free :
          IF Waiting(w)' THEN ~Placed(w)' /\ ~Spilled(w)' ELSE Placed(w)' <=> ~Spilled(w)'
    <3> TAKE w \in Free
    <3>1. CASE w = v
      <4>1. ~Waiting(w)'
        BY <1>1, <3>1 DEF Waiting, inputs
      <4>2. Placed(w)' /\ ~Spilled(w)'
        BY <1>1, <1>2, <1>3, <3>1 DEF Placed, Spilled
      <4> QED BY <4>1, <4>2
    <3>2. CASE w # v
      <4>1. Waiting(w)' <=> Waiting(w)
        BY <3>2 DEF Waiting, inputs
      <4>2. (Placed(w)' <=> Placed(w)) /\ (Spilled(w)' <=> Spilled(w))
        BY <1>3, <3>2, RegisterNumbering DEF Placed, Spilled
      <4> QED BY <4>1, <4>2 DEF PlaceInv
    <3> QED BY <3>1, <3>2
  <2> QED BY <2>1, <2>2 DEF PlaceInv
<1>9. NoSharedRegister'
  <2> SUFFICES ASSUME NEW u \in Vregs, NEW w \in Vregs, u # w, Interferes(u, w),
                      Placed(u)', Placed(w)', ~(u <= Reserved /\ w <= Reserved)
               PROVE  preg'[u] # preg'[w]
    BY DEF NoSharedRegister, Interferes, inputs
  <2>0. Interferes(w, u)
    BY InterferenceSymmetric
  <2>1. CASE u = v
    <3>1. Placed(w)
      BY <1>3, <2>0, <2>1 DEF Placed
    <3>2. preg[w] # p
      BY <2>0, <2>1, <3>1, FreshColor
    <3> QED BY <1>3, <2>0, <2>1, <3>2
  <2>2. CASE w = v
    <3>1. Placed(u)
      BY <1>3, <2>0, <2>2 DEF Placed
    <3>2. preg[u] # p
      BY <2>2, <3>1, FreshColor
    <3> QED BY <1>3, <2>0, <2>2, <3>2
  <2>3. CASE u # v /\ w # v
    BY <1>3, <2>3 DEF NoSharedRegister, Placed
  <2> QED BY <2>1, <2>2, <2>3
<1> QED BY <1>4, <1>5, <1>6, <1>7, <1>8, <1>9

-----------------------------------------------------------------------------
(* Every function the allocator may be called for starts in the invariant. *)
LEMMA InitInvariant == Init => IInv
<1> SUFFICES ASSUME Init PROVE IInv
  OBVIOUS
<1>1. InputsOK
  <2>1. ig \subseteq {e \in Vregs \X Vregs : e[1] <= e[2]}
    BY EdgeAssumption DEF Init
  <2>2. cost \in [Free -> Int]
    BY InputAssumption DEF Init
  <2>3. locals \in Nat
    BY CountAssumption DEF Init
  <2>4. origStack \in [Free -> Nat] /\ \A v \in Free : origStack[v] \in {0, 2 + v}
    BY CountAssumption DEF Init, Free, Reserved
  <2> QED BY <2>1, <2>2, <2>3, <2>4 DEF InputsOK, Init
<1>2. StateOK
  BY <1>1, RegisterNumbering DEF StateOK, Init, Classes, InputsOK
<1>3. ReservedInv
  BY DEF ReservedInv, Init
<1>4. RangeInv
  BY RegisterNumbering DEF RangeInv, Init, Placed
<1>5. PlaceInv
  <2> SUFFICES ASSUME NEW v \in Free
               PROVE  Waiting(v) /\ ~Placed(v) /\ ~Spilled(v)
    BY DEF PlaceInv, Init
  <2>1. class[v] \in {"INT", "SSE"}
    BY DEF Init, Classes
  <2> QED BY <2>1, RegisterNumbering DEF Init, Waiting, Placed, Spilled
<1>6. NoSharedRegister
  BY DEF NoSharedRegister, Init, Placed
<1> QED BY <1>1, <1>2, <1>3, <1>4, <1>5, <1>6 DEF IInv

(* Collecting the vregs of a class and pre-colouring the reserved ones     *)
(* keeps the invariant: the integer pass meets an empty allocation, and    *)
(* the other pass finds the reserved vregs as it would set them.           *)
LEMMA OrderKeepsInvariant == IInv /\ OrderNodes => IInv'
<1> SUFFICES ASSUME IInv, OrderNodes PROVE IInv'
  OBVIOUS
<1> USE DEF IInv
<1>1. \A v \in Vregs : preg'[v] = IF v <= Reserved THEN v - 1 ELSE preg[v]
  BY DEF OrderNodes
<1>2. InputsOK' /\ pc = "order" /\ pc' = "colour" /\ pass' = pass
  BY DEF InputsOK, OrderNodes, inputs
<1>3. StateOK'
  BY RegisterNumbering DEF StateOK, OrderNodes, Vregs
<1>4. ReservedInv'
  BY <1>1, <1>2, RegisterNumbering DEF ReservedInv
<1>5. RangeInv'
  BY <1>1, <1>2, RegisterNumbering DEF RangeInv, Placed, OrderNodes, inputs
<1>6. PlaceInv'
  <2>1. \A v \in todo' : pc' = "colour" /\ class'[v] = pass'
    BY <1>2 DEF OrderNodes, inputs
  <2>2. \A v \in Free : (Placed(v)' <=> Placed(v)) /\ (Spilled(v)' <=> Spilled(v))
    BY <1>1, RegisterNumbering DEF Placed, Spilled, OrderNodes
  <2>3. todo = {}
    BY <1>2 DEF PlaceInv, StateOK
  <2>4. \A v \in Free : Waiting(v)' <=> Waiting(v)
    BY <1>2, <2>3 DEF Waiting, OrderNodes, inputs
  <2> QED BY <1>2, <2>1, <2>2, <2>4 DEF PlaceInv
<1>7. NoSharedRegister'
  <2> SUFFICES ASSUME NEW u \in Vregs, NEW w \in Vregs, u # w, Interferes(u, w),
                      Placed(u)', Placed(w)', ~(u <= Reserved /\ w <= Reserved)
               PROVE  preg'[u] # preg'[w]
    BY DEF NoSharedRegister, Interferes, OrderNodes, inputs
  <2>1. CASE pass = "INT"
    \* Only reserved vregs are placed after the step.
    <3>1. \A v \in Vregs : preg[v] = -1
      BY <1>2, <2>1 DEF ReservedInv
    <3> QED BY <1>1, <3>1 DEF Placed
  <2>2. CASE pass = "SSE"
    \* The step changes nothing.
    <3>1. \A r \in 1 .. Reserved : preg[r] = r - 1
      BY <1>2, <2>2 DEF ReservedInv
    <3>2. \A v \in Vregs : preg'[v] = preg[v]
      BY <1>1, <3>1, RegisterNumbering DEF Vregs
    <3> QED BY <3>2 DEF NoSharedRegister, Placed
  <2> QED BY <2>1, <2>2 DEF StateOK, Classes
<1> QED BY <1>2, <1>3, <1>4, <1>5, <1>6, <1>7

(* Spilling a vreg keeps the invariant: its slot is never 0. *)
LEMMA SpillKeepsInvariant == \A v \in Free : IInv /\ SpillVreg(v) => IInv'
<1> SUFFICES ASSUME NEW v \in Free, IInv, SpillVreg(v) PROVE IInv'
  OBVIOUS
<1> USE DEF IInv
<1>1. InputsOK' /\ UNCHANGED <<preg, pass, pc, class>> /\ v \in Vregs /\ v \in todo
  BY RegisterNumbering DEF InputsOK, SpillVreg, inputs, IsNext
<1>2. PICK s \in Int : s # 0 /\ stackIndex' = [stackIndex EXCEPT ![v] = s]
  <2>1. origStack[v] \in Nat /\ stackCount \in Nat
    BY DEF InputsOK, StateOK
  <2> QED BY <2>1 DEF SpillVreg
<1>3. StateOK'
  BY <1>1, <1>2 DEF StateOK, SpillVreg
<1>4. ReservedInv' /\ RangeInv'
  BY <1>1 DEF ReservedInv, RangeInv, Placed
<1>5. NoSharedRegister'
  BY <1>1 DEF NoSharedRegister, Interferes, Placed, SpillVreg, inputs
<1>6. PlaceInv'
  <2>1. \A w \in Vregs : stackIndex'[w] = IF w = v THEN s ELSE stackIndex[w]
    BY <1>1, <1>2 DEF StateOK
  <2>2. \A w \in todo' : pc' = "colour" /\ class'[w] = pass'
    BY <1>1 DEF PlaceInv, SpillVreg
  <2>3. Waiting(v) /\ ~Placed(v) /\ pc = "colour" /\ class[v] = pass
    BY <1>1 DEF PlaceInv, Waiting
  <2>4. ~Waiting(v)' /\ ~Placed(v)' /\ Spilled(v)'
    BY <1>1, <1>2, <2>1, <2>3 DEF Waiting, Placed, Spilled, SpillVreg
  <2>5. \A w \in Free : w # v =>
          (Waiting(w)' <=> Waiting(w)) /\ (Placed(w)' <=> Placed(w)) /\ (Spilled(w)' <=> Spilled(w))
    BY <1>1, <2>1, RegisterNumbering DEF Waiting, Placed, Spilled, SpillVreg
  <2> QED BY <1>1, <2>2, <2>4, <2>5 DEF PlaceInv
<1> QED BY <1>1, <1>3, <1>4, <1>5, <1>6

(* Both ways of giving a vreg a register use a colour no neighbour has. *)
LEMMA TakeKeepsInvariant ==
  \A v \in Free : IInv /\ (TakePreferred(v) \/ TakeFirstFree(v)) => IInv'
<1> SUFFICES ASSUME NEW v \in Free, IInv, TakePreferred(v) \/ TakeFirstFree(v) PROVE IInv'
  OBVIOUS
<1>1. v \in todo /\ pc = "colour" /\ class[v] = pass /\ pass \in Classes
  BY DEF TakePreferred, TakeFirstFree, IsNext, IInv, PlaceInv, StateOK
<1>2. CASE TakePreferred(v)
  <2>1. preferred[v] \in ReservedOf(pass)
    BY <1>1, <1>2 DEF TakePreferred, PreferredIsFree, Bucket, IInv, InputsOK
  <2>2. preferred[v] \in 1 .. Reserved /\ preferred[v] - 1 \in PregsOf(pass)
    BY <1>1, <2>1, RegisterNumbering
  <2>3. preg[preferred[v]] \in PregsOf(pass)
    BY <1>1, <2>2 DEF IInv, ReservedInv
  <2> QED BY <1>1, <1>2, <2>3, ColorKeepsInvariant DEF TakePreferred, PreferredIsFree
<1>3. CASE TakeFirstFree(v)
  <2>1. PICK p \in FreeColors(v) : preg' = [preg EXCEPT ![v] = p]
    BY <1>3 DEF TakeFirstFree
  <2> QED BY <1>1, <1>3, <2>1, ColorKeepsInvariant DEF TakeFirstFree, FreeColors
<1> QED BY <1>2, <1>3

(* The end of a pass keeps the invariant. *)
LEMMA NextPassKeepsInvariant == IInv /\ NextPass => IInv'
<1> SUFFICES ASSUME IInv, NextPass PROVE IInv'
  OBVIOUS
<1> USE DEF IInv
<1>1. InputsOK' /\ StateOK'
  BY DEF InputsOK, StateOK, NextPass, inputs, Classes
<1>2. ReservedInv' /\ RangeInv'
  BY DEF ReservedInv, RangeInv, Placed, NextPass, inputs, StateOK, Classes
<1>3. NoSharedRegister'
  BY DEF NoSharedRegister, Interferes, Placed, NextPass, inputs
<1>4. \A v \in Free : Waiting(v)' <=> Waiting(v)
  <2> TAKE v \in Free
  <2>1. class[v] \in {"INT", "SSE"}
    BY DEF InputsOK, Classes
  <2> QED BY <2>1 DEF Waiting, NextPass, inputs, StateOK, Classes
<1>5. PlaceInv'
  BY <1>4 DEF PlaceInv, Placed, Spilled, NextPass, inputs, StateOK, Classes
<1> QED BY <1>1, <1>2, <1>3, <1>5

(* Renumbering keeps the invariant: preg_map sends two registers to two.   *)
LEMMA RemapKeepsInvariant == IInv /\ RemapPregs => IInv'
<1> SUFFICES ASSUME IInv, RemapPregs PROVE IInv'
  OBVIOUS
<1> USE DEF IInv
<1>1. \A v \in Vregs : Placed(v) => preg[v] \in Pregs
  <2> SUFFICES ASSUME NEW v \in Vregs, Placed(v) PROVE preg[v] \in Pregs
    OBVIOUS
  <2>1. CASE v \in Free
    BY <2>1, RegisterNumbering DEF RangeInv, RemapPregs, InputsOK
  <2>2. CASE v \in 1 .. Reserved
    BY <2>2, RegisterNumbering DEF ReservedInv, RemapPregs, Pregs
  <2> QED BY <2>1, <2>2, RegisterNumbering
<1>2. \A v \in Vregs : preg'[v] = IF Placed(v) THEN PregMap[preg[v]] ELSE -1
  BY DEF RemapPregs, Placed
<1>3. \A v \in Vregs : /\ Placed(v)' <=> Placed(v)
                       /\ preg'[v] \in Int
  BY <1>1, <1>2, PregMapAssumption DEF Placed
<1>4. InputsOK' /\ StateOK'
  BY <1>3 DEF InputsOK, StateOK, RemapPregs, inputs
<1>5. ReservedInv' /\ RangeInv'
  <2>1. ReservedInv'
    BY DEF ReservedInv, RemapPregs
  <2>2. RangeInv'
    BY <1>2, <1>3, RegisterNumbering DEF RangeInv, RemapPregs, inputs
  <2> QED BY <2>1, <2>2
<1>6. PlaceInv'
  <2>1. pass = "SSE" /\ todo = {}
    BY DEF PlaceInv, RemapPregs, StateOK
  <2>2. \A v \in Free : (Waiting(v)' <=> Waiting(v)) /\ (Spilled(v)' <=> Spilled(v))
    BY <2>1 DEF Waiting, RemapPregs, inputs, Spilled
  <2> QED BY <1>3, <2>1, <2>2, RegisterNumbering DEF PlaceInv, RemapPregs
<1>7. NoSharedRegister'
  <2> SUFFICES ASSUME NEW u \in Vregs, NEW w \in Vregs, u # w, Interferes(u, w),
                      Placed(u)', Placed(w)', ~(u <= Reserved /\ w <= Reserved)
               PROVE  preg'[u] # preg'[w]
    BY DEF NoSharedRegister, Interferes, RemapPregs, inputs
  <2>1. preg[u] # preg[w]
    BY <1>3 DEF NoSharedRegister
  <2> QED BY <1>1, <1>2, <1>3, <2>1, PregMapAssumption
<1> QED BY <1>4, <1>5, <1>6, <1>7

(* No step of the allocator leaves the invariant. *)
LEMMA StepInvariant == IInv /\ [Next]_vars => IInv'
<1> SUFFICES ASSUME IInv, [Next]_vars PROVE IInv'
  OBVIOUS
<1>1. CASE OrderNodes
  BY <1>1, OrderKeepsInvariant
<1>2. CASE \E v \in Free : ColorVreg(v)
  BY <1>2, SpillKeepsInvariant, TakeKeepsInvariant DEF ColorVreg
<1>3. CASE NextPass
  BY <1>3, NextPassKeepsInvariant
<1>4. CASE RemapPregs
  BY <1>4, RemapKeepsInvariant
<1>5. CASE UNCHANGED vars
  BY <1>5 DEF vars, inputs, IInv, InputsOK, StateOK, ReservedInv, RangeInv, PlaceInv, Waiting,
              NoSharedRegister, Interferes, Placed, Spilled
<1> QED BY <1>1, <1>2, <1>3, <1>4, <1>5 DEF Next, Done

THEOREM Invariance == Spec => []IInv
<1> QED BY InitInvariant, StepInvariant, PTL DEF Spec

-----------------------------------------------------------------------------
(* The variables keep their types, for every function. *)
THEOREM TypeCorrect == Spec => []TypeOK
<1>1. IInv => TypeOK
  BY DEF IInv, InputsOK, StateOK, TypeOK
<1> QED BY <1>1, Invariance, PTL

(* Two live ranges that interfere never share a register, and none holds a *)
(* register that is clobbered while it is alive: color_vreg picks colours  *)
(* that no neighbour has, and preg_map keeps different registers apart.    *)
THEOREM RegistersNotShared == Spec => []NoSharedRegister
<1>1. IInv => NoSharedRegister
  BY DEF IInv
<1> QED BY <1>1, Invariance, PTL

(* When both passes are over, no vreg waits any more. *)
LEMMA PlacedInTheEnd == IInv => EveryVregPlaced
<1> SUFFICES ASSUME IInv, pc \in {"remap", "done"}, NEW v \in Free
             PROVE  /\ Placed(v) <=> ~Spilled(v)
                    /\ Placed(v) => \E p \in PregsOf(class[v]) :
                         preg[v] = IF pc = "done" THEN PregMap[p] ELSE p
  BY DEF EveryVregPlaced
<1>1. ~Waiting(v)
  BY DEF IInv, PlaceInv, Waiting
<1>2. Placed(v) <=> ~Spilled(v)
  BY <1>1 DEF IInv, PlaceInv
<1>3. ASSUME Placed(v)
      PROVE  \E p \in PregsOf(class[v]) : preg[v] = IF pc = "done" THEN PregMap[p] ELSE p
  <2>1. CASE pc = "done"
    BY <1>3, <2>1 DEF IInv, RangeInv
  <2>2. CASE pc = "remap"
    BY <1>3, <2>2 DEF IInv, RangeInv
  <2> QED BY <2>1, <2>2
<1> QED BY <1>2, <1>3

(* When both passes are over, every live range has exactly one place, and  *)
(* its register, if any, is of its class.                                  *)
THEOREM AllPlaced == Spec => []EveryVregPlaced
<1> QED BY PlacedInTheEnd, Invariance, PTL

-----------------------------------------------------------------------------
(* Counting colours. *)

(* Neighbours cannot have more colours than there are neighbours. *)
LEMMA ColorsBoundedByDegree ==
  ASSUME NEW v \in Vregs
  PROVE  IsFiniteSet(NeighborColors(v)) /\ Cardinality(NeighborColors(v)) <= Degree(v)
<1> DEFINE All == {i \in Vregs : Interferes(i, v)}
           Colored == {j \in Neighbors(v) : preg[j] # -1}
           f == [i \in Colored |-> preg[i]]
<1>1. IsFiniteSet(All)
  <2>1. IsFiniteSet(Vregs)
    BY FS_Interval, CountAssumption DEF Vregs
  <2>2. All \subseteq Vregs
    OBVIOUS
  <2> QED BY <2>1, <2>2, FS_Subset
<1>2. IsFiniteSet(Colored) /\ Cardinality(Colored) <= Cardinality(All)
  <2>1. Colored \subseteq All
    BY DEF Neighbors
  <2> QED BY <1>1, <2>1, FS_Subset
<1>3. f \in Surjection(Colored, NeighborColors(v))
  <2>1. NeighborColors(v) = {preg[i] : i \in Colored}
    BY DEF NeighborColors
  <2>2. f \in [Colored -> NeighborColors(v)]
    BY <2>1
  <2>3. \A t \in NeighborColors(v) : \E i \in Colored : f[i] = t
    BY <2>1
  <2> HIDE DEF f, Colored
  <2> QED BY <2>2, <2>3 DEF Surjection
<1>4. /\ IsFiniteSet(NeighborColors(v))
      /\ Cardinality(NeighborColors(v)) <= Cardinality(Colored)
  BY <1>2, <1>3, FS_Surjection
<1>5. /\ Cardinality(NeighborColors(v)) \in Nat
      /\ Cardinality(Colored) \in Nat
      /\ Cardinality(All) \in Nat
  BY <1>1, <1>2, <1>4, FS_CardinalityType
<1> HIDE DEF Colored
<1> QED BY <1>2, <1>4, <1>5 DEF Degree

(* A class has as many registers as it counts. *)
LEMMA ClassSize ==
  ASSUME NEW c \in Classes
  PROVE  IsFiniteSet(PregsOf(c)) /\ Cardinality(PregsOf(c)) = RegisterCount(c)
<1>1. LiveRangeStart(c) - 1 \in Int /\ LiveRangeStart(c) + RegisterCount(c) - 2 \in Int
  BY CountAssumption DEF LiveRangeStart, RegisterCount
<1>2. RegisterCount(c) \in Nat \ {0} /\ LiveRangeStart(c) \in Nat
  BY CountAssumption DEF RegisterCount, LiveRangeStart
<1> DEFINE a == LiveRangeStart(c) - 1
           b == LiveRangeStart(c) + RegisterCount(c) - 2
<1>3. IsFiniteSet(a .. b) /\ Cardinality(a .. b) = IF a > b THEN 0 ELSE b - a + 1
  BY <1>1, FS_Interval
<1>4. ~(a > b) /\ b - a + 1 = RegisterCount(c)
  BY <1>2
<1> QED BY <1>3, <1>4 DEF PregsOf

(* color_vreg does not reach its panic: with fewer neighbour colours than  *)
(* registers, one register of the class is not a neighbour's.              *)
THEOREM NoPanic == Spec => []NeverPanics
<1>1. IInv => NeverPanics
  <2> SUFFICES ASSUME IInv, NEW v \in todo,
                      Cardinality(NeighborColors(v)) < RegisterCount(pass),
                      FreeColors(v) = {}
               PROVE  FALSE
    BY DEF NeverPanics
  <2>1. v \in Vregs /\ pass \in Classes
    BY RegisterNumbering DEF IInv, StateOK
  <2>2. PregsOf(pass) \subseteq NeighborColors(v)
    BY DEF FreeColors
  <2>3. IsFiniteSet(NeighborColors(v)) /\ Cardinality(NeighborColors(v)) \in Nat
    BY <2>1, ColorsBoundedByDegree, FS_CardinalityType
  <2>4. Cardinality(PregsOf(pass)) <= Cardinality(NeighborColors(v))
    BY <2>2, <2>3, FS_Subset
  <2>5. Cardinality(PregsOf(pass)) = RegisterCount(pass) /\ RegisterCount(pass) \in Nat
    BY <2>1, ClassSize, RegisterNumbering
  <2> QED BY <2>3, <2>4, <2>5
<1> QED BY <1>1, Invariance, PTL

(* Steps before the renumbering keep the registers that are given, and no  *)
(* step takes a vreg off the stack.                                        *)
THEOREM PlacesFinal == Spec => PlacementIsFinal
<1>1. ASSUME IInv, [Next]_vars, NEW v \in Free
      PROVE  /\ Placed(v) /\ pc' # "done" => preg'[v] = preg[v]
             /\ Spilled(v) => stackIndex'[v] = stackIndex[v] /\ preg'[v] = -1
  <2> USE <1>1 DEF IInv
  <2>1. v \in Vregs /\ ~(v <= Reserved)
    BY RegisterNumbering
  <2>2. Spilled(v) => preg[v] = -1
    BY DEF PlaceInv, Placed
  <2>3. CASE OrderNodes
    BY <2>1, <2>2, <2>3 DEF OrderNodes
  <2>4. CASE \E u \in Free : ColorVreg(u)
    <3>1. PICK u \in Free : ColorVreg(u)
      BY <2>4
    <3>2. u \in todo /\ u \in Vregs /\ ~Placed(u) /\ ~Spilled(u)
      BY <3>1, RegisterNumbering
      DEF ColorVreg, SpillVreg, TakePreferred, TakeFirstFree, IsNext, PlaceInv, Waiting
    <3>3. CASE u = v
      BY <3>2, <3>3
    <3>4. CASE u # v
      BY <2>1, <2>2, <3>1, <3>2, <3>4 DEF ColorVreg, SpillVreg, TakePreferred, TakeFirstFree, StateOK
    <3> QED BY <3>3, <3>4
  <2>5. CASE NextPass
    BY <2>2, <2>5 DEF NextPass
  <2>6. CASE RemapPregs
    BY <2>1, <2>2, <2>6 DEF RemapPregs
  <2>7. CASE UNCHANGED vars
    BY <2>2, <2>7 DEF vars
  <2> QED BY <1>1, <2>3, <2>4, <2>5, <2>6, <2>7 DEF Next, Done
<1>2. IInv /\ [Next]_vars =>
        [\A v \in Free :
           /\ Placed(v) /\ pc' # "done" => preg'[v] = preg[v]
           /\ Spilled(v) => stackIndex'[v] = stackIndex[v] /\ preg'[v] = -1]_vars
  BY <1>1
<1> QED BY <1>2, Invariance, PTL DEF Spec, PlacementIsFinal

-----------------------------------------------------------------------------
(* Spilling. *)

(* The vregs of the class that were handled come before the ones that wait. *)
OrderInv ==
  pc = "colour" =>
    \A u \in Free \ todo : \A w \in todo : class[u] = pass => Before(u, w)

(* Choosing the next vreg keeps the order. *)
LEMMA OrderKept ==
  ASSUME IInv, OrderInv, [Next]_vars
  PROVE  OrderInv'
<1> USE DEF IInv
<1>1. CASE OrderNodes
  BY <1>1 DEF OrderNodes, OrderInv, inputs
<1>2. CASE \E v \in Free : ColorVreg(v)
  <2>1. PICK v \in Free : ColorVreg(v)
    BY <1>2
  <2>2. /\ pc = "colour"
        /\ IsNext(v)
        /\ todo' = todo \ {v}
        /\ UNCHANGED <<inputs, pass, pc>>
    BY <2>1 DEF ColorVreg, SpillVreg, TakePreferred, TakeFirstFree
  <2>3. \A u, w \in Free : Before(u, w)' <=> Before(u, w)
    BY <2>2 DEF Before, Bucket, Constrained, Degree, Interferes, CostBefore, RegisterCount, inputs
  <2>4. \A u \in Free \ todo' : \A w \in todo' : class[u] = pass => Before(u, w)
    BY <2>2 DEF OrderInv, IsNext, StateOK
  <2> QED BY <2>2, <2>3, <2>4 DEF OrderInv, inputs, StateOK
<1>3. CASE NextPass
  BY <1>3 DEF NextPass, OrderInv
<1>4. CASE RemapPregs
  BY <1>4 DEF RemapPregs, OrderInv
<1>5. CASE UNCHANGED vars
  BY <1>5 DEF vars, inputs, OrderInv, Before, Bucket, Constrained, Degree, Interferes, CostBefore,
              RegisterCount
<1> QED BY <1>1, <1>2, <1>3, <1>4, <1>5 DEF Next, Done

(* When color_vreg spills, all registers of the class belong to neighbours *)
(* that are reserved or that were coloured earlier, at a higher cost.      *)
LEMMA SpillIsNeeded ==
  ASSUME IInv, OrderInv, NEW v \in Free, SpillVreg(v)
  PROVE  Degree(v) >= RegisterCount(class[v]) /\ AllRegistersHeld(v)
<1> USE DEF IInv
<1>1. v \in Vregs /\ v \in todo /\ class[v] = pass /\ pass \in Classes /\ pc = "colour"
  BY RegisterNumbering DEF SpillVreg, IsNext, PlaceInv, StateOK
<1>2. Cardinality(NeighborColors(v)) >= RegisterCount(pass)
  BY DEF SpillVreg
<1>3. /\ IsFiniteSet(NeighborColors(v))
      /\ Cardinality(NeighborColors(v)) \in Nat
      /\ Cardinality(NeighborColors(v)) <= Degree(v)
  BY <1>1, ColorsBoundedByDegree, FS_CardinalityType
<1>4. RegisterCount(pass) \in Nat /\ IsFiniteSet(PregsOf(pass))
      /\ Cardinality(PregsOf(pass)) = RegisterCount(pass)
  BY <1>1, ClassSize, RegisterNumbering
<1>5. Degree(v) \in Nat
  <2>1. IsFiniteSet(Vregs)
    BY FS_Interval, CountAssumption DEF Vregs
  <2>2. IsFiniteSet({i \in Vregs : Interferes(i, v)})
    BY <2>1, FS_Subset
  <2> QED BY <2>2, FS_CardinalityType DEF Degree
<1>6. Degree(v) >= RegisterCount(pass)
  BY <1>2, <1>3, <1>4, <1>5
<1>7. ASSUME NEW j \in Neighbors(v), preg[j] # -1
      PROVE  /\ j \in Vregs /\ Interferes(j, v)
             /\ preg[j] \in PregsOf(pass)
             /\ j <= Reserved \/ CostBefore(j, v)
  <2>1. j \in Vregs /\ Interferes(j, v) /\ (j <= Reserved => j \in ReservedOf(pass))
    BY DEF Neighbors
  <2>2. CASE j <= Reserved
    BY <1>1, <2>1, <2>2, RegisterNumbering DEF ReservedInv
  <2>3. CASE ~(j <= Reserved)
    <3>1. j \in Free
      BY <2>1, <2>3, RegisterNumbering
    <3>2. class[j] = pass
      <4>1. CASE <<j, v>> \in ig
        BY <1>1, <2>3, <4>1 DEF InputsOK
      <4>2. CASE <<v, j>> \in ig
        BY <1>1, <4>2, RegisterNumbering DEF InputsOK
      <4> QED BY <2>1, <4>1, <4>2 DEF Interferes
    <3>3. preg[j] \in PregsOf(pass)
      BY <1>1, <1>7, <3>1, <3>2 DEF RangeInv, Placed
    <3>4. j \notin todo
      BY <1>7, <3>1 DEF PlaceInv, Waiting, Placed
    <3>5. Before(j, v)
      BY <1>1, <3>1, <3>2, <3>4 DEF OrderInv
    <3>6. Bucket(v) = 1 /\ Bucket(j) \in {1, 2, 3}
      BY <1>6 DEF Bucket, Constrained
    <3>7. CostBefore(j, v)
      BY <3>5, <3>6 DEF Before
    <3> QED BY <2>1, <3>3, <3>7
  <2> QED BY <2>2, <2>3
<1>8. NeighborColors(v) \subseteq PregsOf(pass)
  BY <1>7 DEF NeighborColors
<1>9. NeighborColors(v) = PregsOf(pass)
  <2>1. /\ Cardinality(NeighborColors(v)) <= Cardinality(PregsOf(pass))
        /\ Cardinality(PregsOf(pass)) = Cardinality(NeighborColors(v))
             => PregsOf(pass) = NeighborColors(v)
    BY <1>4, <1>8, FS_Subset
  <2> QED BY <1>2, <1>3, <1>4, <2>1
<1>10. ASSUME NEW p \in PregsOf(class[v])
       PROVE  \E i \in Vregs : /\ Interferes(i, v)
                               /\ preg[i] = p
                               /\ i <= Reserved \/ CostBefore(i, v)
  <2>1. PICK j \in Neighbors(v) : preg[j] # -1 /\ preg[j] = p
    BY <1>1, <1>9, <1>10 DEF NeighborColors
  <2> QED BY <1>7, <2>1
<1> QED BY <1>1, <1>6, <1>10 DEF AllRegistersHeld

(* What the slots of the spilled vregs are. *)
SlotsInv ==
  /\ stackCount >= locals
  /\ \A v \in Free : Spilled(v) =>
       stackIndex[v] \in {2 + v} \cup (-stackCount .. -locals - 1)
  /\ SpillSlotsDistinct

LEMMA SlotsKept ==
  ASSUME IInv, SlotsInv, [Next]_vars
  PROVE  SlotsInv'
<1> USE DEF IInv
<1>1. CASE UNCHANGED <<stackIndex, stackCount, locals>>
  BY <1>1 DEF SlotsInv, SpillSlotsDistinct, Spilled
<1>2. CASE \E v \in Free : SpillVreg(v)
  <2>1. PICK v \in Free : SpillVreg(v)
    BY <1>2
  <2>2. v \in Vregs /\ v \in Nat /\ stackCount \in Nat /\ locals \in Nat /\ locals' = locals
    BY <2>1, RegisterNumbering DEF StateOK, InputsOK, SpillVreg, inputs
  <2>3. \A u \in Free : u \in Nat /\ u \in Vregs
    BY RegisterNumbering
  <2>4. PICK s : /\ \A u \in Free : stackIndex'[u] = IF u = v THEN s ELSE stackIndex[u]
                 /\ \/ s = 2 + v /\ stackCount' = stackCount
                    \/ s = -stackCount - 1 /\ stackCount' = stackCount + 1
    BY <2>1, <2>2, <2>3 DEF SpillVreg, InputsOK, StateOK
  <2>5. \A u \in Free : Spilled(u)' <=> (u = v \/ Spilled(u))
    BY <2>2, <2>4 DEF Spilled
  <2>6. stackCount' >= locals'
    BY <2>2, <2>4 DEF SlotsInv
  <2>7. \A u \in Free : Spilled(u)' =>
          stackIndex'[u] \in {2 + u} \cup (-stackCount' .. -locals' - 1)
    BY <2>2, <2>3, <2>4, <2>5 DEF SlotsInv
  <2>8. \A u \in Free : Spilled(u)' /\ u # v => stackIndex'[u] # s
    BY <2>2, <2>3, <2>4, <2>5 DEF SlotsInv
  <2>9. SpillSlotsDistinct'
    <3>1. \A u, w \in Free :
            (u # w /\ Spilled(u)' /\ Spilled(w)') => stackIndex'[u] # stackIndex'[w]
      BY <2>4, <2>5, <2>8 DEF SlotsInv, SpillSlotsDistinct
    <3>2. \A u \in Free : Spilled(u)' => stackIndex'[u] \notin -locals' .. -1
      BY <2>2, <2>3, <2>7
    <3> QED BY <3>1, <3>2 DEF SpillSlotsDistinct
  <2> QED BY <2>6, <2>7, <2>9 DEF SlotsInv
<1> QED BY <1>1, <1>2
    DEF Next, Done, vars, inputs, ColorVreg, OrderNodes, TakePreferred, TakeFirstFree, NextPass, RemapPregs

(* A new slot is below all earlier ones, a parameter's slot is above them. *)
THEOREM SlotsDistinct == Spec => []SpillSlotsDistinct
<1>1. Init => SlotsInv
  <2> SUFFICES ASSUME Init PROVE SlotsInv
    OBVIOUS
  <2>1. \A v \in Free : ~Spilled(v)
    BY RegisterNumbering DEF Init, Spilled
  <2>2. stackCount >= locals
    BY CountAssumption DEF Init
  <2> QED BY <2>1, <2>2 DEF SlotsInv, SpillSlotsDistinct
<1>2. IInv /\ SlotsInv /\ [Next]_vars => SlotsInv'
  BY SlotsKept
<1>3. SlotsInv => SpillSlotsDistinct
  BY DEF SlotsInv
<1> QED BY <1>1, <1>2, <1>3, Invariance, PTL DEF Spec

(* What both facts about spilled vregs need to stay true.                  *)
SpilledInv == OrderInv /\ UnconstrainedNeverSpill /\ NoNeedlessSpill

LEMMA SpilledKept ==
  ASSUME IInv, SpilledInv, [Next]_vars
  PROVE  SpilledInv'
<1> USE DEF IInv, SpilledInv
<1>1. OrderInv'
  BY OrderKept
<1>2. ig' = ig /\ class' = class /\ cost' = cost
  BY DEF Next, vars, inputs, ColorVreg, SpillVreg, OrderNodes, TakePreferred, TakeFirstFree,
         NextPass, RemapPregs, Done
<1>3. \A v \in Free : Spilled(v)' => Spilled(v) \/ SpillVreg(v)
  <2> SUFFICES ASSUME NEW v \in Free, Spilled(v)' PROVE Spilled(v) \/ SpillVreg(v)
    OBVIOUS
  <2>1. CASE \E u \in Free : SpillVreg(u)
    <3>1. PICK u \in Free : SpillVreg(u)
      BY <2>1
    <3>2. CASE u # v
      BY <3>1, <3>2, RegisterNumbering DEF SpillVreg, Spilled, StateOK
    <3> QED BY <3>1, <3>2
  <2>2. CASE UNCHANGED stackIndex
    BY <2>2 DEF Spilled
  <2> QED BY <2>1, <2>2
      DEF Next, vars, ColorVreg, OrderNodes, TakePreferred, TakeFirstFree, NextPass, RemapPregs, Done
<1>4. UnconstrainedNeverSpill'
  <2> SUFFICES ASSUME NEW v \in Free, Spilled(v)'
               PROVE  Degree(v) >= RegisterCount(class[v])
    BY <1>2 DEF UnconstrainedNeverSpill, Degree, Interferes, RegisterCount
  <2> QED BY <1>3, SpillIsNeeded DEF UnconstrainedNeverSpill
<1>5. NoNeedlessSpill'
  <2> SUFFICES ASSUME pc' # "done", NEW v \in Free, Spilled(v)', NEW p \in PregsOf(class[v])
               PROVE  \E i \in Vregs : /\ Interferes(i, v)
                                       /\ preg'[i] = p
                                       /\ i <= Reserved \/ CostBefore(i, v)
    BY <1>2 DEF NoNeedlessSpill, AllRegistersHeld, Interferes, CostBefore, PregsOf,
                RegisterCount, LiveRangeStart
  <2>0. class[v] \in Classes /\ p # -1
    BY RegisterNumbering DEF InputsOK, Pregs
  <2>1. pc # "done"
    BY DEF Next, vars, ColorVreg, SpillVreg, OrderNodes, TakePreferred, TakeFirstFree, NextPass,
           RemapPregs, Done
  <2>2. PICK i \in Vregs : Interferes(i, v) /\ preg[i] = p /\ (i <= Reserved \/ CostBefore(i, v))
    <3>1. AllRegistersHeld(v)
      BY <1>3, <2>1, SpillIsNeeded DEF NoNeedlessSpill
    <3> QED BY <3>1 DEF AllRegistersHeld
  <2>3. preg'[i] = preg[i]
    <3>1. CASE i \in Free
      <4>1. CASE \E u \in Free : ColorVreg(u)
        <5>1. PICK u \in Free : ColorVreg(u)
          BY <4>1
        <5>2. ~Placed(u)
          BY <5>1 DEF ColorVreg, SpillVreg, TakePreferred, TakeFirstFree, IsNext, PlaceInv, Waiting
        <5> QED BY <2>0, <2>2, <5>1, <5>2
              DEF ColorVreg, SpillVreg, TakePreferred, TakeFirstFree, Placed, StateOK
      <4>2. CASE ~\E u \in Free : ColorVreg(u)
        BY <2>1, <3>1, <4>2, RegisterNumbering
        DEF Next, vars, OrderNodes, NextPass, RemapPregs, Done
      <4> QED BY <4>1, <4>2
    <3>2. CASE i \in 1 .. Reserved
      <4>1. pc # "order" \/ pass = "SSE"
        BY <2>0, <2>2, <3>2 DEF ReservedInv, StateOK, Classes
      <4>2. pc' # "order" \/ pass' = "SSE"
        BY <4>1 DEF Next, vars, ColorVreg, SpillVreg, OrderNodes, TakePreferred, TakeFirstFree,
                    NextPass, RemapPregs, Done
      <4>3. ReservedInv'
        BY StepInvariant
      <4>4. preg[i] = i - 1
        BY <2>1, <3>2, <4>1 DEF ReservedInv
      <4>5. preg'[i] = i - 1
        BY <3>2, <4>2, <4>3 DEF ReservedInv
      <4> QED BY <4>4, <4>5
    <3> QED BY <3>1, <3>2, RegisterNumbering
  <2> QED BY <2>2, <2>3
<1> QED BY <1>1, <1>4, <1>5

LEMMA SpilledInvariance == Spec => []SpilledInv
<1>1. Init => SpilledInv
  <2> SUFFICES ASSUME Init PROVE SpilledInv
    OBVIOUS
  <2>1. \A v \in Free : ~Spilled(v)
    BY RegisterNumbering DEF Init, Spilled
  <2> QED BY <2>1 DEF SpilledInv, OrderInv, UnconstrainedNeverSpill, NoNeedlessSpill, Init
<1>2. IInv /\ SpilledInv /\ [Next]_vars => SpilledInv'
  BY SpilledKept
<1> QED BY <1>1, <1>2, Invariance, PTL DEF Spec

(* A vreg with fewer neighbours than its class has registers gets one,     *)
(* though it is coloured after all others.                                 *)
THEOREM UnconstrainedColored == Spec => []UnconstrainedNeverSpill
<1>1. SpilledInv => UnconstrainedNeverSpill
  BY DEF SpilledInv
<1> QED BY <1>1, SpilledInvariance, PTL

(* Whatever is spilled had to be: its neighbours hold every register of    *)
(* the class, and each of them was worth at least as much.                 *)
THEOREM SpillsNeeded == Spec => []NoNeedlessSpill
<1>1. SpilledInv => NoNeedlessSpill
  BY DEF SpilledInv
<1> QED BY <1>1, SpilledInvariance, PTL
=============================================================================
