------------------------- MODULE RegisterAllocation -------------------------
(***************************************************************************)
(* Graph-colouring register allocation of one function: regalloc.c,        *)
(* allocate_registers and the functions it calls.                          *)
(*                                                                         *)
(* Vregs are numbered from 1.  The first NumInt + NumSse of them stand for *)
(* the allocatable physical registers (the "reserved" live ranges: integer *)
(* registers first, then the xmm registers); the others, the free vregs,   *)
(* are the live ranges of the function.  A pass over each register class   *)
(* colours the free vregs of that class, most constrained first, and gives *)
(* a stack slot to the ones that have no register left.                    *)
(***************************************************************************)
EXTENDS Integers, FiniteSets

CONSTANTS
  NumInt,       \* PHYSICAL_INT_REGISTER_COUNT
  NumSse,       \* PHYSICAL_SSE_REGISTER_COUNT
  VregCount,    \* function->vreg_count
  PregMap,      \* preg_map: number of a reserved register -> x86_64 register
  Costs,        \* the values a spill cost may have
  Edges,        \* the edges an interference graph may have
  PushedParams, \* the vregs that may be loaded from a pushed parameter
  MaxLocals     \* bound on the stack slots in use when allocation starts

Reserved == NumInt + NumSse       \* live_range_reserved_pregs_offset
Vregs    == 1 .. VregCount
Free     == Reserved + 1 .. VregCount
Pregs    == 0 .. Reserved - 1
Classes  == {"INT", "SSE"}        \* PC_INT, PC_SSE

ASSUME CountAssumption ==
  /\ NumInt \in Nat \ {0}
  /\ NumSse \in Nat \ {0}
  /\ VregCount \in Nat
  /\ VregCount >= NumInt + NumSse
  /\ MaxLocals \in Nat

\* Init of the register file: no two reserved registers are the same one.
ASSUME PregMapAssumption ==
  /\ PregMap \in [Pregs -> Nat]
  /\ \A i, j \in Pregs : PregMap[i] = PregMap[j] => i = j

ASSUME InputAssumption == Costs \subseteq Int /\ PushedParams \subseteq Free

\* add_ig_edge stores an edge once, under its smaller vreg; an X_SUB gives its
\* dst, which is its src2 too, an edge to itself.
ASSUME EdgeAssumption == Edges \subseteq {e \in Vregs \X Vregs : e[1] <= e[2]}

VARIABLES
  \* What the earlier phases hand over; the allocator only reads it.
  ig,           \* interference_graph
  class,        \* vreg_preg_classes of the free vregs
  cost,         \* spill_cost
  preferred,    \* preferred_live_range_preg_indexes, 0 for none
  origStack,    \* make_original_stack_indexes: slot of a pushed parameter, or 0
  locals,       \* stack_register_count when allocation starts
  \* The state of the allocator.
  preg,         \* vreg_locations[].preg, -1 when there is none
  stackIndex,   \* vreg_locations[].stack_index, 0 when there is none
  stackCount,   \* stack_register_count
  pass,         \* the class being coloured
  todo,         \* vregs of the class that are not coloured yet
  pc            \* "order", "colour", "remap" or "done"

inputs == <<ig, class, cost, preferred, origStack, locals>>
vars   == <<inputs, preg, stackIndex, stackCount, pass, todo, pc>>

-----------------------------------------------------------------------------
(* The registers of a class, as indexes of reserved vregs and as pregs. *)
RegisterCount(c) == IF c = "INT" THEN NumInt ELSE NumSse
LiveRangeStart(c) == IF c = "INT" THEN 1 ELSE NumInt + 1
ReservedOf(c) == LiveRangeStart(c) .. LiveRangeStart(c) + RegisterCount(c) - 1

(* Slips of the kind each property is there to catch are defined next to   *)
(* the definitions they would replace, and are used by nothing else.       *)
PregsOfOneShort(c) == LiveRangeStart(c) - 1 .. LiveRangeStart(c) + RegisterCount(c) - 3
PregsOf(c) == LiveRangeStart(c) - 1 .. LiveRangeStart(c) + RegisterCount(c) - 2

InterferesOneWay(i, v) == <<i, v>> \in ig

(* ig is a triangular matrix: the row is the smaller vreg. *)
Interferes(i, v) == <<i, v>> \in ig \/ <<v, i>> \in ig

(* graph_node_degree *)
Degree(v) == Cardinality({i \in Vregs : Interferes(i, v)})

(* The constrained, preferred_pregs and unconstrained sets, in the order   *)
(* in which they are coloured.                                             *)
Constrained(v) == Degree(v) >= RegisterCount(pass)
Bucket(v) == IF Constrained(v) THEN 1 ELSE IF preferred[v] # 0 THEN 2 ELSE 3

(* vreg_cost_cmpfunc: the highest cost first, then the lowest vreg. *)
CostBefore(u, v) == cost[u] > cost[v] \/ (cost[u] = cost[v] /\ u < v)

(* Slip: the vregs are not sorted. *)
BeforeByNumber(u, v) == u < v

(* u is coloured before v in this pass. *)
Before(u, v) ==
  \/ Bucket(u) < Bucket(v)
  \/ Bucket(u) = Bucket(v) /\ CostBefore(u, v)

IsNext(v) == v \in todo /\ \A u \in todo \ {v} : Before(v, u)

(* neighbor_colors of color_vreg: reserved vregs of the other class are    *)
(* left out.                                                               *)
Neighbors(v) == {i \in Vregs : Interferes(i, v) /\ (i <= Reserved => i \in ReservedOf(pass))}
NeighborColors(v) == {preg[i] : i \in {j \in Neighbors(v) : preg[j] # -1}}
FreeColors(v) == PregsOf(pass) \ NeighborColors(v)

-----------------------------------------------------------------------------
(* The state init_vreg_locations leaves, for every function the earlier    *)
(* phases may hand over: a clobbered register may interfere with any vreg, *)
(* two live ranges interfere only within their class, a register is only   *)
(* preferred by a vreg of its class, and two parameters that were pushed   *)
(* by the caller have different slots, above the return address.           *)
Init ==
  /\ class \in [Free -> Classes]
  /\ ig \in SUBSET {e \in Edges : e[1] <= Reserved \/ class[e[1]] = class[e[2]]}
  /\ cost \in [Free -> Costs]
  /\ preferred \in [Free -> 0 .. Reserved]
  /\ \A v \in Free : preferred[v] # 0 => preferred[v] \in ReservedOf(class[v])
  /\ \E pushed \in SUBSET PushedParams :
       origStack = [v \in Free |-> IF v \in pushed THEN 2 + v ELSE 0]
  /\ locals \in 0 .. MaxLocals
  /\ preg = [v \in Vregs |-> -1]
  /\ stackIndex = [v \in Vregs |-> 0]
  /\ stackCount = locals
  /\ pass = "INT"
  /\ todo = {}
  /\ pc = "order"

(* allocate_registers_top_down up to the colouring: collect the vregs of   *)
(* the class and pre-colour the reserved ones.                             *)
OrderNodes ==
  /\ pc = "order"
  /\ todo' = {v \in Free : class[v] = pass}
  /\ preg' = [v \in Vregs |-> IF v <= Reserved THEN v - 1 ELSE preg[v]]
  /\ pc' = "colour"
  /\ UNCHANGED <<inputs, stackIndex, stackCount, pass>>

(* Slips: a vreg is spilled while one register is left, or the slot is not *)
(* counted.                                                                *)
SpillVregEarly(v) ==
  /\ pc = "colour"
  /\ IsNext(v)
  /\ Cardinality(NeighborColors(v)) >= RegisterCount(pass) - 1
  /\ stackIndex' = [stackIndex EXCEPT ![v] = -stackCount - 1]
  /\ stackCount' = stackCount + 1
  /\ todo' = todo \ {v}
  /\ UNCHANGED <<inputs, preg, pass, pc>>

SpillVregUncounted(v) ==
  /\ pc = "colour"
  /\ IsNext(v)
  /\ Cardinality(NeighborColors(v)) >= RegisterCount(pass)
  /\ stackIndex' = [stackIndex EXCEPT ![v] = IF origStack[v] # 0 THEN origStack[v] ELSE -stackCount - 1]
  /\ todo' = todo \ {v}
  /\ UNCHANGED <<inputs, preg, stackCount, pass, pc>>

(* color_vreg, when the neighbours use as many colours as there are. *)
SpillVreg(v) ==
  /\ pc = "colour"
  /\ IsNext(v)
  /\ Cardinality(NeighborColors(v)) >= RegisterCount(pass)
  /\ IF origStack[v] # 0
     THEN /\ stackIndex' = [stackIndex EXCEPT ![v] = origStack[v]]
          /\ UNCHANGED stackCount
     ELSE /\ stackIndex' = [stackIndex EXCEPT ![v] = -stackCount - 1]
          /\ stackCount' = stackCount + 1
  /\ todo' = todo \ {v}
  /\ UNCHANGED <<inputs, preg, pass, pc>>

(* Whether color_vreg is told of the preferred register of v and may use it. *)
PreferredIsFree(v) ==
  Bucket(v) = 2 /\ preg[preferred[v]] \notin NeighborColors(v)

(* The rest of color_vreg: the preferred register, or the first free one. *)
TakePreferred(v) ==
  /\ pc = "colour"
  /\ IsNext(v)
  /\ Cardinality(NeighborColors(v)) < RegisterCount(pass)
  /\ PreferredIsFree(v)
  /\ preg' = [preg EXCEPT ![v] = preg[preferred[v]]]
  /\ todo' = todo \ {v}
  /\ UNCHANGED <<inputs, stackIndex, stackCount, pass, pc>>

TakeFirstFree(v) ==
  /\ pc = "colour"
  /\ IsNext(v)
  /\ Cardinality(NeighborColors(v)) < RegisterCount(pass)
  /\ ~PreferredIsFree(v)
  /\ \E p \in FreeColors(v) :
       /\ \A q \in FreeColors(v) : p <= q
       /\ preg' = [preg EXCEPT ![v] = p]
  /\ todo' = todo \ {v}
  /\ UNCHANGED <<inputs, stackIndex, stackCount, pass, pc>>

(* Slip: there is no floating point pass. *)
NoSsePass ==
  /\ pc = "colour"
  /\ todo = {}
  /\ pc' = "remap"
  /\ UNCHANGED <<inputs, preg, stackIndex, stackCount, pass, todo>>

(* allocate_registers: the floating point pass follows the integer pass. *)
NextPass ==
  /\ pc = "colour"
  /\ todo = {}
  /\ IF pass = "INT"
     THEN pass' = "SSE" /\ pc' = "order"
     ELSE pass' = pass /\ pc' = "remap"
  /\ UNCHANGED <<inputs, preg, stackIndex, stackCount, todo>>

(* allocate_registers: reserved register numbers become x86_64 ones. *)
RemapPregs ==
  /\ pc = "remap"
  /\ preg' = [v \in Vregs |-> IF preg[v] # -1 THEN PregMap[preg[v]] ELSE -1]
  /\ pc' = "done"
  /\ UNCHANGED <<inputs, stackIndex, stackCount, pass, todo>>

(* The phase is over. *)
Done == pc = "done" /\ UNCHANGED vars

ColorVreg(v) == SpillVreg(v) \/ TakePreferred(v) \/ TakeFirstFree(v)

Next ==
  \/ OrderNodes
  \/ \E v \in Free : ColorVreg(v)
  \/ NextPass
  \/ RemapPregs
  \/ Done

Spec == Init /\ [][Next]_vars

-----------------------------------------------------------------------------
Placed(v)  == preg[v] # -1
Spilled(v) == stackIndex[v] # 0

(* Every variable has its type. *)
TypeOK ==
  /\ ig \subseteq Vregs \X Vregs
  /\ class \in [Free -> Classes]
  /\ cost \in [Free -> Int]
  /\ preferred \in [Free -> 0 .. Reserved]
  /\ origStack \in [Free -> Nat]
  /\ locals \in Nat
  /\ preg \in [Vregs -> Int]
  /\ stackIndex \in [Vregs -> Int]
  /\ stackCount \in Nat
  /\ pass \in Classes
  /\ todo \subseteq Free
  /\ pc \in {"order", "colour", "remap", "done"}

(* Two live ranges that are alive together never share a register, neither *)
(* during the passes nor after the renumbering to x86_64 registers: nor    *)
(* does one hold a register that is clobbered while it is alive.           *)
NoSharedRegister ==
  \A u, v \in Vregs :
    (u # v /\ Interferes(u, v) /\ Placed(u) /\ Placed(v) /\ ~(u <= Reserved /\ v <= Reserved))
      => preg[u] # preg[v]

(* panic("Should not get here") of color_vreg is out of reach: when a vreg *)
(* is not spilled, a register of the class is left for it.                 *)
NeverPanics ==
  pc = "colour" =>
    \A v \in todo :
      Cardinality(NeighborColors(v)) < RegisterCount(pass) => FreeColors(v) # {}

(* The reason to colour unconstrained vregs last: they always find a       *)
(* register, whatever was chosen for the vregs before them.                *)
UnconstrainedNeverSpill ==
  \A v \in Free : Spilled(v) => Degree(v) >= RegisterCount(class[v])

(* Each register of the class of v is clobbered while v is alive, or held  *)
(* by a live range v interferes with and that costs at least as much.      *)
AllRegistersHeld(v) ==
  \A p \in PregsOf(class[v]) :
    \E i \in Vregs :
      /\ Interferes(i, v)
      /\ preg[i] = p
      /\ i <= Reserved \/ CostBefore(i, v)

(* A vreg goes to the stack only when there is no register for it, and the *)
(* live ranges that have them are worth at least as much.                  *)
NoNeedlessSpill ==
  pc # "done" => \A v \in Free : Spilled(v) => AllRegistersHeld(v)

(* Two spilled vregs never share a stack slot, and none takes the slot of  *)
(* a local variable.                                                       *)
SpillSlotsDistinct ==
  /\ \A u, v \in Free :
       (u # v /\ Spilled(u) /\ Spilled(v)) => stackIndex[u] # stackIndex[v]
  /\ \A v \in Free : Spilled(v) => stackIndex[v] \notin -locals .. -1

(* After the two passes every live range has exactly one place, in a       *)
(* register of its own class when it has a register.                       *)
EveryVregPlaced ==
  pc \in {"remap", "done"} =>
    \A v \in Free :
      /\ Placed(v) <=> ~Spilled(v)
      /\ Placed(v) =>
           \E p \in PregsOf(class[v]) : preg[v] = IF pc = "done" THEN PregMap[p] ELSE p

(* A place is final: no step takes a vreg out of its register or slot      *)
(* before the renumbering, or changes a slot after it.                     *)
PlacementIsFinal ==
  [][\A v \in Free :
       /\ Placed(v) /\ pc' # "done" => preg'[v] = preg[v]
       /\ Spilled(v) => stackIndex'[v] = stackIndex[v] /\ preg'[v] = -1]_vars
=============================================================================
