------------------------ MODULE PhiInsertion_proofs -------------------------
(***************************************************************************)
(* Proofs about PhiInsertion, for every set of blocks with any dominance   *)
(* frontiers, every set of vregs, and every order blocks are taken in.     *)
(***************************************************************************)
EXTENDS PhiInsertion, TLAPS

(* The blocks of the flow graph, and the vregs that some block writes.     *)
FlowBlocks == DOMAIN df
Vregs == DOMAIN varBlocks

TypeInv ==
  /\ df \in [FlowBlocks -> SUBSET FlowBlocks]
  /\ varBlocks \in [Vregs -> SUBSET FlowBlocks]
  /\ globals \in SUBSET Vregs
  /\ phis \in [FlowBlocks -> SUBSET globals]
  /\ left \in SUBSET globals
  /\ work \in SUBSET FlowBlocks

(* There is work for a global that has been taken, in blocks that write    *)
(* it and in blocks that have a phi function for it.                       *)
WorkInv ==
  work # {} => global \in globals \ left /\ work \subseteq varBlocks[global] \cup Placed(global)

(* A global that was not taken has no phi functions. *)
LeftInv == \A v \in left : Placed(v) = {}

(* What is not on the work list any more has its phi functions. *)
TakenInv ==
  \A v \in globals \ left :
    \A b \in varBlocks[v] \cup Placed(v) :
      v # global \/ b \notin work => df[b] \subseteq Placed(v)

(* No phi function is there without need. *)
NeedInv ==
  \A v \in globals : \A S \in SUBSET FlowBlocks : Closed(v, S) => Placed(v) \subseteq S

IInv == TypeInv /\ WorkInv /\ LeftInv /\ TakenInv /\ NeedInv

-----------------------------------------------------------------------------
USE DEF FlowBlocks, Vregs

LEMMA InitInvariant ==
  ASSUME df \in [FlowBlocks -> SUBSET FlowBlocks], varBlocks \in [Vregs -> SUBSET FlowBlocks],
         globals \in SUBSET Vregs, InitPhis
  PROVE  IInv
<1>1. TypeInv
  BY DEF InitPhis, TypeInv
<1>2. \A v : Placed(v) = {}
  BY DEF InitPhis, Placed
<1>3. WorkInv /\ LeftInv /\ TakenInv /\ NeedInv
  BY <1>2 DEF InitPhis, WorkInv, LeftInv, TakenInv, NeedInv
<1> QED BY <1>1, <1>3 DEF IInv

(* Taking a global changes no phi function. *)
LEMMA TakeGlobalKeepsInvariant == IInv /\ TakeGlobal => IInv'
<1> SUFFICES ASSUME IInv, TakeGlobal PROVE IInv'
  OBVIOUS
<1> USE DEF IInv
<1>1. PICK v \in left : global' = v /\ left' = left \ {v} /\ work' = varBlocks[v]
  BY DEF TakeGlobal
<1>2. work = {} /\ UNCHANGED <<df, varBlocks, globals, phis>>
  BY DEF TakeGlobal, inputs
<1>3. \A u : Placed(u)' = Placed(u)
  BY <1>2 DEF Placed
<1>4. v \in globals
  BY <1>1 DEF TypeInv
<1>5. TypeInv'
  BY <1>1, <1>2, <1>4 DEF TypeInv
<1>6. WorkInv' /\ LeftInv'
  BY <1>1, <1>2, <1>3, <1>4 DEF WorkInv, LeftInv
<1>7. TakenInv'
  <2> SUFFICES ASSUME NEW u \in globals \ left', NEW b \in varBlocks[u] \cup Placed(u),
                      u # v \/ b \notin varBlocks[v]
               PROVE  df[b] \subseteq Placed(u)
    BY <1>1, <1>2, <1>3 DEF TakenInv
  <2>1. CASE u = v
    BY <2>1, <1>1 DEF LeftInv
  <2>2. CASE u # v
    BY <2>2, <1>1, <1>2 DEF TakenInv
  <2> QED BY <2>1, <2>2
<1>8. NeedInv'
  BY <1>2, <1>3 DEF NeedInv, Closed
<1> QED BY <1>5, <1>6, <1>7, <1>8

(* The heart of the matter: a block's frontier gets phi functions.         *)
LEMMA TakeBlockKeepsInvariant == IInv /\ TakeBlock => IInv'
<1> SUFFICES ASSUME IInv, TakeBlock PROVE IInv'
  OBVIOUS
<1> USE DEF IInv
<1>1. PICK b \in work :
        /\ phis' = [d \in DOMAIN phis |-> IF d \in df[b] THEN phis[d] \cup {global} ELSE phis[d]]
        /\ work' = (work \ {b}) \cup {d \in df[b] : global \notin phis[d]}
  BY DEF TakeBlock
<1>2. UNCHANGED <<df, varBlocks, globals, left, global>>
  BY DEF TakeBlock, inputs
<1>3. /\ b \in FlowBlocks /\ df[b] \subseteq FlowBlocks
      /\ global \in globals /\ global \notin left
      /\ b \in varBlocks[global] \cup Placed(global)
  BY <1>1 DEF TypeInv, WorkInv
<1>4. TypeInv'
  BY <1>1, <1>2, <1>3 DEF TypeInv
<1>5. DOMAIN phis = FlowBlocks /\ DOMAIN phis' = FlowBlocks
  BY <1>2, <1>4 DEF TypeInv
<1>6. \A v : v # global => Placed(v)' = Placed(v)
  BY <1>1, <1>5 DEF Placed
<1>7. \A v : v = global => Placed(v)' = Placed(v) \cup df[b]
  BY <1>1, <1>2, <1>3, <1>5 DEF Placed
<1>8. work' = (work \ {b}) \cup (df[b] \ Placed(global))
  BY <1>1, <1>3, <1>5 DEF Placed
<1>9. WorkInv'
  BY <1>2, <1>3, <1>7, <1>8 DEF WorkInv
<1>10. LeftInv'
  BY <1>2, <1>3, <1>6 DEF LeftInv
<1>11. TakenInv'
  <2> SUFFICES ASSUME NEW v \in globals \ left, NEW c \in varBlocks[v] \cup Placed(v)',
                      v # global \/ c \notin work'
               PROVE  df[c] \subseteq Placed(v)'
    BY <1>2 DEF TakenInv
  <2>1. CASE v # global
    BY <2>1, <1>6 DEF TakenInv
  <2>2. CASE v = global /\ c = b
    BY <2>2, <1>7
  <2>3. CASE v = global /\ c # b
    <3>1. c \in varBlocks[global] \cup Placed(global) /\ c \notin work
      BY <2>3, <1>7, <1>8
    <3>2. df[c] \subseteq Placed(global)
      BY <3>1, <1>3 DEF TakenInv
    <3> QED BY <3>2, <2>3, <1>7
  <2> QED BY <2>1, <2>2, <2>3
<1>12. NeedInv'
  <2> SUFFICES ASSUME NEW v \in globals, NEW S \in SUBSET FlowBlocks, Closed(v, S)
               PROVE  Placed(v)' \subseteq S
    BY <1>2 DEF NeedInv, Closed
  <2>1. Placed(v) \subseteq S
    BY DEF NeedInv
  <2>2. CASE v # global
    BY <2>1, <2>2, <1>6
  <2>3. CASE v = global
    <3>1. df[b] \subseteq S
      BY <2>1, <2>3, <1>3 DEF Closed
    <3> QED BY <3>1, <2>1, <2>3, <1>7
  <2> QED BY <2>2, <2>3
<1> QED BY <1>4, <1>9, <1>10, <1>11, <1>12

(* The work list keeps phi functions where they are needed and nowhere     *)
(* else, at every step of insert_phi_functions.                            *)
THEOREM InductiveInvariant ==
  ASSUME NEW CONSTANT B, NEW CONSTANT V
  PROVE  PhiSpec(B, V) => []IInv
<1>1. ASSUME df \in [B -> SUBSET B], varBlocks \in [V -> SUBSET B],
             globals \in SUBSET V, InitPhis
      PROVE  IInv
  BY <1>1, InitInvariant
<1>2. ASSUME IInv, [PhiNext]_phiVars
      PROVE  IInv'
  <2>1. CASE UNCHANGED phiVars
    BY <2>1, <1>2 DEF phiVars, inputs, IInv, TypeInv, WorkInv, LeftInv, TakenInv, NeedInv,
                      Placed, Closed
  <2> QED BY <2>1, <1>2, TakeGlobalKeepsInvariant, TakeBlockKeepsInvariant DEF PhiNext
<1> QED BY <1>1, <1>2, PTL DEF PhiSpec

(* When the work lists are empty, the invariant says what was promised.    *)
LEMMA InvariantSuffices == IInv => PhisAreLeast
<1> SUFFICES ASSUME IInv, InsertionDone, NEW v \in globals
             PROVE  /\ Closed(v, Placed(v))
                    /\ \A S \in SUBSET DOMAIN phis : Closed(v, S) => Placed(v) \subseteq S
  BY DEF PhisAreLeast
<1>1. Closed(v, Placed(v))
  BY DEF IInv, TakenInv, Closed, InsertionDone
<1>2. DOMAIN phis = FlowBlocks
  BY DEF IInv, TypeInv
<1>3. \A S \in SUBSET DOMAIN phis : Closed(v, S) => Placed(v) \subseteq S
  BY <1>2 DEF IInv, NeedInv
<1> QED BY <1>1, <1>3

(* insert_phi_functions: when the work lists are empty, the phi functions  *)
(* of each global are the least that dominance frontiers ask for, for      *)
(* every flow graph and whichever block the work list has next.            *)
THEOREM LeastPhis ==
  ASSUME NEW CONSTANT B, NEW CONSTANT V
  PROVE  PhiSpec(B, V) => []PhisAreLeast
<1>1. IInv => PhisAreLeast
  BY InvariantSuffices
<1> QED BY <1>1, InductiveInvariant, PTL
=============================================================================
