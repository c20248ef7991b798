---------------------------- MODULE PhiInsertion ----------------------------
(***************************************************************************)
(* Where phi functions are needed: the work list of ssa.c,                 *)
(* insert_phi_functions.  A vreg that several blocks know gets one in the  *)
(* dominance frontier of each block that writes it, and as a phi function  *)
(* writes it too, in the frontiers of these blocks as well.                *)
(***************************************************************************)
EXTENDS Integers

VARIABLES
  df,          \* dominance_frontiers, block -> blocks
  varBlocks,   \* vreg -> the blocks that write it
  globals,     \* the vregs that some block reads before it writes them
  phis,        \* phi_functions, block -> vregs
  left,        \* the globals that are not taken yet
  global,      \* the one that is
  work         \* its work_list

inputs  == <<df, varBlocks, globals>>
phiVars == <<inputs, phis, left, global, work>>

InitPhis ==
  /\ phis = [b \in DOMAIN df |-> {}]
  /\ left = globals
  /\ global = 0
  /\ work = {}

TakeGlobal ==
  /\ work = {}
  /\ left # {}
  /\ \E v \in left :
       /\ \A u \in left : v <= u
       /\ global' = v
       /\ left' = left \ {v}
       /\ work' = varBlocks[v]
  /\ UNCHANGED <<inputs, phis>>

(* Slip: a block that gets a phi function is not put on the work list.     *)
TakeBlockOnce ==
  /\ \E b \in work :
       /\ phis' = [d \in DOMAIN phis |-> IF d \in df[b] THEN phis[d] \cup {global} ELSE phis[d]]
       /\ work' = work \ {b}
  /\ UNCHANGED <<inputs, left, global>>

(* The result does not depend on the order blocks are taken in, which is   *)
(* left open here.                                                         *)
TakeBlock ==
  /\ \E b \in work :
       /\ phis' = [d \in DOMAIN phis |-> IF d \in df[b] THEN phis[d] \cup {global} ELSE phis[d]]
       /\ work' = (work \ {b}) \cup {d \in df[b] : global \notin phis[d]}
  /\ UNCHANGED <<inputs, left, global>>

PhiNext == TakeGlobal \/ TakeBlock

InsertionDone == left = {} /\ work = {}

(* The function on its own: any frontiers, and any globals.                *)
PhiSpec(blocks, vregs) ==
  /\ df \in [blocks -> SUBSET blocks]
  /\ varBlocks \in [vregs -> SUBSET blocks]
  /\ globals \in SUBSET vregs
  /\ InitPhis
  /\ [][PhiNext]_phiVars

-----------------------------------------------------------------------------
Placed(v) == {b \in DOMAIN phis : v \in phis[b]}

(* The blocks in S are closed under what asks for phi functions of v. *)
Closed(v, S) == \A b \in varBlocks[v] \cup S : df[b] \subseteq S

(* Every global has a phi function wherever the frontier of a block that   *)
(* writes it, or of one of its phi functions, asks for one, and no phi     *)
(* function is there that this does not ask for.                           *)
PhisAreLeast ==
  InsertionDone =>
    \A v \in globals :
      /\ Closed(v, Placed(v))
      /\ \A S \in SUBSET DOMAIN phis : Closed(v, S) => Placed(v) \subseteq S
=============================================================================
