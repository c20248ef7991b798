------------------------------ MODULE Liveness ------------------------------
(***************************************************************************)
(* The vregs that are live at the end of each block: ssa.c, make_liveout.  *)
(*                                                                         *)
(* The blocks are visited in order, again and again, until a pass changes  *)
(* nothing.  Each set has a version; a block whose successors still have   *)
(* the versions it saw last is skipped without looking at their sets.      *)
(***************************************************************************)
EXTENDS Integers

CONSTANTS
  BlockCount,   \* cfg->node_count
  VregSet       \* the vregs of the function

Blocks == 0 .. BlockCount - 1

ASSUME BlockAssumption == BlockCount \in Nat \ {0}

VARIABLES
  \* What make_control_flow_graph and make_uevar_and_varkill found.
  succ,         \* the blocks that edges from a block lead to
  uevar,        \* the vregs a block reads before it writes them
  varkill,      \* the vregs a block writes
  \* The state of make_liveout.
  liveout,
  version,      \* liveout_versions
  seen,         \* successor_liveout_versions, the same for parallel edges
  block,        \* the block that is visited next
  changed,      \* whether this pass changed a set
  pc            \* "visit" or "done"

graph == <<succ, uevar, varkill>>
vars  == <<graph, liveout, version, seen, block, changed, pc>>

-----------------------------------------------------------------------------
(* The unions set of block b, from the sets its successors have in L. *)
Unions(b, L) ==
  {v \in VregSet : \E s \in succ[b] : v \in uevar[s] \/ (v \in L[s] /\ v \notin varkill[s])}

(* No successor has changed since b was computed. *)
Match(b) == \A s \in succ[b] : seen[b][s] = version[s]

(* Slip: the versions start at the value that means "never seen". *)
InitUnseen ==
  /\ succ \in [Blocks -> SUBSET Blocks]
  /\ uevar \in [Blocks -> SUBSET VregSet]
  /\ varkill \in [Blocks -> SUBSET VregSet]
  /\ liveout = [b \in Blocks |-> {}]
  /\ version = [b \in Blocks |-> 0]
  /\ seen = [b \in Blocks |-> [s \in Blocks |-> 0]]
  /\ block = 0
  /\ changed = FALSE
  /\ pc = "visit"

Init ==
  /\ succ \in [Blocks -> SUBSET Blocks]
  /\ uevar \in [Blocks -> SUBSET VregSet]
  /\ varkill \in [Blocks -> SUBSET VregSet]
  /\ liveout = [b \in Blocks |-> {}]
  /\ version = [b \in Blocks |-> 1]
  /\ seen = [b \in Blocks |-> [s \in Blocks |-> 0]]
  /\ block = 0
  /\ changed = FALSE
  /\ pc = "visit"

Visiting == pc = "visit" /\ block < BlockCount

SkipBlock ==
  /\ Visiting
  /\ Match(block)
  /\ block' = block + 1
  /\ UNCHANGED <<graph, liveout, version, seen, changed, pc>>

SeeSuccessors ==
  seen' = [seen EXCEPT ![block] =
             [s \in Blocks |-> IF s \in succ[block] THEN version[s] ELSE @[s]]]

(* Slips: a changed set keeps its version, or the set of unions is not     *)
(* emptied after the block before.                                         *)
RecomputeUnversioned ==
  /\ Visiting
  /\ ~Match(block)
  /\ SeeSuccessors
  /\ liveout' = [liveout EXCEPT ![block] = Unions(block, liveout)]
  /\ changed' = (changed \/ Unions(block, liveout) # liveout[block])
  /\ block' = block + 1
  /\ UNCHANGED <<graph, version, pc>>

RecomputeNotEmptied ==
  /\ Visiting
  /\ ~Match(block)
  /\ SeeSuccessors
  /\ liveout' = [liveout EXCEPT ![block] =
        Unions(block, liveout) \cup (IF block > 0 THEN liveout[block - 1] ELSE {})]
  /\ version' = [version EXCEPT ![block] = @ + 1]
  /\ changed' = TRUE
  /\ block' = block + 1
  /\ UNCHANGED <<graph, pc>>

RecomputeBlock ==
  /\ Visiting
  /\ ~Match(block)
  /\ SeeSuccessors
  /\ IF Unions(block, liveout) # liveout[block]
     THEN /\ liveout' = [liveout EXCEPT ![block] = Unions(block, liveout)]
          /\ version' = [version EXCEPT ![block] = @ + 1]
          /\ changed' = TRUE
     ELSE UNCHANGED <<liveout, version, changed>>
  /\ block' = block + 1
  /\ UNCHANGED <<graph, pc>>

(* Slip: changed is not cleared for the next pass. *)
EndPassStillChanged ==
  /\ pc = "visit"
  /\ block = BlockCount
  /\ IF changed THEN block' = 0 /\ UNCHANGED pc ELSE pc' = "done" /\ UNCHANGED block
  /\ UNCHANGED <<graph, liveout, version, seen, changed>>

EndPass ==
  /\ pc = "visit"
  /\ block = BlockCount
  /\ IF changed
     THEN block' = 0 /\ changed' = FALSE /\ pc' = pc
     ELSE pc' = "done" /\ UNCHANGED <<block, changed>>
  /\ UNCHANGED <<graph, liveout, version, seen>>

Done == pc = "done" /\ UNCHANGED vars

Next == SkipBlock \/ RecomputeBlock \/ EndPass \/ Done

Spec == Init /\ [][Next]_vars

(* The compiler is one sequential program: it always takes its next step. *)
FairSpec == Spec /\ WF_vars(Next)

-----------------------------------------------------------------------------
TypeOK ==
  /\ succ \in [Blocks -> SUBSET Blocks]
  /\ uevar \in [Blocks -> SUBSET VregSet]
  /\ varkill \in [Blocks -> SUBSET VregSet]
  /\ liveout \in [Blocks -> SUBSET VregSet]
  /\ version \in [Blocks -> Nat \ {0}]
  /\ seen \in [Blocks -> [Blocks -> Nat]]
  /\ block \in 0 .. BlockCount
  /\ changed \in BOOLEAN
  /\ pc \in {"visit", "done"}

(* A vreg is live at the end of a block when it is live at the start of a  *)
(* successor: what the loop looks for is a solution of these equations.    *)
Solution(L) == \A b \in Blocks : L[b] = Unions(b, L)

(* The reason why a block may be skipped: with the versions it saw last,   *)
(* computing its set again would give the set it has.                      *)
SkippingIsSafe == \A b \in Blocks : Match(b) => liveout[b] = Unions(b, liveout)

(* When the loop ends, the sets solve the equations: no vreg that is read  *)
(* later is missing.                                                       *)
NothingMissing == pc = "done" => Solution(liveout)

(* No vreg is ever in a set without need: each set is a part of the        *)
(* corresponding set of every solution, so the result is the least one.    *)
NothingSpurious ==
  \A L \in [Blocks -> SUBSET VregSet] :
    Solution(L) => \A b \in Blocks : liveout[b] \subseteq L[b]

(* A pass that changes something only adds vregs, and tells so by a new    *)
(* version of the set it changes and of no other.                          *)
SetsGrow ==
  [][\A b \in Blocks :
       /\ liveout[b] \subseteq liveout'[b]
       /\ liveout'[b] # liveout[b] <=> version'[b] # version[b]]_vars

(* The loop ends. *)
Termination == <>(pc = "done")
=============================================================================
