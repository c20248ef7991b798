--------------------------- MODULE Liveness_proofs ---------------------------
(***************************************************************************)
(* Proofs about Liveness, for every flow graph and every set of vregs.     *)
(***************************************************************************)
EXTENDS Liveness, TLAPS

(* The type of the variables is the part of the invariant that says what   *)
(* the functions are defined on.                                           *)
(* No block has seen a version that does not exist yet, so a new version   *)
(* of a set always unmatches the blocks that depend on it.                 *)
SeenInv == \A b, s \in Blocks : seen[b][s] <= version[s]

(* As long as a pass changes nothing, the blocks it visited match. *)
PassInv ==
  /\ ~changed => \A b \in Blocks : b < block => Match(b)
  /\ pc = "done" => block = BlockCount /\ ~changed

(* The sets only grow, whatever is recomputed in whatever order. *)
GrowInv == \A b \in Blocks : liveout[b] \subseteq Unions(b, liveout)

IInv == TypeOK /\ SeenInv /\ PassInv /\ SkippingIsSafe /\ GrowInv /\ NothingSpurious

-----------------------------------------------------------------------------
(* Larger sets of the successors give a larger set. *)
LEMMA UnionsMonotone ==
  ASSUME TypeOK, NEW K, NEW L, \A b \in Blocks : K[b] \subseteq L[b], NEW c \in Blocks
  PROVE  Unions(c, K) \subseteq Unions(c, L)
  BY DEF Unions, TypeOK

LEMMA InitInvariant == Init => IInv
<1> SUFFICES ASSUME Init PROVE IInv
  OBVIOUS
<1>1. TypeOK
  <2>1. changed \in BOOLEAN
    BY DEF Init
  <2>2. block \in 0 .. BlockCount
    BY BlockAssumption DEF Init
  <2> QED BY <2>1, <2>2 DEF TypeOK, Init
<1>2. SeenInv /\ PassInv /\ GrowInv /\ NothingSpurious
  BY DEF SeenInv, PassInv, GrowInv, NothingSpurious, Init, Blocks
<1>3. SkippingIsSafe
  BY DEF SkippingIsSafe, Match, Unions, Init
<1> QED BY <1>1, <1>2, <1>3 DEF IInv

(* Nothing but pc, block and changed matters for the sets. *)
LEMMA SetsUnchanged ==
  ASSUME SeenInv, SkippingIsSafe, GrowInv, NothingSpurious,
         UNCHANGED <<succ, uevar, varkill, liveout, version, seen>>
  PROVE  SeenInv' /\ SkippingIsSafe' /\ GrowInv' /\ NothingSpurious'
<1>1. \A L, b : Unions(b, L) = {v \in VregSet : \E s \in succ'[b] :
                                  v \in uevar'[s] \/ (v \in L[s] /\ v \notin varkill'[s])}
  BY DEF Unions
<1>2. \A b : Match(b)' <=> Match(b)
  BY DEF Match
<1>3. SeenInv'
  BY DEF SeenInv
<1>4. SkippingIsSafe' /\ GrowInv'
  BY <1>1, <1>2 DEF SkippingIsSafe, GrowInv, Unions
<1>5. NothingSpurious'
  BY <1>1 DEF NothingSpurious, Solution, Unions
<1> QED BY <1>3, <1>4, <1>5

LEMMA SkipKeepsInvariant == IInv /\ SkipBlock => IInv'
<1> SUFFICES ASSUME IInv, SkipBlock PROVE IInv'
  OBVIOUS
<1> USE DEF IInv
<1>1. SeenInv' /\ SkippingIsSafe' /\ GrowInv' /\ NothingSpurious'
  BY SetsUnchanged DEF SkipBlock, graph
<1>2. TypeOK'
  BY BlockAssumption DEF TypeOK, SkipBlock, Visiting, graph
<1>3. PassInv'
  BY DEF PassInv, Match, Blocks, TypeOK, SkipBlock, Visiting, graph
<1> QED BY <1>1, <1>2, <1>3

(* The heart of the matter: recomputing a block. *)
LEMMA RecomputeKeepsInvariant == IInv /\ RecomputeBlock => IInv'
<1> SUFFICES ASSUME IInv, RecomputeBlock PROVE IInv'
  OBVIOUS
<1> USE DEF IInv
<1>1. /\ block \in Blocks /\ pc = "visit" /\ pc' = pc /\ block' = block + 1
      /\ UNCHANGED <<succ, uevar, varkill>>
  BY BlockAssumption DEF RecomputeBlock, SeeSuccessors, Visiting, TypeOK, Blocks, graph
<1> DEFINE new == Unions(block, liveout)
<1>2. \A b \in Blocks : liveout'[b] = IF b = block THEN new ELSE liveout[b]
  BY <1>1 DEF RecomputeBlock, SeeSuccessors, TypeOK
<1>3. /\ \A b \in Blocks : b # block => version'[b] = version[b]
      /\ new = liveout[block] => UNCHANGED <<liveout, version, changed>>
      /\ new # liveout[block] => version'[block] = version[block] + 1 /\ changed'
  BY <1>1 DEF RecomputeBlock, SeeSuccessors, TypeOK
<1>4. \A b, s \in Blocks :
        seen'[b][s] = IF b = block /\ s \in succ[b] THEN version[s] ELSE seen[b][s]
  BY <1>1 DEF RecomputeBlock, SeeSuccessors, TypeOK
<1>5. \A b \in Blocks : version[b] \in Nat \ {0} /\ succ[b] \subseteq Blocks
  BY DEF TypeOK
<1>6. TypeOK'
  <2>1. new \subseteq VregSet
    BY DEF Unions
  <2>2. liveout' \in [Blocks -> SUBSET VregSet]
    BY <1>1, <2>1 DEF RecomputeBlock, SeeSuccessors, TypeOK
  <2>3. version' \in [Blocks -> Nat \ {0}]
    BY <1>1 DEF RecomputeBlock, SeeSuccessors, TypeOK
  <2>4. seen' \in [Blocks -> [Blocks -> Nat]]
    BY <1>1 DEF RecomputeBlock, SeeSuccessors, TypeOK
  <2>5. changed' \in BOOLEAN
    BY DEF RecomputeBlock, SeeSuccessors, TypeOK
  <2>6. block' \in 0 .. BlockCount
    BY <1>1, BlockAssumption DEF Blocks
  <2> QED BY <1>1, <2>2, <2>3, <2>4, <2>5, <2>6 DEF TypeOK
<1>7. SeenInv'
  <2> SUFFICES ASSUME NEW b \in Blocks, NEW s \in Blocks PROVE seen'[b][s] <= version'[s]
    BY DEF SeenInv
  <2>1. seen[b][s] \in Nat /\ version[s] \in Nat /\ seen[b][s] <= version[s]
    BY DEF SeenInv, TypeOK
  <2>2. version'[s] = version[s] \/ version'[s] = version[s] + 1
    BY <1>3
  <2> QED BY <1>4, <2>1, <2>2
<1>8. \A b \in Blocks : liveout[b] \subseteq liveout'[b]
  BY <1>2 DEF GrowInv
<1>9. \A L, b : {v \in VregSet : \E s \in succ'[b] :
                   v \in uevar'[s] \/ (v \in L[s] /\ v \notin varkill'[s])} = Unions(b, L)
  BY <1>1 DEF Unions
<1>10. GrowInv'
  <2>0. \A b \in Blocks : Unions(b, liveout)' = Unions(b, liveout')
    BY <1>1 DEF Unions
  <2> SUFFICES ASSUME NEW b \in Blocks PROVE liveout'[b] \subseteq Unions(b, liveout')
    BY <2>0 DEF GrowInv
  <2>1. Unions(b, liveout) \subseteq Unions(b, liveout')
    BY <1>8, UnionsMonotone
  <2> QED BY <1>2, <2>1 DEF GrowInv
<1>11. NothingSpurious'
  <2> SUFFICES ASSUME NEW L \in [Blocks -> SUBSET VregSet], Solution(L), NEW b \in Blocks
               PROVE  liveout'[b] \subseteq L[b]
    BY <1>9 DEF NothingSpurious, Solution, Unions
  <2>1. \A c \in Blocks : liveout[c] \subseteq L[c]
    BY DEF NothingSpurious
  <2>2. Unions(b, liveout) \subseteq Unions(b, L)
    BY <2>1, UnionsMonotone
  <2> QED BY <1>2, <2>1, <2>2 DEF Solution
<1>12. SkippingIsSafe'
  <2> SUFFICES ASSUME NEW b \in Blocks, Match(b)' PROVE liveout'[b] = Unions(b, liveout')
    BY <1>9 DEF SkippingIsSafe, Unions
  <2>1. CASE new = liveout[block]
    <3>1. UNCHANGED <<liveout, version>>
      BY <1>3, <2>1
    <3>2. CASE b # block
      BY <1>1, <1>4, <1>5, <3>1, <3>2 DEF Match, SkippingIsSafe
    <3> QED BY <2>1, <3>1, <3>2
  <2>2. CASE new # liveout[block]
    \* A block that depends on the one that changed does not match any more.
    <3>1. block \notin succ[b]
      <4> SUFFICES ASSUME block \in succ[b] PROVE FALSE
        OBVIOUS
      <4>1. seen'[b][block] = version[block] + 1
        BY <1>1, <1>3, <2>2 DEF Match
      <4>2. seen[b][block] \in Nat /\ seen[b][block] <= version[block] /\ version[block] \in Nat
        BY <1>1 DEF SeenInv, TypeOK
      <4> QED BY <1>1, <1>4, <4>1, <4>2
    <3>2. \A s \in succ[b] : liveout'[s] = liveout[s] /\ version'[s] = version[s]
      BY <1>2, <1>3, <1>5, <3>1
    <3>3. Unions(b, liveout') = Unions(b, liveout)
      BY <3>2 DEF Unions
    <3>4. CASE b # block
      <4>1. Match(b)
        BY <1>1, <1>4, <1>5, <3>2, <3>4 DEF Match
      <4> QED BY <1>2, <3>3, <3>4, <4>1 DEF SkippingIsSafe
    <3> QED BY <1>2, <3>3, <3>4
  <2> QED BY <2>1, <2>2
<1>13. PassInv'
  <2> SUFFICES ASSUME ~changed', NEW b \in Blocks, b < block' PROVE Match(b)'
    BY <1>1 DEF PassInv
  <2>1. UNCHANGED <<version, changed>>
    BY <1>3
  <2>2. CASE b = block
    BY <1>1, <1>4, <1>5, <2>1, <2>2 DEF Match
  <2>3. CASE b # block
    <3>1. b < block
      BY <1>1, <2>3 DEF Blocks
    <3>2. Match(b)
      BY <2>1, <3>1 DEF PassInv
    <3> QED BY <1>1, <1>4, <1>5, <2>1, <2>3, <3>2 DEF Match
  <2> QED BY <2>2, <2>3
<1> QED BY <1>6, <1>7, <1>10, <1>11, <1>12, <1>13

LEMMA EndPassKeepsInvariant == IInv /\ EndPass => IInv'
<1> SUFFICES ASSUME IInv, EndPass PROVE IInv'
  OBVIOUS
<1> USE DEF IInv
<1>1. SeenInv' /\ SkippingIsSafe' /\ GrowInv' /\ NothingSpurious'
  BY SetsUnchanged DEF EndPass, graph
<1>2. TypeOK'
  <2>1. changed' \in BOOLEAN
    BY DEF TypeOK, EndPass
  <2>2. block' \in 0 .. BlockCount /\ pc' \in {"visit", "done"}
    BY BlockAssumption DEF TypeOK, EndPass
  <2> QED BY <2>1, <2>2 DEF TypeOK, EndPass, graph
<1>3. PassInv'
  BY DEF PassInv, Match, Blocks, TypeOK, EndPass, graph
<1> QED BY <1>1, <1>2, <1>3

LEMMA StepInvariant == IInv /\ [Next]_vars => IInv'
<1> SUFFICES ASSUME IInv, [Next]_vars PROVE IInv'
  OBVIOUS
<1>1. CASE UNCHANGED vars
  <2>1. SeenInv' /\ SkippingIsSafe' /\ GrowInv' /\ NothingSpurious'
    BY <1>1, SetsUnchanged DEF IInv, vars, graph
  <2>2. TypeOK' /\ PassInv'
    BY <1>1 DEF IInv, vars, graph, TypeOK, PassInv, Match
  <2> QED BY <2>1, <2>2 DEF IInv
<1> QED BY <1>1, SkipKeepsInvariant, RecomputeKeepsInvariant, EndPassKeepsInvariant DEF Next, Done

LEMMA Invariance == Spec => []IInv
  BY InitInvariant, StepInvariant, PTL DEF Spec

(* The variables keep their types. *)
THEOREM TypeCorrect == Spec => []TypeOK
<1>1. IInv => TypeOK
  BY DEF IInv
<1> QED BY <1>1, Invariance, PTL

(* A block is only skipped when computing its set would change nothing. *)
THEOREM SkipsAreSafe == Spec => []SkippingIsSafe
<1>1. IInv => SkippingIsSafe
  BY DEF IInv
<1> QED BY <1>1, Invariance, PTL

(* The result solves the equations: every vreg that is live is found. *)
THEOREM ResultIsSolution == Spec => []NothingMissing
<1>1. IInv => NothingMissing
  <2> SUFFICES ASSUME IInv, pc = "done", NEW b \in Blocks PROVE liveout[b] = Unions(b, liveout)
    BY DEF NothingMissing, Solution
  <2>1. b < BlockCount
    BY BlockAssumption DEF Blocks
  <2>2. block = BlockCount /\ ~changed
    BY DEF IInv, PassInv
  <2>3. Match(b)
    BY <2>1, <2>2 DEF IInv, PassInv
  <2> QED BY <2>3 DEF IInv, SkippingIsSafe
<1> QED BY <1>1, Invariance, PTL

(* The result is the least solution: only vregs that are live are found. *)
THEOREM ResultIsLeast == Spec => []NothingSpurious
<1>1. IInv => NothingSpurious
  BY DEF IInv
<1> QED BY <1>1, Invariance, PTL

(* Sets grow, and only with a new version. *)
THEOREM SetsOnlyGrow == Spec => SetsGrow
<1>1. ASSUME IInv, [Next]_vars, NEW b \in Blocks
      PROVE  /\ liveout[b] \subseteq liveout'[b]
             /\ liveout'[b] # liveout[b] <=> version'[b] # version[b]
  <2>1. CASE RecomputeBlock
    <3>1. block \in Blocks /\ version[block] \in Nat
      BY <1>1, <2>1, BlockAssumption DEF RecomputeBlock, SeeSuccessors, Visiting, IInv, TypeOK, Blocks
    <3>2. CASE Unions(block, liveout) = liveout[block]
      BY <2>1, <3>2 DEF RecomputeBlock, SeeSuccessors
    <3>3. CASE Unions(block, liveout) # liveout[block]
      <4>1. /\ liveout'[b] = IF b = block THEN Unions(block, liveout) ELSE liveout[b]
            /\ version'[b] = IF b = block THEN version[b] + 1 ELSE version[b]
        BY <1>1, <2>1, <3>1, <3>3 DEF RecomputeBlock, SeeSuccessors, IInv, TypeOK
      <4> QED BY <1>1, <3>1, <3>3, <4>1 DEF IInv, GrowInv
    <3> QED BY <3>2, <3>3
  <2>2. CASE UNCHANGED <<liveout, version>>
    BY <2>2
  <2> QED BY <1>1, <2>1, <2>2 DEF Next, SkipBlock, EndPass, Done, vars
<1>2. IInv /\ [Next]_vars =>
        [\A b \in Blocks :
           /\ liveout[b] \subseteq liveout'[b]
           /\ liveout'[b] # liveout[b] <=> version'[b] # version[b]]_vars
  BY <1>1
<1> QED BY <1>2, Invariance, PTL DEF Spec, SetsGrow
=============================================================================
