---------------------------- MODULE ControlFlow -----------------------------
(***************************************************************************)
(* The blocks of a function, the edges between them, and which blocks      *)
(* dominate which: ssa.c, make_control_flow_graph, make_block_dominance,   *)
(* make_rpo, make_block_immediate_dominators and                           *)
(* make_block_dominance_frontiers.                                         *)
(*                                                                         *)
(* A tac has the fields op, dst, src1, src2 (0 when there is none), label  *)
(* (0 when there is none) and target, the label a jump goes to.            *)
(***************************************************************************)
EXTENDS Integers, FiniteSets, SequencesExt

VARIABLES
  tacs,        \* function->ir, its first tac has no label
  blocks,      \* block -> [start, end], its first and its last tac
  edges,       \* of the graph, in the order they were added
  stage,       \* the function that is at work
  dom,         \* dominance
  path,        \* make_rpo: the blocks it has been called for, the last one first
  rpos,        \* block -> its place in reverse post order, 0 before it has one
  pos,         \* the place that is given next
  idom,        \* block -> its immediate dominator, or -1
  visit,       \* the block, or the place of one, that a round visits next
  changed,
  df           \* dominance_frontiers

flowVars == <<tacs, blocks, edges, dom, path, rpos, pos, idom, visit, changed, df>>

ConditionalJumps ==
  {"IR_JZ", "IR_JNZ", "X_JZ", "X_JNZ", "X_JE", "X_JNE", "X_JGT", "X_JLT", "X_JGE", "X_JLE",
   "X_JB", "X_JA", "X_JBE", "X_JAE"}
Jumps == {"IR_JMP", "X_JMP"}

(* What the parser makes: code that begins without a label, with labels to *)
(* jump to, and that goes on after a conditional jump.                     *)
IsCode(t) ==
  /\ t \in Seq(Range(t)) /\ t # <<>>
  /\ \A i \in 1 .. Len(t) : {"op", "label", "target"} \subseteq DOMAIN t[i]
  /\ t[1].label = 0
  /\ \A i \in 1 .. Len(t) : t[i].op \in Jumps \cup ConditionalJumps => t[i].target # 0
  /\ t[Len(t)].op \notin ConditionalJumps

-----------------------------------------------------------------------------
(* The tacs between a jump and the next label do not run.  They become     *)
(* nops, but for the declarations that codegen needs.                      *)
Dead(t, i) ==
  /\ t[i].op # "IR_DECL_LOCAL_COMP_OBJ"
  /\ \E j \in 1 .. i - 1 : t[j].op \in Jumps /\ \A k \in j + 1 .. i : t[k].label = 0
Nop(tac) == [tac EXCEPT !.op = "IR_NOP", !.dst = 0, !.src1 = 0, !.src2 = 0]
Trimmed(t) == [i \in 1 .. Len(t) |-> IF Dead(t, i) THEN Nop(t[i]) ELSE t[i]]

(* A block starts at a label and after a conditional jump.                 *)
Starts(t) ==
  {i \in 1 .. Len(t) : i = 1 \/ t[i].label # 0 \/ t[i - 1].op \in ConditionalJumps}
BlocksOf(t) ==
  LET number(i) == Cardinality({j \in Starts(t) : j < i})
      start(b) == CHOOSE i \in Starts(t) : number(i) = b
  IN [b \in 0 .. Cardinality(Starts(t)) - 1 |->
       [start |-> start(b),
        end   |-> IF b + 1 < Cardinality(Starts(t)) THEN start(b + 1) - 1 ELSE Len(t)]]

(* The tac that decides where a block goes on: a jump in it, or its end.   *)
Leaves(t, block) ==
  LET jumps == {i \in block.start .. block.end : t[i].op \in Jumps}
  IN IF jumps = {} THEN t[block.end] ELSE t[CHOOSE i \in jumps : \A j \in jumps : i <= j]

(* The blocks that start with the label, in their order.                   *)
Labelled(t, bs, label) ==
  FlattenSeq([n \in 1 .. Cardinality(DOMAIN bs) |->
    IF t[bs[n - 1].start].label = label THEN <<n - 1>> ELSE <<>>])

(* Slip: a conditional jump is taken for a jump.                           *)
GoesToTargets(t, bs, b) ==
  LET tac == Leaves(t, bs[b])
      target == Labelled(t, bs, tac.target)
  IN IF tac.op \in Jumps \cup ConditionalJumps THEN target
     ELSE IF tac.op # "IR_RETURN" /\ b + 1 \in DOMAIN bs THEN <<b + 1>> ELSE <<>>

(* The blocks that edges from b lead to, in the order they are added.      *)
GoesTo(t, bs, b) ==
  LET tac == Leaves(t, bs[b])
      target == Labelled(t, bs, tac.target)
  IN IF tac.op \in Jumps THEN target
     ELSE IF tac.op \in ConditionalJumps THEN target \o <<b + 1>>
     ELSE IF tac.op # "IR_RETURN" /\ b + 1 \in DOMAIN bs THEN <<b + 1>> ELSE <<>>

EdgesOf(t, bs) ==
  FlattenSeq([n \in 1 .. Cardinality(DOMAIN bs) |->
    LET to == GoesTo(t, bs, n - 1) IN [k \in 1 .. Len(to) |-> <<n - 1, to[k]>>]])

(* The graph, as graph.c keeps it: parallel edges are edges of their own.  *)
Blocks == DOMAIN blocks
Pred(b) == LET in == SelectSeq(edges, LAMBDA e : e[2] = b) IN [k \in 1 .. Len(in) |-> in[k][1]]
EdgesTo(b) == {k \in 1 .. Len(edges) : edges[k][2] = b}
Predecessors(b) == {e[1] : e \in {x \in Range(edges) : x[2] = b}}
Successors(b) == {e[2] : e \in {x \in Range(edges) : x[1] = b}}

-----------------------------------------------------------------------------
InitFlow(t) ==
  /\ tacs = t
  /\ blocks = <<>>
  /\ edges = <<>>
  /\ stage = "graph"
  /\ dom = <<>>
  /\ path = <<>>
  /\ rpos = <<>>
  /\ pos = 0
  /\ idom = <<>>
  /\ visit = 0
  /\ changed = FALSE
  /\ df = <<>>

MakeControlFlowGraph ==
  /\ stage = "graph"
  /\ tacs' = Trimmed(tacs)
  /\ blocks' = BlocksOf(tacs')
  /\ edges' = EdgesOf(tacs', blocks')
  /\ dom' = [b \in DOMAIN blocks' |-> IF b = 0 THEN {0} ELSE DOMAIN blocks']
  /\ visit' = 0
  /\ changed' = FALSE
  /\ stage' = "dominance"
  /\ UNCHANGED <<path, rpos, pos, idom, df>>

(* Slip: the first predecessor decides. *)
FirstsDominators(b) ==
  {b} \cup (IF Pred(b) = <<>> THEN {} ELSE dom[Pred(b)[1]])

NewDominators(b) ==
  {b} \cup (IF Predecessors(b) = {} THEN {}
            ELSE {a \in Blocks : \A p \in Predecessors(b) : a \in dom[p]})

VisitDominance ==
  /\ stage = "dominance"
  /\ visit \in Blocks
  /\ dom' = [dom EXCEPT ![visit] = NewDominators(visit)]
  /\ changed' = (changed \/ dom' # dom)
  /\ visit' = visit + 1
  /\ UNCHANGED <<tacs, blocks, edges, stage, path, rpos, pos, idom, df>>

DominanceFound == stage = "dominance" /\ visit \notin Blocks /\ ~changed

(* Another round over the blocks, or on to the call of make_rpo.           *)
EndRoundOfDominance ==
  /\ stage = "dominance"
  /\ visit \notin Blocks
  /\ IF changed
     THEN visit' = 0 /\ changed' = FALSE /\ UNCHANGED <<stage, path, rpos, pos>>
     ELSE /\ rpos' = [b \in Blocks |-> 0]
          /\ pos' = Cardinality(Blocks) - 1
          /\ path' = <<0>>
          /\ stage' = "order"
          /\ UNCHANGED <<visit, changed>>
  /\ UNCHANGED <<tacs, blocks, edges, dom, idom, df>>

(* A block has been visited when it is on the path or has its place. *)
Unplaced(b) == rpos[b] = 0 /\ ~Contains(path, b) /\ b # 0

(* The edges from the innermost block to blocks that are still to visit.   *)
Ahead == {k \in 1 .. Len(edges) : edges[k][1] = Head(path) /\ Unplaced(edges[k][2])}
MakeRpo ==
  /\ stage = "order"
  /\ path # <<>>
  /\ IF Ahead # {}
     THEN /\ \E k \in Ahead : (\A j \in Ahead : k <= j) /\ path' = <<edges[k][2]>> \o path
          /\ UNCHANGED <<rpos, pos>>
     ELSE /\ rpos' = [rpos EXCEPT ![Head(path)] = pos]
          /\ pos' = pos - 1
          /\ path' = Tail(path)
  /\ UNCHANGED <<tacs, blocks, edges, dom, stage, idom, visit, changed, df>>

(* rpos_order: a place that no block has stands for block 0, and one that  *)
(* several have (place 0, of the blocks that are not reached) for the last.*)
At(place) ==
  LET bs == {b \in Blocks : rpos[b] = place}
  IN IF bs = {} THEN 0 ELSE CHOOSE b \in bs : \A c \in bs : c <= b

StartImmediateDominators ==
  /\ stage = "order"
  /\ path = <<>>
  /\ idom' = [b \in Blocks |-> IF b = 0 THEN 0 ELSE -1]
  /\ visit' = 0
  /\ changed' = FALSE
  /\ stage' = "idom"
  /\ UNCHANGED <<tacs, blocks, edges, dom, path, rpos, pos, df>>

(* The nearest block above both i and j: whichever is further from the     *)
(* entry goes up, until they meet.                                         *)
Intersect(i, j) ==
  LET known == {b \in Blocks : idom[b] # -1}
      meet[f \in known \X known] ==
        IF f[1] = f[2] THEN f[1]
        ELSE IF rpos[f[1]] > rpos[f[2]] THEN meet[<<idom[f[1]], f[2]>>]
        ELSE meet[<<f[1], idom[f[2]]>>]
  IN meet[<<i, j>>]

(* Slip: the first predecessor decides.                                    *)
FirstPredecessor(b) ==
  LET known == SelectSeq(Pred(b), LAMBDA p : idom[p] # -1)
  IN IF known = <<>> THEN -1 ELSE known[1]

(* After the first k edges: those that lead to b from a block that has     *)
(* an immediate dominator count.                                           *)
NewIdom(b) ==
  LET new[k \in 0 .. Len(edges)] ==
        IF k = 0 THEN -1
        ELSE IF edges[k][2] # b \/ idom[edges[k][1]] = -1 THEN new[k - 1]
        ELSE IF new[k - 1] = -1 THEN edges[k][1]
        ELSE Intersect(edges[k][1], new[k - 1])
  IN new[Len(edges)]

VisitBlock ==
  /\ stage = "idom"
  /\ visit \in Blocks
  /\ LET b == At(visit)
     IN IF b = 0 \/ NewIdom(b) = idom[b] THEN UNCHANGED <<idom, changed>>
        ELSE idom' = [idom EXCEPT ![b] = NewIdom(b)] /\ changed' = TRUE
  /\ visit' = visit + 1
  /\ UNCHANGED <<tacs, blocks, edges, dom, stage, path, rpos, pos, df>>

(* The blocks from p up to, and without, the immediate dominator of i.     *)
Runners(p, i, id) ==
  LET up[r \in Blocks \cup {-1}] == IF r \in {id[i], -1} THEN {} ELSE {r} \cup up[id[r]]
  IN up[p]

(* Slip: the runner does not go up.                                        *)
FrontierOfPredecessors(id) ==
  [r \in Blocks |->
    {i \in Blocks : Len(Pred(i)) > 1 /\ r \in Range(Pred(i)) /\ r # id[i]}]

Frontiers(id) ==
  [r \in Blocks |->
    {i \in Blocks : Cardinality(EdgesTo(i)) > 1 /\ \E p \in Predecessors(i) : r \in Runners(p, i, id)}]

(* Another round over the blocks, or the end of the analysis.              *)
EndRoundOfBlocks ==
  /\ stage = "idom"
  /\ visit \notin Blocks
  /\ IF changed
     THEN visit' = 0 /\ changed' = FALSE /\ UNCHANGED <<stage, idom, df>>
     ELSE /\ idom' = [idom EXCEPT ![0] = -1]
          /\ df' = Frontiers(idom')
          /\ stage' = "globals"
          /\ UNCHANGED <<visit, changed>>
  /\ UNCHANGED <<tacs, blocks, edges, dom, path, rpos, pos>>

FlowNext ==
  \/ MakeControlFlowGraph
  \/ VisitDominance
  \/ EndRoundOfDominance
  \/ MakeRpo
  \/ StartImmediateDominators
  \/ VisitBlock
  \/ EndRoundOfBlocks

-----------------------------------------------------------------------------
(* What dominance means: every way from the entry to b goes through a.     *)
Further(near, a) == near \cup {e[2] : e \in {x \in Range(edges) : x[1] \in near /\ x[2] # a}}
Near(a) ==
  LET R[n \in Nat] == IF n = 0 THEN {0} \ {a} ELSE Further(R[n - 1], a)
  IN R
ReachedWithout(a) == Near(a)[Cardinality(Blocks)]
Reached == ReachedWithout(-1)
Dominators(b) == {a \in Blocks : b \notin ReachedWithout(a)}

Analyzed == stage = "globals"

(* make_block_dominance finds no dominator that is none, and every one     *)
(* unless a block that is reached follows one that is not: the dominators  *)
(* of the latter, which the intersection is taken with, mean nothing.      *)
DominatorsAreFound ==
  DominanceFound =>
    /\ \A b \in Reached : dom[b] \subseteq Dominators(b)
    /\ (\A e \in Range(edges) : e[2] \in Reached => e[1] \in Reached) =>
         \A b \in Reached : dom[b] = Dominators(b)

(* make_block_immediate_dominators finds, by going up from predecessors in *)
(* any order of loops and joins, the nearest of the blocks that are on     *)
(* every way to a block.  Blocks that are not reached have none.           *)
IdomIsNearest ==
  Analyzed =>
    \A b \in Blocks :
      IF b \in Reached \ {0}
      THEN idom[b] # b /\ Dominators(b) = {b} \cup Dominators(idom[b])
      ELSE idom[b] = -1

(* make_block_dominance_frontiers finds the blocks where the dominance of  *)
(* a reached block ends, though it only looks at blocks with more than one *)
(* edge to them.                                                           *)
FrontierEndsDominance ==
  Analyzed =>
    \A a \in Reached :
      df[a] = {b \in Reached :
                 /\ \E p \in Predecessors(b) \cap Reached : a \in Dominators(p)
                 /\ a \notin Dominators(b) \ {b}}
=============================================================================
