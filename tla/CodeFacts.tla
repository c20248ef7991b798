----------------------------- MODULE CodeFacts ------------------------------
(***************************************************************************)
(* What passes of ssa.c find out about code that is split into blocks:     *)
(* the vregs that are live at the end of a block and the cost of spilling  *)
(* a vreg.  c is a function from blocks to their tacs.                     *)
(***************************************************************************)
EXTENDS Integers, Sequences, FiniteSets

(* The vregs a tac reads.  0 stands for an operand that is not a vreg.     *)
Operands(tac) == {tac.src1, tac.src2} \ {0}

(* make_uevar_and_varkill *)
VarKill(c, b) == {c[b][i].dst : i \in 1 .. Len(c[b])} \ {0}
UeVar(c, b) ==
  {v \in UNION {Operands(c[b][i]) : i \in 1 .. Len(c[b])} :
     \E i \in 1 .. Len(c[b]) :
       /\ v \in Operands(c[b][i])
       /\ \A j \in 1 .. i - 1 : c[b][j].dst # v}

(* The least solution that Liveness shows make_liveout to find: each round *)
(* adds what is read one block further away.  s has the successors of a    *)
(* block.                                                                  *)
LiveOut(c, s) ==
  LET L[n \in 0 .. Cardinality(DOMAIN c)] ==
        IF n = 0 THEN [b \in DOMAIN c |-> {}]
        ELSE LET near == L[n - 1]
             IN [b \in DOMAIN c |-> UNION {UeVar(c, t) \cup (near[t] \ VarKill(c, t)) : t \in s[b]}]
  IN L[Cardinality(DOMAIN c)]

(* Where the tacs of some blocks are. *)
Positions(c, blocks) == UNION {{b} \X (1 .. Len(c[b])) : b \in blocks}

(* make_live_range_spill_cost: a mention of a vreg counts ten in a loop.   *)
Mentions(c, v, blocks) ==
  Cardinality({m \in Positions(c, blocks) \X {"dst", "src1", "src2"} :
                 c[m[1][1]][m[1][2]][m[2]] = v})

(* add_infinite_spill_costs: a vreg that is read by the tac after the one  *)
(* that writes it, and no more, is kept out of memory.                     *)
LiveAfter(c, lo, b, i, v) ==
  \/ \E j \in i + 1 .. Len(c[b]) :
       v \in Operands(c[b][j]) /\ \A k \in i + 1 .. j - 1 : c[b][k].dst # v
  \/ v \in lo[b] /\ \A k \in i + 1 .. Len(c[b]) : c[b][k].dst # v
WrittenBefore(c, b, i) ==
  IF i > 1 THEN c[b][i - 1].dst ELSE IF b > 0 THEN c[b - 1][Len(c[b - 1])].dst ELSE 0
ReadOnceAtOnce(c, lo, v) ==
  \E b \in DOMAIN c : \E i \in 1 .. Len(c[b]) :
    WrittenBefore(c, b, i) = v /\ v \in Operands(c[b][i]) /\ ~LiveAfter(c, lo, b, i, v)

InfiniteCost == 65536
SpillCost(c, loops, lo, v) ==
  IF ReadOnceAtOnce(c, lo, v) THEN InfiniteCost
  ELSE 10 * Mentions(c, v, loops) + Mentions(c, v, DOMAIN c \ loops)
=============================================================================
