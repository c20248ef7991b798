----------------------------- MODULE Coalescing -----------------------------
(***************************************************************************)
(* Live ranges that are copied to one another become one: ssa.c,           *)
(* coalesce_live_ranges_for_preg.  A round makes the interference graph,   *)
(* then takes the copies by cost and merges the live ranges of those that  *)
(* do not interfere; the graph is kept up to date by adding edges only.    *)
(* Rounds are made for integers until nothing merges, and then for         *)
(* floating point values.                                                  *)
(***************************************************************************)
EXTENDS Interference

VARIABLES
  round,       \* "graph", "merge", "done" or "panic"
  merging,     \* preg_class
  candidates,  \* the [dst, src, cost] of copies that are not taken yet
  clobbers,    \* the vregs that must be in a certain register
  pending,     \* pending_coalesces: vreg -> the one it becomes, or 0
  again        \* outer_changed

roundVars == <<round, merging, candidates, clobbers, pending, again>>

Places == UNION {{b} \X (1 .. Len(code[b])) : b \in DOMAIN code}

(* The tac after one, if there is one. *)
Following(b, i) ==
  IF i < Len(code[b]) THEN {code[b][i + 1]}
  ELSE IF b + 1 \in DOMAIN code THEN {code[b + 1][1]} ELSE {}

(* A copy that may become no copy: of a variable, or for an operation of   *)
(* two vregs.  Types are told apart by their class.                        *)
IsCandidate(b, i) ==
  LET tac == code[b][i]
  IN /\ tac.dst # 0 /\ tac.src1 # 0
     /\ class[tac.dst] = merging /\ class[tac.src1] = merging
     /\ \/ tac.op = "IR_MOVE"
        \/ /\ tac.op = "X_MOV"
           /\ \E next \in Following(b, i) :
                \/ next.op \in {"X_ADD", "X_SUB", "X_MUL"} /\ next.src2 # 0
                \/ next.op = "X_SHR" /\ next.src1 # 0

(* Both ends cost something to spill.  No loop is marked in the code.      *)
Candidates ==
  {LET tac == code[p[1]][p[2]]
   IN [dst |-> tac.dst, src |-> tac.src1,
       cost |-> SpillCost(code, {}, liveout, tac.src1) + SpillCost(code, {}, liveout, tac.dst)] :
     p \in {q \in Places : IsCandidate(q[1], q[2])}}

StartGraph ==
  /\ ig' = {}
  /\ block' \in DOMAIN code
  /\ \A b \in DOMAIN code : b <= block'
  /\ at' = 0
  /\ livenow' = {}

-----------------------------------------------------------------------------
(* make_liveout, and the first round.  succ has the successors of a block. *)
BeginCoalescing(succ) ==
  /\ liveout' = LiveOut(code, succ)
  /\ StartGraph
  /\ round' = "graph"
  /\ merging' = "INT"
  /\ UNCHANGED <<code, class, candidates, clobbers, pending, again>>

MakeGraph ==
  /\ round = "graph"
  /\ ConnectNext
  /\ UNCHANGED roundVars

MakeCandidates ==
  /\ round = "graph"
  /\ ~Connecting
  /\ candidates' = Candidates
  /\ clobbers' = {f[1] : f \in UNION {code[p[1]][p[2]].forced : p \in Places}}
  /\ pending' = [v \in DOMAIN class |-> 0]
  /\ again' = FALSE
  /\ round' = "merge"
  /\ UNCHANGED <<program, graphVars, merging>>

(* Slip: what was merged with a live range before keeps its own edges.     *)
NoEdgesCopied(src, dst) == {}

(* copy_interference_graph_edges *)
EdgesCopied(src, dst) ==
  {Edge(IF e[1] = src THEN e[2] ELSE e[1], dst) : e \in {x \in ig : src \in {x[1], x[2]}}}

(* What a live range has become in this round. *)
Now(v) == IF pending[v] # 0 THEN pending[v] ELSE v

Merge(c) ==
  LET src == Now(c.src)
      dst == Now(c.dst)
  IN IF src \in clobbers \/ dst \in clobbers \/ Edge(src, dst) \in ig
     THEN UNCHANGED <<ig, pending, again>>
     ELSE /\ pending' = [v \in DOMAIN pending |->
                           IF v = src \/ pending[v] = src THEN dst ELSE pending[v]]
          /\ ig' = ig \cup EdgesCopied(src, dst)
          /\ again' = TRUE

(* The order of copies that cost the same is not determined. *)
TakeCandidate ==
  /\ round = "merge"
  /\ \E c \in candidates :
       /\ \A d \in candidates : d.cost <= c.cost
       /\ Merge(c)
       /\ candidates' = candidates \ {c}
  /\ UNCHANGED <<program, block, at, livenow, round, merging, clobbers>>

(* coalesce_pending_coalesces: a copy of a live range to itself is none.   *)
Renamed(v) == IF v = 0 THEN 0 ELSE Now(v)
Rewritten(tac) ==
  LET new == [tac EXCEPT !.dst = Renamed(@), !.src1 = Renamed(@), !.src2 = Renamed(@)]
  IN IF new.op = "IR_MOVE" /\ new.dst # 0 /\ new.dst = new.src1
     THEN [new EXCEPT !.op = "IR_NOP", !.dst = 0, !.src1 = 0, !.src2 = 0]
     ELSE new

(* Instruction selection cannot do with equal operands. *)
Illegal(tac) ==
  \/ tac.dst # 0 /\ tac.dst \in {tac.src1, tac.src2}
  \/ tac.src1 # 0 /\ tac.src1 = tac.src2

(* Slip: the live ranges at the ends of blocks keep their names. *)
StaleLiveout == liveout
MigratedLiveout == [b \in DOMAIN liveout |-> {Now(v) : v \in liveout[b]}]

EndRound ==
  /\ round = "merge"
  /\ candidates = {}
  /\ code' = [b \in DOMAIN code |-> [i \in 1 .. Len(code[b]) |-> Rewritten(code[b][i])]]
  /\ liveout' = MigratedLiveout
  /\ IF \E p \in Places : Illegal(code'[p[1]][p[2]])
     THEN round' = "panic" /\ UNCHANGED <<graphVars, merging>>
     ELSE IF ~again /\ merging = "SSE"
     THEN round' = "done" /\ UNCHANGED <<graphVars, merging>>
     ELSE /\ merging' = IF again THEN merging ELSE "SSE"
          /\ round' = "graph"
          /\ StartGraph
  /\ UNCHANGED <<class, candidates, clobbers, pending, again>>

CoalesceNext == MakeGraph \/ MakeCandidates \/ TakeCandidate \/ EndRound
=============================================================================
