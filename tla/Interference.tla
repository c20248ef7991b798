---------------------------- MODULE Interference ----------------------------
(***************************************************************************)
(* The interference graph of a function: ssa.c, make_interference_graph.   *)
(*                                                                         *)
(* The blocks are walked backwards, from the vregs that are live at their  *)
(* ends.  Each instruction (tac) adds the edges it calls for, then its     *)
(* dst stops and its operands start to be live.                            *)
(***************************************************************************)
EXTENDS CodeFacts

CONSTANTS
  NumInt, NumSse,             \* allocatable registers: vregs 1 .. NumInt + NumSse
  VregCount,
  RAX, RCX, RDX,              \* the reserved vregs instructions use on their own
  ArgRegisters,               \* int_arg_registers
  ResultRegisters,            \* rax, rdx, xmm0 and xmm1
  IncludeClobbers,            \* the two arguments of the function
  IncludeInstrselConstraints

VARIABLES
  code,       \* block -> its tacs
  liveout,    \* block -> the vregs live at its end
  class,      \* preg_class of the vregs
  ig,         \* the edges so far, the smaller vreg first
  block, at,  \* the tac that is visited next, at = 0 between blocks
  livenow

program == <<code, liveout, class>>
graphVars == <<ig, block, at, livenow>>

Moves == {"IR_MOVE", "X_MOV", "X_MOVZ", "X_MOVS", "X_MOVC"}

SseRegisters == NumInt + 1 .. NumInt + NumSse
RegistersOf(c) == IF c = "INT" THEN 1 .. NumInt ELSE SseRegisters

-----------------------------------------------------------------------------
(* ig_lookup: an edge has no direction. *)
Edge(u, v) == IF u < v THEN <<u, v>> ELSE <<v, u>>
EdgesBetween(us, vs) == {Edge(u, v) : u \in us, v \in vs}

(* The vregs of a tac. *)
Dst(tac) == {tac.dst} \ {0}
Values(tac) == Dst(tac) \cup Operands(tac)

(* enforce_live_range_preg: a vreg that must be in a register interferes   *)
(* with every other one of its class, and the register with everything     *)
(* else that is live now.                                                  *)
\* Slip: the register is taken for a preg, which is one less.
ForcedToPreg(tac) ==
  UNION {EdgesBetween({f[2]}, livenow \ {f[1]})
           \cup EdgesBetween({f[1]}, RegistersOf(class[f[1]]) \ {f[2] - 1}) : f \in tac.forced}
ForcedEdges(tac) ==
  UNION {EdgesBetween({f[2]}, livenow \ {f[1]})
           \cup EdgesBetween({f[1]}, RegistersOf(class[f[1]]) \ {f[2]}) : f \in tac.forced}

(* A call takes the registers its callee may change away from what lives   *)
(* on, but for the ones its result is in.                                  *)
IsCall(tac) == (IncludeClobbers /\ tac.op = "IR_CALL") \/ tac.op = "X_CALL"
CalleeMayChange(tac) ==
  (ArgRegisters \ {RDX})
    \cup (({RAX, RDX} \cup SseRegisters) \ (ResultRegisters \cap tac.results))
CallEdges(tac) ==
  IF IsCall(tac)
  THEN EdgesBetween(CalleeMayChange(tac), livenow) \cup EdgesBetween({RAX}, {tac.src1} \ {0})
  ELSE {}

(* A shift works on cl, when the tac before it moves what is shifted. *)
ShiftsMovedValue(tac, prev) == tac.op = "X_SHR" /\ prev.dst # 0 /\ prev.src1 # 0

(* The registers an instruction uses on its own, by its operation. *)
UsedRegisters(tac, prev) ==
  (IF IncludeClobbers /\ tac.op \in {"IR_DIV", "IR_MOD", "X_IDIV"} THEN {RAX, RDX} ELSE {})
    \cup (IF (IncludeClobbers /\ tac.op = "IR_BSHL") \/ tac.op = "IR_BSHR"
             \/ ShiftsMovedValue(tac, prev)
          THEN {RCX} ELSE {})
    \cup (IF tac.op = "X_LD_EQ_CMP" THEN {RDX} ELSE {})

\* Slip: the operands that die here are forgotten.
ClobberEdgesOfLive(tac, prev) ==
  EdgesBetween(UsedRegisters(tac, prev), livenow)
    \cup (IF ShiftsMovedValue(tac, prev) THEN EdgesBetween({RCX}, {prev.dst, prev.src1}) ELSE {})
ClobberEdges(tac, prev) ==
  EdgesBetween(UsedRegisters(tac, prev), livenow \cup Values(tac))
    \cup (IF ShiftsMovedValue(tac, prev) THEN EdgesBetween({RCX}, {prev.dst, prev.src1}) ELSE {})

(* The operand a subtraction still needs when it writes its dst, and the   *)
(* one a copy may share a register with.                                   *)
Subtrahend(tac) ==
  (IF tac.op = "IR_RSUB" THEN {tac.src1} ELSE IF tac.op = "X_SUB" THEN {tac.src2} ELSE {}) \ {0}
Copied(tac) == IF tac.op \in Moves THEN {tac.src1} ELSE {}

(* Slip: vregs of both classes are kept apart. *)
DstEdgesOfAnyClass(tac) ==
  EdgesBetween(Dst(tac), Subtrahend(tac))
    \cup {Edge(tac.dst, v) : v \in {u \in livenow \ Copied(tac) : tac.dst # 0 /\ u # tac.dst}}

(* A dst does not share its register with what lives on in its class. *)
DstEdges(tac) ==
  EdgesBetween(Dst(tac), Subtrahend(tac))
    \cup {Edge(tac.dst, v) : v \in {u \in livenow \ Copied(tac) :
            tac.dst # 0 /\ u # tac.dst /\ class[u] = class[tac.dst]}}

(* What instruction selection needs to tell operands apart. *)
ConstraintEdges(tac) ==
  IF IncludeInstrselConstraints /\ tac.op # "IR_MOVE"
  THEN EdgesBetween(Dst(tac), Operands(tac)) \cup EdgesBetween({tac.src1} \ {0}, {tac.src2} \ {0})
  ELSE {}

InitGraph ==
  /\ ig = {}
  /\ block \in DOMAIN code
  /\ \A b \in DOMAIN code : b <= block
  /\ at = 0
  /\ livenow = {}

Connecting == block >= 0

EnterBlock ==
  /\ Connecting
  /\ at = 0
  /\ at' = Len(code[block])
  /\ livenow' = liveout[block]
  /\ UNCHANGED <<program, ig, block>>

(* The tac before the first one of a block ends the block before it. *)
Prev(b, i) == IF i > 1 THEN code[b][i - 1] ELSE code[b - 1][Len(code[b - 1])]
HasPrev(b, i) == i > 1 \/ b > 0

ConnectTac ==
  /\ Connecting
  /\ at > 0
  /\ LET tac == code[block][at]
         prev == IF HasPrev(block, at) THEN Prev(block, at) ELSE tac
     IN /\ ig' = ig \cup ForcedEdges(tac) \cup CallEdges(tac) \cup ClobberEdges(tac, prev)
                    \cup DstEdges(tac) \cup ConstraintEdges(tac)
        /\ livenow' = (livenow \ Dst(tac)) \cup Operands(tac)
  /\ at' = at - 1
  /\ block' = IF at = 1 THEN block - 1 ELSE block
  /\ UNCHANGED program

ConnectNext == EnterBlock \/ ConnectTac
=============================================================================
