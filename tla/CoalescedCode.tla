--------------------------- MODULE CoalescedCode ----------------------------
(***************************************************************************)
(* From the code of the parser to code on coalesced live ranges: the       *)
(* passes of ssa.c one after the other, as wcc.c calls them, and then the  *)
(* code they end with runs beside the code they began with.  Live ranges   *)
(* hold the values of vregs; what is checked is that each tac finds the    *)
(* values it would have read.                                              *)
(***************************************************************************)
EXTENDS SsaForm

CONSTANTS
  NumInt, NumSse, RAX, RCX, RDX, ArgRegisters, ResultRegisters,   \* as in Interference
  EnableCoalescing,   \* opt_enable_live_range_coalescing
  Sources             \* [tacs, sse] of the functions that are compiled

ASSUME SourceAssumption ==
  \A s \in Sources :
    /\ IsCode(s.tacs)
    /\ IsUnnamed(s.tacs)
    /\ \A i \in 1 .. Len(s.tacs) : HasOperandsApart(s.tacs[i])

VARIABLES
  liveout, ig, block, at, livenow,                             \* see Interference
  round, merging, candidates, clobbers, pending, again,        \* see Coalescing
  source,    \* the code of the parser
  ip,        \* the tac that runs next, 0 after a return
  holds,     \* <<live range, vreg>>: the current value of the vreg is in the live range
  defined    \* the vregs that have a value that was not left to chance

graphVars  == <<liveout, ig, block, at, livenow>>
roundVars  == <<round, merging, candidates, clobbers, pending, again>>
machine    == <<source, ip, holds, defined>>
allVars    == <<ssaVars, graphVars, roundVars, machine>>

Coalesce == INSTANCE Coalescing
  WITH IncludeClobbers <- FALSE, IncludeInstrselConstraints <- TRUE, VregCount <- 0

Init ==
  /\ \E s \in Sources :
       /\ source = s.tacs
       /\ InitFlow(s.tacs)
       /\ class = [v \in VregsOf(s.tacs) |-> IF v \in s.sse THEN "SSE" ELSE "INT"]
  /\ InitSsa
  /\ liveout = <<>> /\ ig = {} /\ block = -1 /\ at = 0 /\ livenow = {}
  /\ round = "idle" /\ merging = "INT" /\ candidates = {} /\ clobbers = {}
  /\ pending = <<>> /\ again = FALSE
  /\ ip = 1
  /\ holds = {}
  /\ defined = {}

-----------------------------------------------------------------------------
(* coalesce_live_ranges *)
StartCoalescing ==
  /\ stage = "ranges"
  /\ EnableCoalescing
  /\ Coalesce!BeginCoalescing([b \in Blocks |-> Successors(b)])
  /\ stage' = "coalesce"
  /\ UNCHANGED <<flowVars, insertion, renaming, ranges, machine>>

SkipCoalescing ==
  /\ stage = "ranges"
  /\ ~EnableCoalescing
  /\ stage' = "run"
  /\ UNCHANGED <<flowVars, insertion, code, class, renaming, ranges, graphVars, roundVars, machine>>

CoalesceStep ==
  /\ stage = "coalesce"
  /\ Coalesce!CoalesceNext
  /\ stage' = CASE round' = "done" -> "run" [] round' = "panic" -> "panic" [] OTHER -> stage
  /\ UNCHANGED <<flowVars, insertion, renaming, ranges, machine>>

BlockOf(i) == CHOOSE b \in Blocks : blocks[b].start <= i /\ i <= blocks[b].end
Compiled(i) == code[BlockOf(i)][i - blocks[BlockOf(i)].start + 1]

IsCopy(tac) == tac.op = "IR_MOVE" /\ tac.dst # 0 /\ tac.src1 # 0

(* A parameter comes into the function in its register, as a new value. *)
IsParameter(tac) == tac.pregs.src1 # 0

(* What is in the live ranges after the compiled tac: nothing known in its *)
(* dst, or for a copy what is in its src1.                                 *)
AfterWrite(tac) ==
  IF tac.dst = 0 THEN holds
  ELSE {h \in holds : h[1] # tac.dst}
         \cup (IF IsCopy(tac) THEN {<<tac.dst, h[2]>> : h \in {g \in holds : g[1] = tac.src1}} ELSE {})

(* The tacs that may run after tac i. *)
After(i) ==
  LET tac == source[i]
      target == {j \in 1 .. Len(source) : source[j].label = tac.target}
      next == IF i < Len(source) THEN {i + 1} ELSE {0}
  IN CASE tac.op \in Jumps -> target
       [] tac.op \in ConditionalJumps -> target \cup next
       [] tac.op = "IR_RETURN" -> {0}
       [] OTHER -> next

Run ==
  /\ stage = "run"
  /\ LET old == source[ip]
         new == Compiled(ip)
         written == AfterWrite(new)
         copies == IsCopy(old) /\ ~IsParameter(old)
     IN IF old.dst = 0 THEN holds' = written /\ UNCHANGED defined
        ELSE /\ holds' = {h \in written : h[2] # old.dst}
                  \cup {<<p, old.dst>> : p \in
                         IF copies THEN {h[1] : h \in {g \in written : g[2] = old.src1}}
                         ELSE {new.dst}}
             /\ defined' = IF copies /\ old.src1 \notin defined
                           THEN defined \ {old.dst} ELSE defined \cup {old.dst}
  /\ ip' \in After(ip)
  /\ stage' = IF ip' = 0 THEN "exit" ELSE stage
  /\ UNCHANGED <<flowVars, insertion, code, class, renaming, ranges>>
  /\ UNCHANGED <<graphVars, roundVars, source>>

Stopped == stage \in {"exit", "panic"} /\ UNCHANGED allVars

Next ==
  \/ SsaNext /\ UNCHANGED <<graphVars, roundVars, machine>>
  \/ StartCoalescing
  \/ SkipCoalescing
  \/ CoalesceStep
  \/ Run
  \/ Stopped

Spec == Init /\ [][Next]_allVars

-----------------------------------------------------------------------------
(* Every tac that is left finds the values it would have read, whichever   *)
(* way the function goes: renaming, joining names into live ranges and     *)
(* merging those keeps apart what is live at the same time.  A value that  *)
(* was never written may be anything.                                      *)
ReadsFindTheirValues ==
  stage = "run" =>
    \A f \in {"src1", "src2"} :
      LET v == source[ip][f]
          r == Compiled(ip)[f]
      IN (v \in defined /\ r # 0) => <<r, v>> \in holds

(* The code only goes from block to block along edges of the graph, which  *)
(* everything after make_control_flow_graph relies on.                     *)
RunsAlongEdges ==
  [][(stage = "run" /\ stage' = "run") =>
       \/ ip' = ip + 1 /\ BlockOf(ip') = BlockOf(ip)
       \/ <<BlockOf(ip), BlockOf(ip')>> \in Range(edges)]_allVars

(* panic("Illegal violation of dst != src1"): live ranges that an          *)
(* instruction needs apart are not merged, though many are merged in a     *)
(* round on a graph that was made before it.                               *)
OperandsStayApart == stage # "panic"
=============================================================================
