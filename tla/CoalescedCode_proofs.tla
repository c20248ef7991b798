------------------------ MODULE CoalescedCode_proofs ------------------------
(***************************************************************************)
(* Proofs about the passes of ssa.c in the order wcc.c calls them, for any *)
(* source code: what PhiInsertion_proofs shows of phi functions on their   *)
(* own holds where the passes before hand over to them.                    *)
(***************************************************************************)
EXTENDS CoalescedCode, ControlFlow_proofs

PhiProofs == INSTANCE PhiInsertion_proofs

-----------------------------------------------------------------------------
(* The passes up to the dominance frontiers. *)
BeforePhis == {"graph", "dominance", "order", "idom", "globals"}

(* No work is left over before phi functions are placed, the frontiers     *)
(* they are placed by are those of the blocks, and while they are placed   *)
(* the invariant of the work list holds.                                   *)
PlacingInv ==
  /\ stage \in BeforePhis => work = {}
  /\ stage = "globals" => df \in [Blocks -> SUBSET Blocks]
  /\ stage = "phi" => PhiProofs!IInv

LEMMA InitPlacing == Init => PlacingInv
  BY DEF Init, InitFlow, InitSsa, PlacingInv, BeforePhis

(* The analysis of the graph ends with frontiers that are sets of blocks.  *)
LEMMA FlowPlacing ==
  ASSUME PlacingInv, FlowNext, UNCHANGED insertion
  PROVE  PlacingInv'
<1>1. stage \in BeforePhis /\ work' = {} /\ stage' # "phi"
  BY DEF FlowNext, MakeControlFlowGraph, VisitDominance, EndRoundOfDominance, MakeRpo,
         StartImmediateDominators, VisitBlock, EndRoundOfBlocks, PlacingInv, BeforePhis, insertion
<1>2. ASSUME stage' = "globals" PROVE df' \in [Blocks -> SUBSET Blocks]' 
  <2>1. df' = Frontiers(idom') /\ blocks' = blocks /\ edges' = edges
    BY <1>2 DEF FlowNext, MakeControlFlowGraph, VisitDominance, EndRoundOfDominance, MakeRpo,
         StartImmediateDominators, VisitBlock, EndRoundOfBlocks
  <2> QED BY <2>1 DEF Frontiers, Blocks
<1> QED BY <1>1, <1>2 DEF PlacingInv

(* insert_phi_functions starts with what it needs. *)
LEMMA GlobalsPlacing ==
  ASSUME PlacingInv, MakeGlobalsAndVarBlocks
  PROVE  PlacingInv'
<1>1. /\ stage' = "phi" /\ df' = df /\ work' = {}
      /\ df \in [Blocks -> SUBSET Blocks]
      /\ varBlocks' = [v \in VregsOf(tacs) |-> {b \in Blocks : v \in Writing(b)}]
      /\ globals' = UNION {Reading(b) : b \in Blocks}
      /\ phis' = [b \in Blocks |-> {}]
      /\ left' = globals'
  BY DEF MakeGlobalsAndVarBlocks, PlacingInv, BeforePhis, flowVars
<1>2. varBlocks' \in [VregsOf(tacs) -> SUBSET Blocks]
  BY <1>1
<1>3. globals' \in SUBSET VregsOf(tacs)
  BY <1>1 DEF Reading
<1>4. PhiProofs!TypeInv'
  BY <1>1, <1>2, <1>3 DEF PhiProofs!TypeInv, PhiProofs!FlowBlocks, PhiProofs!Vregs
<1>5. \A v : PhiProofs!Placed(v)' = {}
  BY <1>1 DEF PhiProofs!Placed
<1>6. PhiProofs!WorkInv' /\ PhiProofs!LeftInv' /\ PhiProofs!TakenInv' /\ PhiProofs!NeedInv'
  BY <1>1, <1>5 DEF PhiProofs!WorkInv, PhiProofs!LeftInv, PhiProofs!TakenInv, PhiProofs!NeedInv
<1> QED BY <1>1, <1>4, <1>6 DEF PlacingInv, PhiProofs!IInv, BeforePhis

(* The work list runs as it does on its own. *)
LEMMA PlacePhisPlacing ==
  ASSUME PlacingInv, PlacePhis
  PROVE  PlacingInv'
<1>1. stage = "phi" /\ stage' = "phi" /\ PhiProofs!PhiNext
  BY DEF PlacePhis, Phi!PhiNext, PhiProofs!PhiNext, Phi!TakeGlobal, PhiProofs!TakeGlobal,
         Phi!TakeBlock, PhiProofs!TakeBlock, Phi!inputs, PhiProofs!inputs
<1>2. PhiProofs!IInv'
  BY <1>1, PhiProofs!TakeGlobalKeepsInvariant, PhiProofs!TakeBlockKeepsInvariant
     DEF PlacingInv, PhiProofs!PhiNext
<1> QED BY <1>1, <1>2 DEF PlacingInv, BeforePhis

LEMMA NextPlacing ==
  ASSUME PlacingInv, [Next]_allVars
  PROVE  PlacingInv'
<1>1. CASE FlowNext /\ UNCHANGED <<insertion, code, class, renaming, ranges>>
  BY <1>1, FlowPlacing
<1>2. CASE InsertPhis \/ RenameEntry \/ RenameChild \/ LeaveBlock \/ MakeSets \/ JoinNames \/ MakeLiveRanges
  BY <1>2 DEF InsertPhis, RenameEntry, RenameChild, LeaveBlock, MakeSets, JoinNames, MakeLiveRanges,
              PlacingInv, BeforePhis
<1>3. CASE StartCoalescing \/ SkipCoalescing \/ CoalesceStep \/ Run
  BY <1>3 DEF StartCoalescing, SkipCoalescing, CoalesceStep, Run, PlacingInv, BeforePhis
<1>4. CASE UNCHANGED allVars
  <2>1. UNCHANGED <<stage, df, blocks, varBlocks, globals, phis, left, global, work>>
    BY <1>4 DEF allVars, ssaVars, flowVars, insertion
  <2>2. PhiProofs!IInv => PhiProofs!IInv'
    BY <2>1 DEF PhiProofs!IInv, PhiProofs!TypeInv, PhiProofs!WorkInv, PhiProofs!LeftInv,
      PhiProofs!TakenInv, PhiProofs!NeedInv, PhiProofs!Placed, PhiProofs!Closed,
      PhiProofs!FlowBlocks, PhiProofs!Vregs
  <2> QED BY <2>1, <2>2 DEF PlacingInv, Blocks
<1> QED BY <1>1, <1>2, <1>3, <1>4, GlobalsPlacing, PlacePhisPlacing DEF Next, SsaNext, Stopped

(* However the passes of ssa.c get there, insert_phi_functions ends with   *)
(* the least phi functions that the dominance frontiers of the function    *)
(* ask for.                                                                *)
THEOREM CodeHasLeastPhis == Spec => []PhisAreLeast
<1>1. Init => PlacingInv
  BY InitPlacing
<1>2. PlacingInv /\ [Next]_allVars => PlacingInv'
  BY NextPlacing
<1>3. PlacingInv => PhisAreLeast
  <2>1. PhiProofs!IInv => PhiProofs!PhisAreLeast
    BY PhiProofs!InvariantSuffices
  <2> QED BY <2>1 DEF PlacingInv, PhisAreLeast, Phi!PhisAreLeast, PhiProofs!PhisAreLeast,
      Phi!InsertionDone, PhiProofs!InsertionDone, Phi!Closed, PhiProofs!Closed, Phi!Placed, PhiProofs!Placed
<1> QED BY <1>1, <1>2, <1>3, PTL DEF Spec

-----------------------------------------------------------------------------
(* The passes that do not make the graph or its dominators leave them be.  *)
LEMMA InitFlowInv == Init => FlowInv
  BY SourceAssumption DEF Init, InitFlow, FlowInv

LEMMA NextKeepsFlow ==
  ASSUME FlowInv, [Next]_allVars
  PROVE  FlowInv'
<1>1. CASE FlowNext
  BY <1>1, FlowKeepsInv
<1>2. CASE \/ MakeGlobalsAndVarBlocks \/ PlacePhis \/ InsertPhis \/ RenameEntry \/ RenameChild
           \/ LeaveBlock \/ MakeSets \/ JoinNames \/ MakeLiveRanges
  <2>1. UNCHANGED flowVars /\ {stage, stage'} \cap {"graph", "dominance", "order", "idom"} = {}
    BY <1>2 DEF MakeGlobalsAndVarBlocks, PlacePhis, InsertPhis, RenameEntry, RenameChild, LeaveBlock,
                MakeSets, JoinNames, MakeLiveRanges
  <2> QED BY <2>1, FlowStays
<1>3. CASE StartCoalescing \/ SkipCoalescing \/ CoalesceStep \/ Run
  <2>1. UNCHANGED flowVars /\ {stage, stage'} \cap {"graph", "dominance", "order", "idom"} = {}
    BY <1>3 DEF StartCoalescing, SkipCoalescing, CoalesceStep, Run
  <2> QED BY <2>1, FlowStays
<1>4. CASE UNCHANGED allVars
  <2>1. UNCHANGED flowVars /\ stage' = stage
    BY <1>4 DEF allVars, ssaVars
  <2> QED BY <2>1, FlowStays
<1> QED BY <1>1, <1>2, <1>3, <1>4 DEF Next, SsaNext, Stopped

(* Where make_block_dominance ends, the dominators of each reached block   *)
(* are those, and, unless it follows a block that is not reached, all of   *)
(* them, that are on every way from the entry to it.                       *)
THEOREM CodeHasItsDominators == Spec => []DominatorsAreFound
<1>1. Init => FlowInv
  BY InitFlowInv
<1>2. FlowInv /\ [Next]_allVars => FlowInv'
  BY NextKeepsFlow
<1>3. FlowInv => DominatorsAreFound
  BY DominanceSuffices DEF FlowInv
<1> QED BY <1>1, <1>2, <1>3, PTL DEF Spec

(* Where make_block_immediate_dominators ends, each reached block but the  *)
(* entry is right below the nearest of its dominators: walking up two      *)
(* paths of a tree that is still being made, by the order that a search of *)
(* the graph gave, ends there.                                             *)
THEOREM CodeHasImmediateDominators == Spec => []IdomIsNearest
<1>1. Init => FlowInv
  BY InitFlowInv
<1>2. FlowInv /\ [Next]_allVars => FlowInv'
  BY NextKeepsFlow
<1>3. FlowInv => IdomIsNearest
  BY TreeSuffices
<1> QED BY <1>1, <1>2, <1>3, PTL DEF Spec

(* The frontier of a reached block, which make_block_dominance_frontiers   *)
(* finds by walking up from the predecessors of blocks that have many, is  *)
(* where its dominance ends.                                               *)
THEOREM CodeHasItsFrontiers == Spec => []FrontierEndsDominance
<1>1. Init => FlowInv
  BY InitFlowInv
<1>2. FlowInv /\ [Next]_allVars => FlowInv'
  BY NextKeepsFlow
<1>3. FlowInv => FrontierEndsDominance
  BY TreeSuffices
<1> QED BY <1>1, <1>2, <1>3, PTL DEF Spec

-----------------------------------------------------------------------------
(* The graph stays that of the trimmed source, and the code that runs is   *)
(* never at a tac that a jump before it keeps from running.                *)
RunInv ==
  /\ IsCode(source)
  /\ IF stage = "graph" THEN tacs = source
     ELSE /\ tacs = Trimmed(source)
          /\ blocks = BlocksOf(tacs)
          /\ edges = EdgesOf(tacs, blocks)
  /\ stage \notin {"run", "exit"} => ip = 1
  /\ stage = "run" => ip \in 1 .. Len(source) /\ ~AfterJump(source, ip)

LEMMA InitRun == Init => RunInv
<1> SUFFICES ASSUME Init PROVE RunInv
  OBVIOUS
<1>1. PICK s \in Sources : source = s.tacs /\ tacs = s.tacs /\ stage = "graph" /\ ip = 1
  BY DEF Init, InitFlow
<1> QED BY <1>1, SourceAssumption DEF RunInv

LEMMA FirstTacRuns ==
  ASSUME NEW t, IsCode(t)
  PROVE  1 \in 1 .. Len(t) /\ ~AfterJump(t, 1)
BY DEF IsCode, AfterJump

(* Where the code goes on is along an edge, and not behind a jump.         *)
LEMMA RunGoesAlongEdges ==
  ASSUME RunInv, Run, stage' = "run"
  PROVE  /\ ip' \in 1 .. Len(source) /\ ~AfterJump(source, ip')
         /\ \/ ip' = ip + 1 /\ BlockOf(ip') = BlockOf(ip)
            \/ <<BlockOf(ip), BlockOf(ip')>> \in Range(edges)
<1> DEFINE s == source
           t == Trimmed(source)
           bs == BlocksOf(t)
           b == BlockOf(ip)
           l == s[ip].target
<1>1. /\ IsCode(s) /\ tacs = t /\ blocks = bs /\ edges = EdgesOf(t, bs)
      /\ ip \in 1 .. Len(s) /\ ~AfterJump(s, ip)
  BY DEF RunInv, Run
<1>2. ip' \in After(ip) /\ ip' # 0
  BY DEF Run
<1>3. /\ IsCode(t) /\ Len(t) = Len(s) /\ Len(s) \in Nat
      /\ \A i \in 1 .. Len(s) : t[i].label = s[i].label
  BY <1>1, TrimmedIsCode
<1>4. \A i \in 1 .. Len(s) : BlockOf(i) \in DOMAIN bs /\ Within(t, BlockOf(i), i)
  <2> SUFFICES ASSUME NEW i \in 1 .. Len(s) PROVE BlockOf(i) \in DOMAIN bs /\ Within(t, BlockOf(i), i)
    OBVIOUS
  <2>1. BlockOf(i) = CHOOSE c \in DOMAIN bs : Within(t, c, i)
    BY <1>1 DEF BlockOf, Blocks, Within
  <2> HIDE DEF bs
  <2> QED BY <1>1, <1>3, <2>1, OneBlockEach DEF bs
<1>5. \A i \in 1 .. Len(s), c \in DOMAIN bs : Within(t, c, i) => BlockOf(i) = c
  BY <1>3, <1>4, OneBlockEach
<1>6. /\ t[ip] = s[ip]
      /\ s[ip].op \in Jumps \/ ip = bs[b].end => Leaves(t, bs[b]) = s[ip]
  BY <1>1, <1>4, RunningTacDecides
<1>7. \A c \in Range(GoesTo(t, bs, b)) : <<b, c>> \in Range(edges)
  BY <1>1, <1>3, <1>4, EdgesLeadOn
<1>8. /\ l # 0 /\ ip' \in 1 .. Len(s) /\ s[ip'].label = l =>
           /\ ~AfterJump(s, ip')
           /\ BlockOf(ip') \in Range(Labelled(t, bs, l))
      /\ l # 0 => Labelled(t, bs, l) \in Seq(DOMAIN bs \ {0})
  <2> SUFFICES ASSUME l # 0
               PROVE  /\ ip' \in 1 .. Len(s) /\ s[ip'].label = l =>
                           ~AfterJump(s, ip') /\ BlockOf(ip') \in Range(Labelled(t, bs, l))
                      /\ Labelled(t, bs, l) \in Seq(DOMAIN bs \ {0})
    OBVIOUS
  <2>1. /\ Labelled(t, bs, l) \in Seq(DOMAIN bs \ {0})
        /\ \A c \in DOMAIN bs : t[bs[c].start].label = l => c \in Range(Labelled(t, bs, l))
    BY <1>3, LabelledBlocks
  <2>2. ASSUME ip' \in 1 .. Len(s), s[ip'].label = l
        PROVE  ~AfterJump(s, ip') /\ BlockOf(ip') \in Range(Labelled(t, bs, l))
    <3>1. t[ip'].label = l
      BY <1>3, <2>2
    <3>2. ip' \in Starts(t)
      BY <1>3, <2>2, <3>1 DEF Starts
    <3>3. BlockOf(ip') \in DOMAIN bs /\ bs[BlockOf(ip')].start = ip'
      <4>1. BlockOf(ip') \in DOMAIN bs /\ Within(t, BlockOf(ip'), ip') /\ ip' \in 1 .. Len(t)
        BY <1>3, <1>4, <2>2
      <4>2. \A c \in DOMAIN bs : Within(t, c, ip') => bs[c].start = ip'
        <5> HIDE DEF t
        <5> QED BY <1>3, <3>2, <4>1, StartsBeginBlocks
      <4> QED BY <4>1, <4>2
    <3>4. ~AfterJump(s, ip')
      <4>1. \A i \in Nat : \A j \in 1 .. i - 1 : i \in j + 1 .. i
        OBVIOUS
      <4>2. ip' \in Nat
        BY <1>3, <2>2
      <4> HIDE DEF s, l
      <4> QED BY <2>2, <4>1, <4>2 DEF AfterJump
    <3> QED BY <2>1, <3>1, <3>3, <3>4
  <2> QED BY <2>1, <2>2
<1>9. s[ip].op \in Jumps \cup ConditionalJumps => l # 0
  BY <1>1 DEF IsCode
<1>10. ip + 1 \in Starts(t) => /\ b + 1 \in DOMAIN bs /\ bs[b].end = ip
                               /\ ip + 1 \in 1 .. Len(s) /\ BlockOf(ip + 1) = b + 1
  <2> SUFFICES ASSUME ip + 1 \in Starts(t)
               PROVE  /\ b + 1 \in DOMAIN bs /\ bs[b].end = ip
                      /\ ip + 1 \in 1 .. Len(s) /\ BlockOf(ip + 1) = b + 1
    OBVIOUS
  <2>1. b + 1 \in DOMAIN bs /\ Within(t, b + 1, ip + 1) /\ bs[b].end = ip
    BY <1>1, <1>3, <1>4, StartsBeginBlocks
  <2>2. ip + 1 \in 1 .. Len(s)
    BY <1>3, StartsAreNumbered
  <2> QED BY <1>5, <2>1, <2>2
<1>11. ASSUME ip + 1 \in 1 .. Len(s), s[ip].op \notin Jumps PROVE ~AfterJump(s, ip + 1)
  <2> SUFFICES ASSUME NEW j \in 1 .. (ip + 1) - 1, s[j].op \in Jumps,
                      \A k \in j + 1 .. ip + 1 : s[k].label = 0
               PROVE  FALSE
    BY DEF AfterJump
  <2>1. j # ip /\ ip \in Nat
    BY <1>1, <1>11
  <2>2. j \in 1 .. ip - 1 /\ \A k \in j + 1 .. ip : k \in j + 1 .. ip + 1
    BY <2>1
  <2> QED BY <1>1, <2>2 DEF AfterJump
<1>12. GoesTo(t, bs, b) = LET tac == Leaves(t, bs[b])
                          IN IF tac.op \in Jumps THEN Labelled(t, bs, tac.target)
                             ELSE IF tac.op \in ConditionalJumps THEN Labelled(t, bs, tac.target) \o <<b + 1>>
                             ELSE IF tac.op # "IR_RETURN" /\ b + 1 \in DOMAIN bs THEN <<b + 1>> ELSE <<>>
  BY DEF GoesTo
<1>13. After(ip) = LET target == {j \in 1 .. Len(s) : s[j].label = l}
                       next == IF ip < Len(s) THEN {ip + 1} ELSE {0}
                   IN CASE s[ip].op \in Jumps -> target
                        [] s[ip].op \in ConditionalJumps -> target \cup next
                        [] s[ip].op = "IR_RETURN" -> {0}
                        [] OTHER -> next
  BY DEF After
<1>14. /\ \A o \in ConditionalJumps : o \notin Jumps /\ o # "IR_RETURN"
       /\ "IR_RETURN" \notin Jumps \cup ConditionalJumps
  BY DEF Jumps, ConditionalJumps
<1> HIDE DEF s, t, bs, b, l
<1>15. CASE s[ip].op \in Jumps
  <2>1. ip' \in 1 .. Len(s) /\ s[ip'].label = l
    BY <1>2, <1>13, <1>14, <1>15
  <2>2. GoesTo(t, bs, b) = Labelled(t, bs, l)
    BY <1>6, <1>12, <1>15 DEF l
  <2> QED BY <1>7, <1>8, <1>9, <1>15, <2>1, <2>2 DEF s, b
<1>16. CASE s[ip].op \in ConditionalJumps
  <2>1. s[ip].op \notin Jumps /\ l # 0
    BY <1>9, <1>14, <1>16
  <2>2. ip < Len(s)
    <3>1. ip # Len(s)
      BY <1>1, <1>16 DEF IsCode
    <3> QED BY <1>1, <1>3, <3>1
  <2>3. ip + 1 \in Starts(t)
    <3>1. ip + 1 \in 1 .. Len(t) /\ (ip + 1) - 1 = ip
      BY <1>1, <1>3, <2>2
    <3> QED BY <1>6, <1>16, <3>1 DEF Starts
  <2>4. GoesTo(t, bs, b) = Labelled(t, bs, l) \o <<b + 1>>
    BY <1>6, <1>10, <1>12, <1>16, <2>1, <2>3 DEF l
  <2>5. /\ Range(Labelled(t, bs, l)) \subseteq Range(GoesTo(t, bs, b))
        /\ b + 1 \in Range(GoesTo(t, bs, b))
    <3>1. \A S : \A q \in Seq(S), x \in S : Range(q) \subseteq Range(q \o <<x>>) /\ x \in Range(q \o <<x>>)
      <4> SUFFICES ASSUME NEW S, NEW q \in Seq(S), NEW x \in S
                   PROVE  Range(q) \subseteq Range(q \o <<x>>) /\ x \in Range(q \o <<x>>)
        OBVIOUS
      <4>1. /\ DOMAIN (q \o <<x>>) = 1 .. Len(q) + 1 /\ DOMAIN q = 1 .. Len(q) /\ Len(q) \in Nat
            /\ \A k \in 1 .. Len(q) : (q \o <<x>>)[k] = q[k]
            /\ (q \o <<x>>)[Len(q) + 1] = x
        OBVIOUS
      <4>2. 1 .. Len(q) \subseteq 1 .. Len(q) + 1 /\ Len(q) + 1 \in 1 .. Len(q) + 1
        BY <4>1
      <4> QED BY <4>1, <4>2 DEF Range
    <3>2. b + 1 \in DOMAIN bs \ {0}
      <4>1. b + 1 # 0
        <5>1. b \in DOMAIN bs
          BY <1>1, <1>4 DEF b
        <5>2. PICK k \in Nat \ {0} : DOMAIN bs = 0 .. k - 1
          BY <1>3, BlocksAreNumbered DEF bs
        <5> QED BY <5>1, <5>2
      <4> QED BY <1>10, <2>3, <4>1
    <3> QED BY <1>8, <2>1, <2>4, <3>1, <3>2
  <2>6. CASE ip' \in 1 .. Len(s) /\ s[ip'].label = l
    BY <1>7, <1>8, <2>1, <2>5, <2>6 DEF s, b
  <2>7. CASE ip' = ip + 1
    BY <1>7, <1>10, <1>11, <2>1, <2>3, <2>5, <2>7 DEF s, b
  <2>8. ip' = ip + 1 \/ (ip' \in 1 .. Len(s) /\ s[ip'].label = l)
    BY <1>2, <1>13, <1>14, <1>16, <2>1, <2>2
  <2> QED BY <2>6, <2>7, <2>8
<1>17. CASE s[ip].op \notin Jumps \cup ConditionalJumps
  <2>1. s[ip].op # "IR_RETURN" /\ ip < Len(s) /\ ip' = ip + 1
    BY <1>2, <1>13, <1>17
  <2>2. ip + 1 \in 1 .. Len(s)
    BY <1>1, <1>3, <2>1
  <2>3. CASE ip + 1 \in Starts(t)
    <3>1. GoesTo(t, bs, b) = <<b + 1>>
      BY <1>6, <1>10, <1>12, <1>17, <2>1, <2>3
    <3>2. b + 1 \in Range(GoesTo(t, bs, b))
      BY <3>1 DEF Range
    <3> QED BY <1>7, <1>10, <1>11, <1>17, <2>1, <2>3, <3>2 DEF s, b
  <2>4. CASE ip + 1 \notin Starts(t)
    <3>1. Within(t, b, ip + 1)
      BY <1>1, <1>3, <1>4, <2>2, <2>4, StartsBeginBlocks DEF b, bs
    <3>2. BlockOf(ip + 1) = b
      BY <1>1, <1>4, <1>5, <2>2, <3>1 DEF b
    <3> QED BY <1>11, <1>17, <2>1, <2>2, <3>2 DEF s, b
  <2> QED BY <2>3, <2>4
<1> QED BY <1>15, <1>16, <1>17

LEMMA NextKeepsRun ==
  ASSUME RunInv, [Next]_allVars
  PROVE  RunInv'
<1>1. CASE MakeControlFlowGraph /\ UNCHANGED <<insertion, code, class, renaming, ranges>>
                                /\ UNCHANGED <<graphVars, roundVars, machine>>
  BY <1>1 DEF MakeControlFlowGraph, RunInv, machine
<1>2. CASE /\ FlowNext /\ ~MakeControlFlowGraph
           /\ UNCHANGED <<insertion, code, class, renaming, ranges>>
           /\ UNCHANGED <<graphVars, roundVars, machine>>
  <2>1. /\ stage \notin {"graph", "run", "exit"} /\ stage' \notin {"graph", "run", "exit"}
        /\ UNCHANGED <<tacs, blocks, edges>>
    BY <1>2 DEF FlowNext, VisitDominance, EndRoundOfDominance, MakeRpo, StartImmediateDominators,
                VisitBlock, EndRoundOfBlocks
  <2>2. UNCHANGED <<source, ip>>
    BY <1>2 DEF machine
  <2> QED BY <2>1, <2>2 DEF RunInv
<1>3. CASE /\ \/ MakeGlobalsAndVarBlocks \/ PlacePhis \/ InsertPhis \/ RenameEntry \/ RenameChild
              \/ LeaveBlock \/ MakeSets \/ JoinNames \/ MakeLiveRanges
           /\ UNCHANGED <<graphVars, roundVars, machine>>
  <2>1. /\ stage \notin {"graph", "run", "exit"} /\ stage' \notin {"graph", "run", "exit"}
        /\ UNCHANGED flowVars
    BY <1>3 DEF MakeGlobalsAndVarBlocks, PlacePhis, InsertPhis, RenameEntry, RenameChild, LeaveBlock,
                MakeSets, JoinNames, MakeLiveRanges
  <2>2. UNCHANGED <<tacs, blocks, edges, source, ip>>
    BY <1>3, <2>1 DEF flowVars, machine
  <2> QED BY <2>1, <2>2 DEF RunInv
<1>4. CASE StartCoalescing \/ SkipCoalescing \/ CoalesceStep
  <2>1. /\ stage \notin {"graph", "run", "exit"} /\ stage' \notin {"graph", "exit"}
        /\ UNCHANGED flowVars /\ UNCHANGED machine
    BY <1>4 DEF StartCoalescing, SkipCoalescing, CoalesceStep
  <2>2. UNCHANGED <<tacs, blocks, edges, source, ip>>
    BY <2>1 DEF flowVars, machine
  <2> QED BY <2>1, <2>2, FirstTacRuns DEF RunInv
<1>5. CASE Run
  <2>1. /\ stage = "run" /\ stage' \in {"run", "exit"} /\ UNCHANGED <<tacs, blocks, edges, source>>
    BY <1>5 DEF Run, flowVars
  <2>2. CASE stage' = "run"
    BY <1>5, <2>1, <2>2, RunGoesAlongEdges DEF RunInv
  <2>3. CASE stage' = "exit"
    BY <2>1, <2>3 DEF RunInv
  <2> QED BY <2>1, <2>2, <2>3
<1>6. CASE UNCHANGED allVars
  BY <1>6 DEF allVars, ssaVars, flowVars, machine, RunInv
<1> QED BY <1>1, <1>2, <1>3, <1>4, <1>5, <1>6 DEF Next, SsaNext, Stopped

(* The code never goes from block to block but along an edge of the graph  *)
(* that make_control_flow_graph made of it, not even out of the middle of  *)
(* a block that a jump leaves.                                             *)
THEOREM CodeRunsAlongEdges == Spec => RunsAlongEdges
<1>1. Init => RunInv
  BY InitRun
<1>2. RunInv /\ [Next]_allVars => RunInv'
  BY NextKeepsRun
<1>3. RunInv /\ [Next]_allVars =>
        [(stage = "run" /\ stage' = "run") =>
           \/ ip' = ip + 1 /\ BlockOf(ip') = BlockOf(ip)
           \/ <<BlockOf(ip), BlockOf(ip')>> \in Range(edges)]_allVars
  <2> SUFFICES ASSUME RunInv, Next, stage = "run", stage' = "run"
               PROVE  \/ ip' = ip + 1 /\ BlockOf(ip') = BlockOf(ip)
                      \/ <<BlockOf(ip), BlockOf(ip')>> \in Range(edges)
    OBVIOUS
  <2>1. Run
    BY DEF Next, SsaNext, FlowNext, MakeControlFlowGraph, VisitDominance, EndRoundOfDominance, MakeRpo,
           StartImmediateDominators, VisitBlock, EndRoundOfBlocks, MakeGlobalsAndVarBlocks, PlacePhis,
           InsertPhis, RenameEntry, RenameChild, LeaveBlock, MakeSets, JoinNames, MakeLiveRanges,
           StartCoalescing, SkipCoalescing, CoalesceStep, Stopped
  <2> QED BY <2>1, RunGoesAlongEdges
<1> QED BY <1>1, <1>2, <1>3, PTL DEF Spec, RunsAlongEdges

-----------------------------------------------------------------------------
(* Renaming.  The code that rename_vars walks: its tacs have values, which *)
(* are vregs of the source, and subscripts.                                *)
Numbers == Nat \cup {-1}
IsTac(tac) ==
  /\ {"op", "dst", "src1", "src2", "subs"} \subseteq DOMAIN tac
  /\ {tac.dst, tac.src1, tac.src2} \subseteq VregsOf(tacs) \cup {0}
  /\ tac.subs.dst \in Numbers /\ tac.subs.src1 \in Numbers /\ tac.subs.src2 \in Numbers
Shape ==
  /\ DOMAIN code = Blocks
  /\ \A b \in Blocks : /\ DOMAIN code[b] = 1 .. Len(code[b]) /\ Len(code[b]) \in Nat
                       /\ \A i \in 1 .. Len(code[b]) : IsTac(code[b][i])

(* How often a vreg is written before a tac grows from tac to tac.         *)
LEMMA WritesGrow ==
  ASSUME Shape, NEW b \in Blocks, NEW v
  PROVE  /\ \A i \in 1 .. Len(code[b]) + 1 : WritesBefore(b, i, v) \in Nat
         /\ \A i, j \in 1 .. Len(code[b]) + 1 : i <= j => WritesBefore(b, i, v) <= WritesBefore(b, j, v)
         /\ \A i \in 1 .. Len(code[b]), j \in 1 .. Len(code[b]) + 1 :
              i < j /\ code[b][i].dst = v => WritesBefore(b, i, v) < WritesBefore(b, j, v)
         /\ Writes(b, v) \in Nat
         /\ \A i \in 1 .. Len(code[b]) + 1 : WritesBefore(b, i, v) <= Writes(b, v)
         /\ \A i \in 1 .. Len(code[b]) : code[b][i].dst = v => WritesBefore(b, i, v) < Writes(b, v)
<1> DEFINE P(i) == {j \in 1 .. i - 1 : code[b][j].dst = v}
           n == Len(code[b])
<1>1. n \in Nat
  BY DEF Shape
<1>2. \A i \in 1 .. n + 1 : IsFiniteSet(P(i)) /\ Cardinality(P(i)) \in Nat
  <2> SUFFICES ASSUME NEW i \in 1 .. n + 1 PROVE IsFiniteSet(P(i)) /\ Cardinality(P(i)) \in Nat
    OBVIOUS
  <2>1. IsFiniteSet(1 .. i - 1)
    BY <1>1, FS_Interval
  <2>2. P(i) \subseteq 1 .. i - 1
    OBVIOUS
  <2> HIDE DEF P
  <2> QED BY <2>1, <2>2, FS_Subset, FS_CardinalityType
<1>3. \A i, j \in 1 .. n + 1 : i <= j => Cardinality(P(i)) <= Cardinality(P(j))
  <2> SUFFICES ASSUME NEW i \in 1 .. n + 1, NEW j \in 1 .. n + 1, i <= j
               PROVE  Cardinality(P(i)) <= Cardinality(P(j))
    OBVIOUS
  <2>1. P(i) \subseteq P(j)
    BY <1>1
  <2> HIDE DEF P
  <2> QED BY <1>2, <2>1, FS_Subset
<1>4. \A i \in 1 .. n, j \in 1 .. n + 1 :
        i < j /\ code[b][i].dst = v => Cardinality(P(i)) < Cardinality(P(j))
  <2> SUFFICES ASSUME NEW i \in 1 .. n, NEW j \in 1 .. n + 1, i < j, code[b][i].dst = v
               PROVE  Cardinality(P(i)) < Cardinality(P(j))
    OBVIOUS
  <2>1. P(i) \cup {i} \subseteq P(j) /\ i \notin P(i) /\ i \in 1 .. n + 1
    BY <1>1
  <2> HIDE DEF P
  <2>2. Cardinality(P(i) \cup {i}) = Cardinality(P(i)) + 1
    BY <1>2, <2>1, FS_AddElement
  <2>3. Cardinality(P(i) \cup {i}) <= Cardinality(P(j))
    BY <1>2, <2>1, FS_Subset
  <2> QED BY <1>2, <2>1, <2>2, <2>3
<1>5. \A i : WritesBefore(b, i, v) = Cardinality(P(i))
  BY DEF WritesBefore
<1>6. Writes(b, v) = Cardinality(P(n + 1)) /\ n + 1 \in 1 .. n + 1
  BY <1>1 DEF Writes, WritesBefore
<1> HIDE DEF P
<1>7. \A i \in 1 .. n + 1 : i <= n + 1
  BY <1>1
<1>8. \A i \in 1 .. n : i \in 1 .. n + 1 /\ i < n + 1
  BY <1>1
<1>9. /\ \A i \in 1 .. n + 1 : WritesBefore(b, i, v) \in Nat
      /\ \A i, j \in 1 .. n + 1 : i <= j => WritesBefore(b, i, v) <= WritesBefore(b, j, v)
      /\ \A i \in 1 .. n, j \in 1 .. n + 1 :
           i < j /\ code[b][i].dst = v => WritesBefore(b, i, v) < WritesBefore(b, j, v)
      /\ Writes(b, v) = WritesBefore(b, n + 1, v)
  BY <1>2, <1>3, <1>4, <1>5, <1>6
<1> QED BY ONLY <1>6, <1>7, <1>8, <1>9

(* Filling the arguments of a phi function is all that is done to it.      *)
LEMMA FilledKeeps ==
  ASSUME NEW b, NEW s, NEW tac, NEW x \in DOMAIN tac, x # "args"
  PROVE  DOMAIN Filled(b, s, tac) = DOMAIN tac /\ Filled(b, s, tac)[x] = tac[x]
BY DEF Filled

LEMMA NamingKeeps ==
  ASSUME NEW tac, NEW subs, NEW x \in DOMAIN tac, "subs" \in DOMAIN tac
  PROVE  /\ DOMAIN [tac EXCEPT !.subs = subs] = DOMAIN tac
         /\ x # "subs" => [tac EXCEPT !.subs = subs][x] = tac[x]
         /\ [tac EXCEPT !.subs = subs].subs = subs
OBVIOUS

(* What a call of rename_vars does to the code: it gives subscripts to the *)
(* values of a block.                                                      *)
LEMMA EnterNames ==
  ASSUME Shape, NEW b \in Blocks, NEW callers, EnterBlock(b, callers)
  PROVE  /\ DOMAIN code' = Blocks
         /\ \A c \in Blocks : /\ Len(code'[c]) = Len(code[c]) /\ DOMAIN code'[c] = 1 .. Len(code[c])
              /\ \A i \in 1 .. Len(code[c]) :
                   /\ DOMAIN code'[c][i] = DOMAIN code[c][i]
                   /\ code'[c][i].dst = code[c][i].dst
                   /\ code'[c][i].src1 = code[c][i].src1 /\ code'[c][i].src2 = code[c][i].src2
                   /\ code'[c][i].subs = IF c = b THEN Subscripts(b, i) ELSE code[c][i].subs
<1> DEFINE R(c) == IF c = b THEN RenamedBlock(b) ELSE code[c]
           D == {"op", "dst", "src1", "src2", "subs"}
<1>1. code' = [c \in Blocks |-> [i \in 1 .. Len(R(c)) |-> Filled(b, c, R(c)[i])]]
  BY DEF EnterBlock
<1>2. \A c \in Blocks : /\ Len(R(c)) = Len(code[c]) /\ Len(code[c]) \in Nat
        /\ \A i \in 1 .. Len(code[c]) :
             R(c)[i] = IF c = b THEN [code[b][i] EXCEPT !.subs = Subscripts(b, i)] ELSE code[c][i]
  <2>1. Len(code[b]) \in Nat
    BY DEF Shape
  <2>2. /\ Len(RenamedBlock(b)) = Len(code[b])
        /\ \A i \in 1 .. Len(code[b]) : RenamedBlock(b)[i] = [code[b][i] EXCEPT !.subs = Subscripts(b, i)]
    BY <2>1 DEF RenamedBlock
  <2> QED BY <2>2 DEF Shape
<1> HIDE DEF R
<1> SUFFICES ASSUME NEW c \in Blocks
             PROVE  /\ Len(code'[c]) = Len(code[c]) /\ DOMAIN code'[c] = 1 .. Len(code[c])
                    /\ \A i \in 1 .. Len(code[c]) :
                         /\ DOMAIN code'[c][i] = DOMAIN code[c][i]
                         /\ code'[c][i].dst = code[c][i].dst
                         /\ code'[c][i].src1 = code[c][i].src1 /\ code'[c][i].src2 = code[c][i].src2
                         /\ code'[c][i].subs = IF c = b THEN Subscripts(b, i) ELSE code[c][i].subs
  BY <1>1
<1>3. code'[c] = [i \in 1 .. Len(code[c]) |-> Filled(b, c, R(c)[i])]
  BY <1>1, <1>2
<1>4. Len(code'[c]) = Len(code[c]) /\ DOMAIN code'[c] = 1 .. Len(code[c])
  BY <1>2, <1>3
<1>5. ASSUME NEW i \in 1 .. Len(code[c])
      PROVE  /\ DOMAIN code'[c][i] = DOMAIN code[c][i]
             /\ code'[c][i].dst = code[c][i].dst
             /\ code'[c][i].src1 = code[c][i].src1 /\ code'[c][i].src2 = code[c][i].src2
             /\ code'[c][i].subs = IF c = b THEN Subscripts(b, i) ELSE code[c][i].subs
  <2> DEFINE t == code[c][i]
             r == R(c)[i]
             f == Filled(b, c, r)
  <2>1. D \subseteq DOMAIN t
    BY DEF Shape, IsTac
  <2>2. DOMAIN r = DOMAIN t /\ r.dst = t.dst /\ r.src1 = t.src1 /\ r.src2 = t.src2
        /\ r.subs = IF c = b THEN Subscripts(b, i) ELSE t.subs
    <3>1. CASE c = b
      <4>1. r = [t EXCEPT !.subs = Subscripts(b, i)]
        BY <1>2, <3>1
      <4> HIDE DEF t, r
      <4> QED BY <2>1, <3>1, <4>1, NamingKeeps
    <3>2. CASE c # b
      BY <1>2, <3>2
    <3> QED BY <3>1, <3>2
  <2>3. code'[c][i] = f
    BY <1>3
  <2> HIDE DEF t, r
  <2>4. \A x \in D : DOMAIN f = DOMAIN r /\ f[x] = r[x]
    BY <2>1, <2>2, FilledKeeps
  <2> HIDE DEF f
  <2>5. DOMAIN f = DOMAIN r /\ f.dst = r.dst /\ f.src1 = r.src1 /\ f.src2 = r.src2 /\ f.subs = r.subs
    BY <2>4
  <2> QED BY <2>2, <2>3, <2>5 DEF t
<1> QED BY <1>4, <1>5

(* The tac i of block b writes the name of v with the subscript s.         *)
Defines(b, i, v, s) ==
  b \in Blocks /\ i \in 1 .. Len(code[b]) /\ code[b][i].dst = v /\ code[b][i].subs.dst = s
Reads(b, i, f, v, s) ==
  b \in Blocks /\ i \in 1 .. Len(code[b]) /\ code[b][i][f] = v /\ code[b][i].subs[f] = s

(* Subscripts come from the counters, and each is given to one write.      *)
NamesInv ==
  /\ counters \in [VregsOf(tacs) -> Nat]
  /\ \A b, i : \A v \in VregsOf(tacs), s \in Nat : Defines(b, i, v, s) => s < counters[v]
  /\ \A b, i, c, j : \A v \in VregsOf(tacs), s \in Nat :
       Defines(b, i, v, s) /\ Defines(c, j, v, s) => b = c /\ i = j

(* A name that is read is written by nothing that comes later.             *)
ReadsInv ==
  \A b, i : \A f \in {"src1", "src2"}, v \in VregsOf(tacs), s \in Nat : Reads(b, i, f, v, s) =>
    /\ s < counters[v]
    /\ \A c, j : Defines(c, j, v, s) => Comes(<<c, j>>, <<b, i>>)

(* The calls go down the tree: the blocks of the outer ones dominate those *)
(* of the inner ones.                                                      *)
Stacks == [VregsOf(tacs) -> Seq(Nat)]
CallsInv ==
  /\ calls \in Seq([block : Reached, child : Int, found : Stacks])
  /\ \A k \in 1 .. Len(calls), l \in 1 .. Len(calls) :
       k < l => /\ calls[l].block \in Dominators(calls[k].block)
                /\ calls[l].block # calls[k].block

LEMMA CallFacts ==
  ASSUME CallsInv, NEW k \in 1 .. Len(calls)
  PROVE  calls[k].block \in Reached /\ calls[k].child \in Int /\ calls[k].found \in Stacks
<1> DEFINE Call == [block : Reached, child : Int, found : Stacks]
<1>1. \A c \in Call : c.block \in Reached /\ c.child \in Int /\ c.found \in Stacks
  OBVIOUS
<1>2. calls \in Seq(Call)
  BY DEF CallsInv
<1> HIDE DEF Call
<1> QED BY <1>1, <1>2

(* What the stacks are, or will be when a call is the innermost again.     *)
Now(k) == IF k = 1 THEN stack ELSE calls[k - 1].found

(* The top of a stack are the subscripts its call has pushed: one for each *)
(* write of the block.  Below is what was found, or at most one subscript  *)
(* that nothing writes.  All the others belong to blocks of open calls,    *)
(* and those below to blocks further out.                                  *)
Pushed(now, found, w) ==
  /\ found # <<>> => Len(now) = w + Len(found) /\ \A m \in 1 .. Len(found) : now[w + m] = found[m]
  /\ found = <<>> => Len(now) = w \/ Len(now) = w + 1
Belongs(k, v, s) ==
  /\ s < counters[v]
  /\ \A b, i : Defines(b, i, v, s) => \E l \in k .. Len(calls) : b = calls[l].block
StacksInv ==
  /\ stack \in Stacks
  /\ calls = <<>> /\ stage = "rename" => \A v \in VregsOf(tacs) : stack[v] = <<>>
  /\ \A k \in 1 .. Len(calls), v \in VregsOf(tacs), b \in Reached : b = calls[k].block =>
       /\ Pushed(Now(k)[v], calls[k].found[v], Writes(b, v))
       /\ \A m \in 1 .. Len(Now(k)[v]), s \in Nat : s = Now(k)[v][m] =>
            Belongs(k, v, s) /\ (m > Writes(b, v) => Belongs(k + 1, v, s))

(* A reached block has its names, or it is still ahead: below a block that *)
(* an open call has still to go into.                                      *)
Named(b) == \A i \in 1 .. Len(code[b]) : code[b][i].dst # 0 => code[b][i].subs.dst # -1
ToCome(b) ==
  \E k \in 1 .. Len(calls), c \in Reached \ {0} :
    idom[c] = calls[k].block /\ c > calls[k].child /\ c \in Dominators(b)
WalkInv ==
  /\ stage = "rename" => calls = <<>>
  /\ stage = "renaming" => \A b \in Reached : Named(b) \/ ToCome(b)

RenameInv == Shape /\ NamesInv /\ ReadsInv /\ CallsInv /\ StacksInv /\ WalkInv

-----------------------------------------------------------------------------
(* The subscripts that a call gives to a tac.                              *)
LEMMA SubscriptsGiven ==
  ASSUME Shape, counters \in [VregsOf(tacs) -> Nat], stack \in Stacks,
         NEW b \in Blocks, NEW i \in 1 .. Len(code[b])
  PROVE  /\ code[b][i].dst = 0 => Subscripts(b, i).dst = -1
         /\ \A v \in VregsOf(tacs) : code[b][i].dst = v =>
              Subscripts(b, i).dst = counters[v] + Undefined(b, v) + WritesBefore(b, i, v)
         /\ \A f \in {"src1", "src2"} : code[b][i][f] = 0 => Subscripts(b, i)[f] = -1
         /\ \A f \in {"src1", "src2"}, v \in VregsOf(tacs) : code[b][i][f] = v =>
              /\ WritesBefore(b, i, v) > 0 =>
                   Subscripts(b, i)[f] = counters[v] + Undefined(b, v) + WritesBefore(b, i, v) - 1
              /\ WritesBefore(b, i, v) = 0 /\ stack[v] = <<>> =>
                   Subscripts(b, i)[f] = counters[v] /\ Undefined(b, v) = 1
              /\ WritesBefore(b, i, v) = 0 /\ stack[v] # <<>> => Subscripts(b, i)[f] = stack[v][1]
<1> DEFINE tac == code[b][i]
           read(v) == IF v = 0 THEN -1 ELSE Top(b, v, WritesBefore(b, i, v))
<1>1. /\ Subscripts(b, i).dst = IF tac.dst = 0 THEN -1 ELSE Top(b, tac.dst, WritesBefore(b, i, tac.dst) + 1)
      /\ Subscripts(b, i)["src1"] = read(tac["src1"])
      /\ Subscripts(b, i)["src2"] = read(tac["src2"])
  BY DEF Subscripts
<1>2. i \in 1 .. Len(code[b]) + 1 /\ \A v : WritesBefore(b, i, v) \in Nat
  <2>1. i \in 1 .. Len(code[b]) + 1
    BY DEF Shape
  <2> QED BY <2>1, WritesGrow
<1>3. 0 \notin VregsOf(tacs)
  BY DEF VregsOf
<1>4. \A v \in VregsOf(tacs) : counters[v] \in Nat /\ Undefined(b, v) \in {0, 1}
  BY DEF Undefined
<1>5. ASSUME NEW v \in VregsOf(tacs), tac.dst = v
      PROVE  Subscripts(b, i).dst = counters[v] + Undefined(b, v) + WritesBefore(b, i, v)
  <2>1. Subscripts(b, i).dst = Top(b, v, WritesBefore(b, i, v) + 1)
    BY <1>1, <1>3, <1>5
  <2>2. Top(b, v, WritesBefore(b, i, v) + 1) = counters[v] + Undefined(b, v) + (WritesBefore(b, i, v) + 1) - 1
    BY <1>2 DEF Top
  <2> HIDE DEF tac
  <2> QED BY <1>2, <1>4, <2>1, <2>2
<1>6. ASSUME NEW f \in {"src1", "src2"}, NEW v \in VregsOf(tacs), tac[f] = v
      PROVE  /\ WritesBefore(b, i, v) > 0 =>
                  Subscripts(b, i)[f] = counters[v] + Undefined(b, v) + WritesBefore(b, i, v) - 1
             /\ WritesBefore(b, i, v) = 0 /\ stack[v] = <<>> =>
                  Subscripts(b, i)[f] = counters[v] /\ Undefined(b, v) = 1
             /\ WritesBefore(b, i, v) = 0 /\ stack[v] # <<>> => Subscripts(b, i)[f] = stack[v][1]
  <2>1. Subscripts(b, i)[f] = Top(b, v, WritesBefore(b, i, v))
    BY <1>1, <1>3, <1>6
  <2>2. v \in Operands(code[b][i])
    BY <1>3, <1>6 DEF Operands
  <2>3. WritesBefore(b, i, v) = 0 => ReadsFirst(b, v)
    BY <2>2 DEF ReadsFirst
  <2>4. stack[v] \in Seq(Nat)
    BY DEF Stacks
  <2>5. stack[v] # <<>> => Head(stack[v]) = stack[v][1]
    BY <2>4
  <2>6. WritesBefore(b, i, v) = 0 /\ stack[v] = <<>> => Undefined(b, v) = 1
    BY <2>3 DEF Undefined
  <2> QED BY <1>2, <2>1, <2>5, <2>6 DEF Top
<1>7. \A f \in {"src1", "src2"} : tac[f] = 0 => Subscripts(b, i)[f] = -1
  BY <1>1
<1> QED BY <1>1, <1>5, <1>6, <1>7

(* The names that are there after a call are those of other blocks from    *)
(* before, and in its own block those beyond the counters.                 *)
LEMMA EnterDefines ==
  ASSUME Shape, counters \in [VregsOf(tacs) -> Nat], stack \in Stacks,
         NEW b \in Blocks, NEW callers, EnterBlock(b, callers), Blocks' = Blocks,
         NEW c, NEW j, NEW v \in VregsOf(tacs), NEW s \in Nat, Defines(c, j, v, s)'
  PROVE  \/ c # b /\ Defines(c, j, v, s)
         \/ /\ c = b /\ j \in 1 .. Len(code[b]) /\ code[b][j].dst = v
            /\ s = counters[v] + Undefined(b, v) + WritesBefore(b, j, v)
            /\ s >= counters[v] + Undefined(b, v)
<1>1. c \in Blocks /\ j \in 1 .. Len(code'[c]) /\ code'[c][j].dst = v /\ code'[c][j].subs.dst = s
  BY DEF Defines
<1>2. /\ Len(code'[c]) = Len(code[c])
      /\ j \in 1 .. Len(code[c]) => 
           /\ code'[c][j].dst = code[c][j].dst
           /\ code'[c][j].subs = IF c = b THEN Subscripts(b, j) ELSE code[c][j].subs
  BY <1>1, EnterNames
<1>3. CASE c # b
  BY <1>1, <1>2, <1>3 DEF Defines
<1>4. CASE c = b
  <2>1. j \in 1 .. Len(code[b]) /\ code[b][j].dst = v /\ s = Subscripts(b, j).dst
    BY <1>1, <1>2, <1>4
  <2>2. s = counters[v] + Undefined(b, v) + WritesBefore(b, j, v)
    BY <2>1, SubscriptsGiven
  <2>3. WritesBefore(b, j, v) \in Nat
    <3>1. j \in 1 .. Len(code[b]) + 1
      BY <2>1 DEF Shape
    <3> QED BY <3>1, WritesGrow
  <2>4. counters[v] \in Nat /\ Undefined(b, v) \in {0, 1}
    BY DEF Undefined
  <2> QED BY <1>4, <2>1, <2>2, <2>3, <2>4
<1> QED BY <1>3, <1>4

-----------------------------------------------------------------------------
(* A call for a block below those of the open calls.                       *)
Entering(b, callers) ==
  /\ b \in Reached /\ b \in Blocks
  /\ callers \in Seq([block : Reached, child : Int, found : Stacks]) /\ Len(callers) = Len(calls)
  /\ \A k \in 1 .. Len(calls) :
       /\ callers[k].block = calls[k].block /\ callers[k].found = calls[k].found
       /\ calls[k].block \in Dominators(b) /\ calls[k].block # b
  /\ calls = <<>> => \A v \in VregsOf(tacs) : stack[v] = <<>>
  /\ EnterBlock(b, callers)
  /\ UNCHANGED flowVars

LEMMA GraphStays ==
  ASSUME UNCHANGED flowVars
  PROVE  /\ Reached' = Reached /\ Blocks' = Blocks /\ tacs' = tacs /\ idom' = idom
         /\ VregsOf(tacs)' = VregsOf(tacs) /\ Stacks' = Stacks
         /\ \A b : Dominators(b)' = Dominators(b)
         /\ \A w, r : Comes(w, r)' <=> Comes(w, r)
<1>1. blocks' = blocks /\ edges' = edges /\ tacs' = tacs /\ idom' = idom
  BY DEF flowVars
<1>2. Reached' = Reached /\ Blocks' = Blocks /\ \A b : Dominators(b)' = Dominators(b)
  BY <1>1 DEF Reached, ReachedWithout, Near, Further, Dominators, Blocks
<1>3. VregsOf(tacs)' = VregsOf(tacs)
  BY <1>1 DEF VregsOf
<1> QED BY <1>1, <1>2, <1>3 DEF Stacks, Comes

LEMMA EnterKeepsShape ==
  ASSUME Shape, NamesInv, StacksInv, NEW b, NEW callers, Entering(b, callers)
  PROVE  Shape'
<1>1. /\ DOMAIN code' = Blocks
      /\ \A c \in Blocks : /\ Len(code'[c]) = Len(code[c]) /\ DOMAIN code'[c] = 1 .. Len(code[c])
           /\ \A i \in 1 .. Len(code[c]) :
                /\ DOMAIN code'[c][i] = DOMAIN code[c][i]
                /\ code'[c][i].dst = code[c][i].dst
                /\ code'[c][i].src1 = code[c][i].src1 /\ code'[c][i].src2 = code[c][i].src2
                /\ code'[c][i].subs = IF c = b THEN Subscripts(b, i) ELSE code[c][i].subs
  BY EnterNames DEF Entering
<1>2. b \in Blocks /\ Blocks' = Blocks /\ tacs' = tacs
  BY GraphStays DEF Entering
<1>3. ASSUME NEW i \in 1 .. Len(code[b])
      PROVE  /\ Subscripts(b, i).dst \in Numbers
             /\ Subscripts(b, i).src1 \in Numbers /\ Subscripts(b, i).src2 \in Numbers
  <2>1. IsTac(code[b][i])
    BY <1>2 DEF Shape
  <2>2. i \in 1 .. Len(code[b]) + 1
    BY <1>2 DEF Shape
  <2>3. \A v \in VregsOf(tacs) : /\ counters[v] \in Nat /\ Undefined(b, v) \in {0, 1}
                                 /\ WritesBefore(b, i, v) \in Nat
                                 /\ stack[v] # <<>> => stack[v][1] \in Nat
    <3> SUFFICES ASSUME NEW v \in VregsOf(tacs)
                 PROVE  /\ counters[v] \in Nat /\ Undefined(b, v) \in {0, 1}
                        /\ WritesBefore(b, i, v) \in Nat
                        /\ stack[v] # <<>> => stack[v][1] \in Nat
      OBVIOUS
    <3>1. stack[v] \in Seq(Nat) /\ counters[v] \in Nat
      BY DEF NamesInv, StacksInv, Stacks
    <3>2. WritesBefore(b, i, v) \in Nat
      BY <1>2, <2>2, WritesGrow
    <3> QED BY <3>1, <3>2 DEF Undefined
  <2>4. Subscripts(b, i).dst \in Numbers
    <3>1. CASE code[b][i].dst = 0
      BY <1>2, <3>1, SubscriptsGiven DEF NamesInv, StacksInv, Numbers
    <3>2. CASE code[b][i].dst \in VregsOf(tacs)
      <4> DEFINE v == code[b][i].dst
      <4>1. counters[v] \in Nat /\ Undefined(b, v) \in {0, 1} /\ WritesBefore(b, i, v) \in Nat
        BY <2>3, <3>2
      <4>2. Subscripts(b, i).dst = counters[v] + Undefined(b, v) + WritesBefore(b, i, v)
        BY <1>2, <3>2, SubscriptsGiven DEF NamesInv, StacksInv
      <4> HIDE DEF v
      <4> QED BY <4>1, <4>2 DEF Numbers
    <3> QED BY <2>1, <3>1, <3>2 DEF IsTac
  <2>5. \A f \in {"src1", "src2"} : Subscripts(b, i)[f] \in Numbers
    <3> SUFFICES ASSUME NEW f \in {"src1", "src2"} PROVE Subscripts(b, i)[f] \in Numbers
      OBVIOUS
    <3>1. CASE code[b][i][f] = 0
      BY <1>2, <3>1, SubscriptsGiven DEF NamesInv, StacksInv, Numbers
    <3>2. CASE code[b][i][f] \in VregsOf(tacs)
      <4> DEFINE v == code[b][i][f]
      <4>1. /\ counters[v] \in Nat /\ Undefined(b, v) \in {0, 1} /\ WritesBefore(b, i, v) \in Nat
            /\ stack[v] # <<>> => stack[v][1] \in Nat
        BY <2>3, <3>2
      <4>2. /\ WritesBefore(b, i, v) > 0 =>
                 Subscripts(b, i)[f] = counters[v] + Undefined(b, v) + WritesBefore(b, i, v) - 1
            /\ WritesBefore(b, i, v) = 0 /\ stack[v] = <<>> => Subscripts(b, i)[f] = counters[v]
            /\ WritesBefore(b, i, v) = 0 /\ stack[v] # <<>> => Subscripts(b, i)[f] = stack[v][1]
        BY <1>2, <3>2, SubscriptsGiven DEF NamesInv, StacksInv
      <4> HIDE DEF v
      <4> QED BY <4>1, <4>2 DEF Numbers
    <3> QED BY <2>1, <3>1, <3>2 DEF IsTac
  <2> QED BY <2>4, <2>5
<1>4. \A c \in Blocks : \A i \in 1 .. Len(code[c]) : IsTac(code[c][i])
  BY DEF Shape
<1>5. \A c \in Blocks : Len(code[c]) \in Nat
  BY DEF Shape
<1>6. \A c \in Blocks : \A i \in 1 .. Len(code[c]) : IsTac(code'[c][i])
  <2> SUFFICES ASSUME NEW c \in Blocks, NEW i \in 1 .. Len(code[c]) PROVE IsTac(code'[c][i])
    OBVIOUS
  <2>1. IsTac(code[c][i])
    BY <1>4
  <2>2. /\ DOMAIN code'[c][i] = DOMAIN code[c][i]
        /\ code'[c][i].dst = code[c][i].dst
        /\ code'[c][i].src1 = code[c][i].src1 /\ code'[c][i].src2 = code[c][i].src2
        /\ code'[c][i].subs = IF c = b THEN Subscripts(b, i) ELSE code[c][i].subs
    BY <1>1
  <2>3. c = b => /\ Subscripts(b, i).dst \in Numbers
                 /\ Subscripts(b, i).src1 \in Numbers /\ Subscripts(b, i).src2 \in Numbers
    BY <1>3
  <2> QED BY <2>1, <2>2, <2>3 DEF IsTac
<1>7. \A tac : IsTac(tac)' <=> IsTac(tac)
  BY <1>2 DEF IsTac
<1> QED BY <1>1, <1>2, <1>5, <1>6, <1>7 DEF Shape

(* What a call adds to a counter, and how often its block writes.          *)
LEMMA EnterCounts ==
  ASSUME Shape, NamesInv, StacksInv, NEW b, NEW callers, Entering(b, callers)
  PROVE  /\ \A v \in VregsOf(tacs) :
              /\ counters[v] \in Nat /\ Undefined(b, v) \in {0, 1} /\ Writes(b, v) \in Nat
              /\ counters'[v] = counters[v] + Undefined(b, v) + Writes(b, v)
         /\ counters' \in [VregsOf(tacs) -> Nat]
         /\ \A c \in Blocks : \A v : Writes(c, v)' = Writes(c, v)
<1>1. DOMAIN counters = VregsOf(tacs) /\ b \in Blocks /\ EnterBlock(b, callers)
  BY DEF NamesInv, Entering
<1>2. \A v \in VregsOf(tacs) : counters[v] \in Nat /\ Undefined(b, v) \in {0, 1} /\ Writes(b, v) \in Nat
  BY <1>1, WritesGrow DEF NamesInv, Undefined
<1>3. counters' = [v \in VregsOf(tacs) |-> counters[v] + Undefined(b, v) + Writes(b, v)]
  BY <1>1 DEF EnterBlock
<1>4. ASSUME NEW c \in Blocks, NEW v PROVE Writes(c, v)' = Writes(c, v)
  <2>1. Len(code'[c]) = Len(code[c]) /\ \A i \in 1 .. Len(code[c]) : code'[c][i].dst = code[c][i].dst
    BY <1>1, EnterNames
  <2>2. {j \in 1 .. (Len(code'[c]) + 1) - 1 : code'[c][j].dst = v}
          = {j \in 1 .. (Len(code[c]) + 1) - 1 : code[c][j].dst = v}
    <3>1. (Len(code[c]) + 1) - 1 = Len(code[c])
      BY DEF Shape
    <3> QED BY <2>1, <3>1
  <2> QED BY <2>2 DEF Writes, WritesBefore
<1>5. counters' \in [VregsOf(tacs) -> Nat]
  BY <1>2, <1>3
<1> QED BY <1>2, <1>3, <1>4, <1>5

LEMMA EnterKeepsNames ==
  ASSUME Shape, NamesInv, StacksInv, NEW b, NEW callers, Entering(b, callers)
  PROVE  NamesInv'
<1>1. b \in Blocks /\ Blocks' = Blocks /\ VregsOf(tacs)' = VregsOf(tacs) /\ EnterBlock(b, callers)
  BY GraphStays DEF Entering
<1>2. counters \in [VregsOf(tacs) -> Nat] /\ stack \in Stacks
  BY DEF NamesInv, StacksInv
<1>3. \A v \in VregsOf(tacs) :
        /\ counters[v] \in Nat /\ Undefined(b, v) \in {0, 1} /\ Writes(b, v) \in Nat
        /\ counters'[v] = counters[v] + Undefined(b, v) + Writes(b, v)
  BY EnterCounts
<1>4. ASSUME NEW v \in VregsOf(tacs), NEW j \in 1 .. Len(code[b]), code[b][j].dst = v
      PROVE  /\ WritesBefore(b, j, v) \in Nat /\ WritesBefore(b, j, v) < Writes(b, v)
             /\ \A i \in 1 .. Len(code[b]) : code[b][i].dst = v /\ WritesBefore(b, i, v) = WritesBefore(b, j, v)
                  => i = j
  <2>1. Len(code[b]) \in Nat /\ \A i \in 1 .. Len(code[b]) : i \in 1 .. Len(code[b]) + 1
    BY <1>1 DEF Shape
  <2>2. \A i \in 1 .. Len(code[b]) : code[b][i].dst = v => WritesBefore(b, i, v) \in Nat
    BY <1>1, <2>1, WritesGrow
  <2>3. \A i, k \in 1 .. Len(code[b]) : i < k /\ code[b][i].dst = v => WritesBefore(b, i, v) < WritesBefore(b, k, v)
    BY <1>1, <2>1, WritesGrow
  <2>4. WritesBefore(b, j, v) < Writes(b, v)
    BY <1>1, <1>4, WritesGrow
  <2> QED BY <1>4, <2>1, <2>2, <2>3, <2>4
<1>5. ASSUME NEW c, NEW j, NEW v \in VregsOf(tacs), NEW s \in Nat, Defines(c, j, v, s)'
      PROVE  \/ c # b /\ Defines(c, j, v, s)
             \/ /\ c = b /\ j \in 1 .. Len(code[b]) /\ code[b][j].dst = v
                /\ s = counters[v] + Undefined(b, v) + WritesBefore(b, j, v)
                /\ s >= counters[v] + Undefined(b, v)
  BY <1>1, <1>2, <1>5, EnterDefines
<1>6. ASSUME NEW c, NEW j, NEW v \in VregsOf(tacs), NEW s \in Nat, Defines(c, j, v, s)'
      PROVE  s < counters'[v]
  <2>1. CASE Defines(c, j, v, s)
    <3>1. s < counters[v]
      BY <2>1 DEF NamesInv
    <3> QED BY <1>3, <3>1
  <2>2. CASE /\ j \in 1 .. Len(code[b]) /\ code[b][j].dst = v
             /\ s = counters[v] + Undefined(b, v) + WritesBefore(b, j, v)
    BY <1>3, <1>4, <2>2
  <2> QED BY <1>5, <1>6, <2>1, <2>2
<1>7. ASSUME NEW c, NEW i, NEW d, NEW j, NEW v \in VregsOf(tacs), NEW s \in Nat,
             Defines(c, i, v, s)', Defines(d, j, v, s)'
      PROVE  c = d /\ i = j
  <2>1. \/ c # b /\ Defines(c, i, v, s)
        \/ /\ c = b /\ i \in 1 .. Len(code[b]) /\ code[b][i].dst = v
           /\ s = counters[v] + Undefined(b, v) + WritesBefore(b, i, v)
           /\ s >= counters[v] + Undefined(b, v)
    BY <1>5, <1>7
  <2>2. \/ d # b /\ Defines(d, j, v, s)
        \/ /\ d = b /\ j \in 1 .. Len(code[b]) /\ code[b][j].dst = v
           /\ s = counters[v] + Undefined(b, v) + WritesBefore(b, j, v)
           /\ s >= counters[v] + Undefined(b, v)
    BY <1>5, <1>7
  <2>3. Defines(c, i, v, s) => s < counters[v]
    BY DEF NamesInv
  <2>4. Defines(d, j, v, s) => s < counters[v]
    BY DEF NamesInv
  <2>5. CASE c # b /\ d # b
    <3>1. Defines(c, i, v, s) /\ Defines(d, j, v, s)
      BY <2>1, <2>2, <2>5
    <3> QED BY <3>1 DEF NamesInv
  <2>6. CASE c = b /\ d = b
    <3>1. WritesBefore(b, i, v) = WritesBefore(b, j, v)
      <4>1. /\ s = counters[v] + Undefined(b, v) + WritesBefore(b, i, v)
            /\ s = counters[v] + Undefined(b, v) + WritesBefore(b, j, v)
        BY <2>1, <2>2, <2>6
      <4>2. WritesBefore(b, i, v) \in Nat /\ WritesBefore(b, j, v) \in Nat
        BY <1>4, <2>1, <2>2, <2>6
      <4> QED BY <1>3, <4>1, <4>2
    <3> QED BY <1>4, <2>1, <2>2, <2>6, <3>1
  <2>7. CASE c = b /\ d # b
    BY <1>3, <2>1, <2>2, <2>4, <2>7
  <2>8. CASE c # b /\ d = b
    BY <1>3, <2>1, <2>2, <2>3, <2>8
  <2> QED BY <2>5, <2>6, <2>7, <2>8
<1>8. counters' \in [VregsOf(tacs) -> Nat]
  BY EnterCounts
<1> QED BY <1>1, <1>6, <1>7, <1>8 DEF NamesInv

(* What the block of a call reads was written before it in the block, or,  *)
(* as the stacks hold names of blocks above only, in a block that          *)
(* dominates it; or it is written nowhere.                                 *)
LEMMA EnterKeepsReads ==
  ASSUME Shape, NamesInv, ReadsInv, CallsInv, StacksInv, NEW b, NEW callers, Entering(b, callers)
  PROVE  ReadsInv'
<1>1. b \in Blocks /\ Blocks' = Blocks /\ VregsOf(tacs)' = VregsOf(tacs) /\ EnterBlock(b, callers)
      /\ \A w, r : Comes(w, r)' <=> Comes(w, r)
  BY GraphStays DEF Entering
<1>2. counters \in [VregsOf(tacs) -> Nat] /\ stack \in Stacks
  BY DEF NamesInv, StacksInv
<1>3. \A v \in VregsOf(tacs) :
        /\ counters[v] \in Nat /\ Undefined(b, v) \in {0, 1} /\ Writes(b, v) \in Nat
        /\ counters'[v] = counters[v] + Undefined(b, v) + Writes(b, v)
  BY EnterCounts
<1>4. ASSUME NEW c, NEW j, NEW v \in VregsOf(tacs), NEW s \in Nat, Defines(c, j, v, s)'
      PROVE  \/ c # b /\ Defines(c, j, v, s)
             \/ /\ c = b /\ j \in 1 .. Len(code[b]) /\ code[b][j].dst = v
                /\ s = counters[v] + Undefined(b, v) + WritesBefore(b, j, v)
                /\ s >= counters[v] + Undefined(b, v)
  BY <1>1, <1>2, <1>4, EnterDefines
<1>5. ASSUME NEW c, NEW i, NEW f \in {"src1", "src2"}, NEW v \in VregsOf(tacs), NEW s \in Nat,
             Reads(c, i, f, v, s)'
      PROVE  /\ s < counters'[v]
             /\ \A d, j : Defines(d, j, v, s)' => Comes(<<d, j>>, <<c, i>>)
  <2>1. c \in Blocks /\ i \in 1 .. Len(code'[c]) /\ code'[c][i][f] = v /\ code'[c][i].subs[f] = s
    BY <1>1, <1>5 DEF Reads
  <2>2. i \in 1 .. Len(code[c]) /\ code[c][i][f] = v
        /\ code'[c][i].subs = IF c = b THEN Subscripts(b, i) ELSE code[c][i].subs
    <3>1. Len(code'[c]) = Len(code[c])
      BY <1>1, <2>1, EnterNames
    <3>2. /\ code'[c][i].src1 = code[c][i].src1 /\ code'[c][i].src2 = code[c][i].src2
          /\ code'[c][i].subs = IF c = b THEN Subscripts(b, i) ELSE code[c][i].subs
      BY <1>1, <2>1, <3>1, EnterNames
    <3> QED BY <2>1, <3>1, <3>2
  <2>3. /\ counters[v] \in Nat /\ Undefined(b, v) \in {0, 1} /\ Writes(b, v) \in Nat
        /\ counters'[v] = counters[v] + Undefined(b, v) + Writes(b, v)
    BY <1>3
  <2>4. CASE c # b
    <3>1. Reads(c, i, f, v, s)
      BY <2>1, <2>2, <2>4 DEF Reads
    <3>2. s < counters[v] /\ \A d, j : Defines(d, j, v, s) => Comes(<<d, j>>, <<c, i>>)
      BY <3>1 DEF ReadsInv
    <3>3. ASSUME NEW d, NEW j, Defines(d, j, v, s)' PROVE Defines(d, j, v, s)
      BY <1>4, <2>3, <3>2, <3>3
    <3> QED BY <2>3, <3>2, <3>3
  <2>5. CASE c = b
    <3>1. i \in 1 .. Len(code[b]) /\ i \in 1 .. Len(code[b]) + 1 /\ Len(code[b]) \in Nat
      BY <1>1, <2>2, <2>5 DEF Shape
    <3>2. WritesBefore(b, i, v) \in Nat /\ WritesBefore(b, i, v) <= Writes(b, v)
      BY <1>1, <3>1, WritesGrow
    <3>3. /\ WritesBefore(b, i, v) > 0 => s = counters[v] + Undefined(b, v) + WritesBefore(b, i, v) - 1
          /\ WritesBefore(b, i, v) = 0 /\ stack[v] = <<>> => s = counters[v] /\ Undefined(b, v) = 1
          /\ WritesBefore(b, i, v) = 0 /\ stack[v] # <<>> => s = stack[v][1]
      <4>1. s = Subscripts(b, i)[f]
        BY <2>1, <2>2, <2>5
      <4> QED BY <1>1, <1>2, <2>2, <2>5, <3>1, <4>1, SubscriptsGiven
    <3>4. CASE WritesBefore(b, i, v) > 0
      <4>1. s = counters[v] + Undefined(b, v) + WritesBefore(b, i, v) - 1
        BY <3>3, <3>4
      <4>2. s < counters'[v] /\ ~(s < counters[v])
        BY <2>3, <3>2, <3>4, <4>1
      <4>3. ASSUME NEW d, NEW j, Defines(d, j, v, s)' PROVE Comes(<<d, j>>, <<c, i>>)
        <5>1. ~Defines(d, j, v, s)
          BY <4>2 DEF NamesInv
        <5>2. /\ d = b /\ j \in 1 .. Len(code[b])
              /\ s = counters[v] + Undefined(b, v) + WritesBefore(b, j, v)
          BY <1>4, <4>3, <5>1
        <5>3. j \in 1 .. Len(code[b]) + 1
          BY <3>1, <5>2
        <5>4. WritesBefore(b, j, v) \in Nat
          BY <1>1, <5>3, WritesGrow
        <5>5. WritesBefore(b, j, v) = WritesBefore(b, i, v) - 1
          BY <2>3, <3>2, <4>1, <5>2, <5>4
        <5>6. i <= j => WritesBefore(b, i, v) <= WritesBefore(b, j, v)
          BY <1>1, <3>1, <5>3, WritesGrow
        <5>7. j < i
          BY <3>1, <3>2, <5>3, <5>5, <5>6
        <5> QED BY <2>5, <5>2, <5>7 DEF Comes
      <4> QED BY <4>2, <4>3
    <3>5. CASE WritesBefore(b, i, v) = 0 /\ stack[v] = <<>>
      <4>1. s = counters[v] /\ Undefined(b, v) = 1
        BY <3>3, <3>5
      <4>2. s < counters'[v] /\ ~(s < counters[v]) /\ ~(s >= counters[v] + Undefined(b, v))
        BY <2>3, <4>1
      <4>3. \A d, j : ~Defines(d, j, v, s)
        BY <4>2 DEF NamesInv
      <4>4. \A d, j : ~Defines(d, j, v, s)'
        BY <1>4, <4>2, <4>3
      <4> QED BY <4>2, <4>4
    <3>6. CASE WritesBefore(b, i, v) = 0 /\ stack[v] # <<>>
      <4>1. s = stack[v][1] /\ calls # <<>>
        BY <3>3, <3>6 DEF Entering
      <4>2. 1 \in 1 .. Len(calls)
        <5>1. Len(callers) = Len(calls) /\ Len(callers) \in Nat
          BY DEF Entering
        <5>2. calls = <<>> \/ Len(calls) # 0
          BY DEF CallsInv
        <5> QED BY <4>1, <5>1, <5>2
      <4>3. 1 \in 1 .. Len(stack[v])
        <5>1. stack[v] \in Seq(Nat)
          BY <1>2 DEF Stacks
        <5> QED BY <3>6, <5>1
      <4>4. Belongs(1, v, s)
        <5>1. Now(1)[v] = stack[v]
          BY DEF Now
        <5>2. calls[1].block \in Reached
          BY <4>2, CallFacts
        <5> QED BY <4>1, <4>2, <4>3, <5>1, <5>2 DEF StacksInv
      <4>5. /\ s < counters[v]
            /\ \A d, j : Defines(d, j, v, s) => \E l \in 1 .. Len(calls) : d = calls[l].block
        BY <4>4 DEF Belongs
      <4>6. s < counters'[v]
        BY <2>3, <4>5
      <4>7. ASSUME NEW d, NEW j, Defines(d, j, v, s)' PROVE Comes(<<d, j>>, <<c, i>>)
        <5>1. Defines(d, j, v, s)
          BY <1>4, <2>3, <4>5, <4>7
        <5>2. PICK l \in 1 .. Len(calls) : d = calls[l].block
          BY <4>5, <5>1
        <5>3. d \in Dominators(b) /\ d # b
          BY <5>2 DEF Entering
        <5> QED BY <2>5, <5>3 DEF Comes
      <4> QED BY <4>6, <4>7
    <3> QED BY <3>2, <3>4, <3>5, <3>6
  <2> QED BY <2>4, <2>5
<1> QED BY <1>1, <1>5 DEF ReadsInv

LEMMA EnterKeepsCalls ==
  ASSUME CallsInv, StacksInv, NEW b, NEW callers, Entering(b, callers)
  PROVE  /\ CallsInv'
         /\ Len(calls') = Len(calls) + 1 /\ Len(calls) \in Nat
         /\ calls'[1].block = b /\ calls'[1].child = -1 /\ calls'[1].found = stack
         /\ \A k \in 1 .. Len(calls) :
              /\ calls'[k + 1] = callers[k] /\ calls'[k + 1].block = calls[k].block
              /\ calls'[k + 1].found = calls[k].found
<1> DEFINE Call == [block : Reached, child : Int, found : Stacks]
           call == [block |-> b, child |-> -1, found |-> stack]
<1>1. callers \in Seq(Call) /\ Len(callers) = Len(calls) /\ call \in Call
  BY DEF Entering, StacksInv
<1>2. calls' = <<call>> \o callers
  BY DEF Entering, EnterBlock
<1>3. call.block = b /\ call.child = -1 /\ call.found = stack
  OBVIOUS
<1>4. Call' = Call /\ \A c : Dominators(c)' = Dominators(c)
  BY GraphStays DEF Entering
<1> HIDE DEF Call, call
<1>5. /\ calls' \in Seq(Call) /\ Len(calls') = Len(calls) + 1 /\ Len(calls) \in Nat
      /\ calls'[1] = call
      /\ \A k \in 1 .. Len(calls) : calls'[k + 1] = callers[k]
  BY <1>1, <1>2, PushedSeq
<1>6. \A k \in 1 .. Len(calls) :
         calls'[k + 1].block = calls[k].block /\ calls'[k + 1].found = calls[k].found
  BY <1>5 DEF Entering
<1>7. ASSUME NEW k \in 1 .. Len(calls'), NEW l \in 1 .. Len(calls'), k < l
      PROVE  calls'[l].block \in Dominators(calls'[k].block) /\ calls'[l].block # calls'[k].block
  <2>1. l - 1 \in 1 .. Len(calls) /\ (l - 1) + 1 = l
    BY <1>5, <1>7
  <2>2. calls'[l].block = calls[l - 1].block
    BY <1>6, <2>1
  <2>3. CASE k = 1
    <3>1. calls'[k].block = b
      BY <1>3, <1>5, <2>3
    <3> QED BY <2>1, <2>2, <3>1 DEF Entering
  <2>4. CASE k # 1
    <3>1. k - 1 \in 1 .. Len(calls) /\ (k - 1) + 1 = k /\ k - 1 < l - 1
      BY <1>5, <1>7, <2>4
    <3>2. calls'[k].block = calls[k - 1].block
      BY <1>6, <3>1
    <3> QED BY <2>1, <2>2, <3>1, <3>2 DEF CallsInv
  <2> QED BY <2>3, <2>4
<1>8. CallsInv'
  BY <1>4, <1>5, <1>7 DEF CallsInv, Call
<1> QED BY <1>3, <1>5, <1>6, <1>8

LEMMA EnterPushes ==
  ASSUME Shape, NamesInv, StacksInv, NEW b, NEW callers, Entering(b, callers)
  PROVE  /\ stack' \in Stacks
         /\ \A v \in VregsOf(tacs) :
              LET n == Undefined(b, v) + Writes(b, v)
              IN /\ n \in Nat /\ Len(stack[v]) \in Nat /\ Len(stack'[v]) = n + Len(stack[v])
                 /\ \A m \in 1 .. n : stack'[v][m] = counters[v] + n - m
                 /\ \A m \in 1 .. Len(stack[v]) : stack'[v][n + m] = stack[v][m]
                 /\ stack[v] # <<>> => Undefined(b, v) = 0
                 /\ stack[v] = <<>> => Len(stack[v]) = 0
<1>1. stack \in Stacks /\ DOMAIN stack = VregsOf(tacs) /\ EnterBlock(b, callers)
  BY DEF StacksInv, Stacks, Entering
<1>2. \A v \in VregsOf(tacs) : counters[v] \in Nat /\ Undefined(b, v) \in {0, 1} /\ Writes(b, v) \in Nat
  BY EnterCounts
<1>3. stack' = [v \in VregsOf(tacs) |->
                 [k \in 1 .. Undefined(b, v) + Writes(b, v) |->
                    counters[v] + (Undefined(b, v) + Writes(b, v)) - k] \o stack[v]]
  BY <1>1 DEF EnterBlock
<1>4. \A x \in Nat, n \in Nat, s \in Seq(Nat) :
        LET p == [k \in 1 .. n |-> x + n - k] \o s
        IN /\ p \in Seq(Nat) /\ Len(s) \in Nat /\ Len(p) = n + Len(s)
           /\ \A m \in 1 .. n : p[m] = x + n - m
           /\ \A m \in 1 .. Len(s) : p[n + m] = s[m]
           /\ s = <<>> => Len(s) = 0
  <2> SUFFICES ASSUME NEW x \in Nat, NEW n \in Nat, NEW s \in Seq(Nat)
               PROVE  LET p == [k \in 1 .. n |-> x + n - k] \o s
                      IN /\ p \in Seq(Nat) /\ Len(s) \in Nat /\ Len(p) = n + Len(s)
                         /\ \A m \in 1 .. n : p[m] = x + n - m
                         /\ \A m \in 1 .. Len(s) : p[n + m] = s[m]
                         /\ s = <<>> => Len(s) = 0
    OBVIOUS
  <2> DEFINE u == [k \in 1 .. n |-> x + n - k]
  <2>1. u \in Seq(Nat) /\ Len(u) = n /\ \A m \in 1 .. n : u[m] = x + n - m
    <3>1. \A k \in 1 .. n : x + n - k \in Nat
      OBVIOUS
    <3> QED BY <3>1
  <2> HIDE DEF u
  <2>2. /\ u \o s \in Seq(Nat) /\ Len(s) \in Nat /\ Len(u \o s) = n + Len(s)
        /\ \A m \in 1 .. n : (u \o s)[m] = u[m]
        /\ \A m \in 1 .. Len(s) : (u \o s)[n + m] = s[m]
    <3>1. /\ u \o s \in Seq(Nat) /\ Len(s) \in Nat /\ Len(u \o s) = Len(u) + Len(s)
          /\ \A m \in 1 .. Len(u) : (u \o s)[m] = u[m]
          /\ \A m \in 1 .. Len(s) : (u \o s)[Len(u) + m] = s[m]
      <4>1. u \o s \in Seq(Nat) /\ Len(s) \in Nat /\ Len(u \o s) = Len(u) + Len(s)
        <5>1. \A p, q \in Seq(Nat) : p \o q \in Seq(Nat) /\ Len(q) \in Nat /\ Len(p \o q) = Len(p) + Len(q)
          OBVIOUS
        <5> QED BY <2>1, <5>1
      <4>2. /\ \A m \in 1 .. Len(u) : (u \o s)[m] = u[m]
            /\ \A m \in 1 .. Len(s) : (u \o s)[Len(u) + m] = s[m]
        BY <2>1, ConcatHasBoth
      <4> QED BY ONLY <4>1, <4>2
    <3> QED BY <2>1, <3>1
  <2> QED BY <2>1, <2>2 DEF u
<1>5. ASSUME NEW v \in VregsOf(tacs)
      PROVE  LET n == Undefined(b, v) + Writes(b, v)
             IN /\ stack'[v] \in Seq(Nat)
                /\ n \in Nat /\ Len(stack[v]) \in Nat /\ Len(stack'[v]) = n + Len(stack[v])
                /\ \A m \in 1 .. n : stack'[v][m] = counters[v] + n - m
                /\ \A m \in 1 .. Len(stack[v]) : stack'[v][n + m] = stack[v][m]
                /\ stack[v] # <<>> => Undefined(b, v) = 0
                /\ stack[v] = <<>> => Len(stack[v]) = 0
  <2> DEFINE n == Undefined(b, v) + Writes(b, v)
  <2>1. n \in Nat /\ counters[v] \in Nat /\ stack[v] \in Seq(Nat)
    BY <1>1, <1>2 DEF Stacks
  <2>2. stack'[v] = [k \in 1 .. n |-> counters[v] + n - k] \o stack[v]
    BY <1>3
  <2>3. stack[v] # <<>> => Undefined(b, v) = 0
    BY DEF Undefined
  <2> HIDE DEF n
  <2>4. /\ stack'[v] \in Seq(Nat)
        /\ n \in Nat /\ Len(stack[v]) \in Nat /\ Len(stack'[v]) = n + Len(stack[v])
        /\ \A m \in 1 .. n : stack'[v][m] = counters[v] + n - m
        /\ \A m \in 1 .. Len(stack[v]) : stack'[v][n + m] = stack[v][m]
        /\ stack[v] = <<>> => Len(stack[v]) = 0
    BY <1>4, <2>1, <2>2
  <2> QED BY <2>3, <2>4 DEF n
<1>6. stack' \in Stacks
  BY <1>3, <1>5 DEF Stacks
<1> QED BY <1>5, <1>6

LEMMA EnterKeepsStacks ==
  ASSUME Reached \subseteq Blocks, Shape, NamesInv, CallsInv, StacksInv,
         NEW b, NEW callers, Entering(b, callers)
  PROVE  StacksInv'
<1>1. /\ b \in Blocks /\ Blocks' = Blocks /\ VregsOf(tacs)' = VregsOf(tacs) /\ Stacks' = Stacks
      /\ EnterBlock(b, callers)
  BY GraphStays DEF Entering
<1>2. counters \in [VregsOf(tacs) -> Nat] /\ stack \in Stacks
  BY DEF NamesInv, StacksInv
<1>3. /\ \A v \in VregsOf(tacs) :
           /\ counters[v] \in Nat /\ Undefined(b, v) \in {0, 1} /\ Writes(b, v) \in Nat
           /\ counters'[v] = counters[v] + Undefined(b, v) + Writes(b, v)
      /\ \A c \in Blocks : \A v : Writes(c, v)' = Writes(c, v)
  BY EnterCounts
<1>4. /\ Len(calls') = Len(calls) + 1 /\ Len(calls) \in Nat
      /\ calls'[1].block = b /\ calls'[1].found = stack
      /\ \A k \in 1 .. Len(calls) :
           calls'[k + 1].block = calls[k].block /\ calls'[k + 1].found = calls[k].found
      /\ \A k \in 1 .. Len(calls) : calls[k].block \in Blocks
  <2>1. \A k \in 1 .. Len(calls) : calls[k].block \in Reached
    BY CallFacts
  <2> QED BY <2>1, EnterKeepsCalls
<1>5. ASSUME NEW c, NEW j, NEW v \in VregsOf(tacs), NEW s \in Nat, Defines(c, j, v, s)'
      PROVE  \/ c # b /\ Defines(c, j, v, s)
             \/ /\ c = b /\ s >= counters[v] + Undefined(b, v)
  BY <1>1, <1>2, <1>5, EnterDefines
<1>6. \A k, v, s, l : Belongs(l, v, s)' <=>
        /\ s < counters'[v]
        /\ \A c, i : Defines(c, i, v, s)' => \E x \in l .. Len(calls') : c = calls'[x].block
  BY DEF Belongs
<1>7. ASSUME NEW v \in VregsOf(tacs)
      PROVE  /\ Pushed(stack'[v], stack[v], Writes(b, v))
             /\ \A m \in 1 .. Len(stack'[v]), s \in Nat : s = stack'[v][m] =>
                  Belongs(1, v, s)' /\ (m > Writes(b, v) => Belongs(2, v, s)')
  <2> DEFINE u == Undefined(b, v)
             w == Writes(b, v)
             n == u + w
  <2>1. /\ n \in Nat /\ Len(stack[v]) \in Nat /\ Len(stack'[v]) = n + Len(stack[v])
        /\ \A m \in 1 .. n : stack'[v][m] = counters[v] + n - m
        /\ \A m \in 1 .. Len(stack[v]) : stack'[v][n + m] = stack[v][m]
        /\ stack[v] # <<>> => u = 0
        /\ stack[v] = <<>> => Len(stack[v]) = 0
    BY EnterPushes
  <2>2. /\ counters[v] \in Nat /\ u \in {0, 1} /\ w \in Nat
        /\ counters'[v] = counters[v] + u + w
    BY <1>3
  <2>3. \A c, i : \A s \in Nat : Defines(c, i, v, s)' =>
          (c # b /\ Defines(c, i, v, s)) \/ (c = b /\ s >= counters[v] + u)
    BY <1>5
  <2> HIDE DEF u, w
  <2>4. Pushed(stack'[v], stack[v], w)
    <3>1. CASE stack[v] = <<>>
      BY <2>1, <2>2, <3>1 DEF Pushed
    <3>2. CASE stack[v] # <<>>
      <4>1. n = w
        BY <2>1, <2>2, <3>2
      <4> QED BY <2>1, <3>2, <4>1 DEF Pushed
    <3> QED BY <3>1, <3>2
  <2>5. ASSUME NEW m \in 1 .. Len(stack'[v]), m <= n, NEW s \in Nat, s = stack'[v][m]
        PROVE  Belongs(1, v, s)' /\ (m > w => Belongs(2, v, s)')
    <3>1. s = counters[v] + n - m
      BY <2>1, <2>5
    <3>2. s < counters'[v] /\ ~(s < counters[v])
      BY <2>1, <2>2, <2>5, <3>1
    <3>3. s >= counters[v] + u => ~(m > w)
      BY <2>1, <2>2, <2>5, <3>1
    <3>4. \A c, i : ~Defines(c, i, v, s)
      BY <3>2 DEF NamesInv
    <3>5. \A c, i : Defines(c, i, v, s)' => c = b /\ ~(m > w)
      BY <2>3, <3>3, <3>4
    <3>6. 1 \in 1 .. Len(calls') /\ calls'[1].block = b
      BY <1>4
    <3> QED BY <1>6, <3>2, <3>5, <3>6
  <2>6. ASSUME NEW m \in 1 .. Len(stack'[v]), ~(m <= n), NEW s \in Nat, s = stack'[v][m]
        PROVE  Belongs(2, v, s)'
    <3>1. m - n \in 1 .. Len(stack[v]) /\ n + (m - n) = m
      BY <2>1, <2>6
    <3>2. s = stack[v][m - n]
      BY <2>1, <2>6, <3>1
    <3>3. 1 \in 1 .. Len(calls)
      <4>1. stack[v] # <<>>
        BY <2>1, <3>1
      <4>2. calls # <<>>
        BY <4>1 DEF Entering
      <4>3. Len(calls) # 0
        BY <4>2 DEF CallsInv
      <4> QED BY <1>4, <4>3
    <3>4. Belongs(1, v, s)
      <4>1. Now(1)[v] = stack[v]
        BY DEF Now
      <4>2. calls[1].block \in Reached
        BY <3>3, CallFacts
      <4> QED BY <3>1, <3>2, <3>3, <4>1, <4>2 DEF StacksInv
    <3>5. s < counters[v] /\ \A c, i : Defines(c, i, v, s) => \E l \in 1 .. Len(calls) : c = calls[l].block
      BY <3>4 DEF Belongs
    <3>6. \A c, i : Defines(c, i, v, s)' => Defines(c, i, v, s)
      BY <2>2, <2>3, <3>5
    <3>7. \A l \in 1 .. Len(calls) : l + 1 \in 2 .. Len(calls') /\ calls'[l + 1].block = calls[l].block
      BY <1>4
    <3>8. s < counters'[v]
      BY <2>2, <3>5
    <3> QED BY <1>6, <3>5, <3>6, <3>7, <3>8
  <2>7. \A s : Belongs(2, v, s)' => Belongs(1, v, s)'
    <3>1. \A l \in 2 .. Len(calls') : l \in 1 .. Len(calls')
      BY <1>4
    <3> QED BY <1>6, <3>1
  <2> QED BY <2>4, <2>5, <2>6, <2>7 DEF w
<1>8. ASSUME NEW k \in 1 .. Len(calls) PROVE Now(k + 1)' = Now(k)
  <2>1. k + 1 # 1 /\ (k + 1) - 1 = k
    BY <1>4
  <2>2. Now(k + 1)' = calls'[k].found
    BY <2>1 DEF Now
  <2>3. CASE k = 1
    BY <1>4, <2>2, <2>3 DEF Now
  <2>4. CASE k # 1
    <3>1. k - 1 \in 1 .. Len(calls) /\ (k - 1) + 1 = k
      BY <1>4, <2>4
    <3>2. calls'[k].found = calls[k - 1].found
      BY <1>4, <3>1
    <3> QED BY <2>2, <2>4, <3>2 DEF Now
  <2> QED BY <2>3, <2>4
<1>9. ASSUME NEW k \in 1 .. Len(calls), NEW v \in VregsOf(tacs)
      PROVE  /\ Pushed(Now(k)[v], calls'[k + 1].found[v], Writes(calls[k].block, v))
             /\ \A m \in 1 .. Len(Now(k)[v]), s \in Nat : s = Now(k)[v][m] =>
                  /\ Belongs(k + 1, v, s)'
                  /\ m > Writes(calls[k].block, v) => Belongs((k + 1) + 1, v, s)'
  <2>1. calls'[k + 1].found = calls[k].found /\ calls[k].block \in Reached
    BY <1>4, CallFacts
  <2>2. /\ Pushed(Now(k)[v], calls[k].found[v], Writes(calls[k].block, v))
        /\ \A m \in 1 .. Len(Now(k)[v]), s \in Nat : s = Now(k)[v][m] =>
             Belongs(k, v, s) /\ (m > Writes(calls[k].block, v) => Belongs(k + 1, v, s))
    BY <2>1 DEF StacksInv
  <2>3. ASSUME NEW l \in k .. k + 1, NEW s \in Nat, Belongs(l, v, s) PROVE Belongs(l + 1, v, s)'
    <3>1. s < counters[v] /\ \A c, i : Defines(c, i, v, s) => \E x \in l .. Len(calls) : c = calls[x].block
      BY <2>3 DEF Belongs
    <3>2. s < counters'[v] /\ ~(s >= counters[v] + Undefined(b, v))
      BY <1>3, <3>1
    <3>3. \A c, i : Defines(c, i, v, s)' => Defines(c, i, v, s)
      BY <1>5, <3>2
    <3>4. \A x \in l .. Len(calls) : x + 1 \in l + 1 .. Len(calls') /\ calls'[x + 1].block = calls[x].block
      BY <1>4
    <3> QED BY <3>1, <3>2, <3>3, <3>4 DEF Belongs
  <2>4. k \in k .. k + 1 /\ k + 1 \in k .. k + 1
    OBVIOUS
  <2> QED BY <2>1, <2>2, <2>3, <2>4
<1>10. ASSUME NEW k \in 1 .. Len(calls'), NEW v \in VregsOf(tacs), NEW c \in Blocks, c = calls'[k].block
      PROVE  /\ Pushed(Now(k)'[v], calls'[k].found[v], Writes(c, v)')
             /\ \A m \in 1 .. Len(Now(k)'[v]), s \in Nat : s = Now(k)'[v][m] =>
                  Belongs(k, v, s)' /\ (m > Writes(c, v)' => Belongs(k + 1, v, s)')
  <2>1. CASE k = 1
    <3>1. Now(k)' = stack' /\ calls'[k].found = stack /\ c = b /\ Writes(c, v)' = Writes(b, v) /\ k + 1 = 2
      BY <1>1, <1>3, <1>4, <1>10, <2>1 DEF Now
    <3> QED BY <1>7, <2>1, <3>1
  <2>2. CASE k # 1
    <3>1. k - 1 \in 1 .. Len(calls) /\ (k - 1) + 1 = k
      BY <1>4, <2>2
    <3>2. Now(k)' = Now(k - 1)
      BY <1>8, <3>1
    <3>3. c = calls[k - 1].block /\ Writes(c, v)' = Writes(c, v)
      BY <1>3, <1>4, <1>10, <3>1
    <3> QED BY <1>9, <3>1, <3>2, <3>3
  <2> QED BY <2>1, <2>2
<1>11. calls' # <<>> /\ stack' \in Stacks
  BY <1>4, EnterPushes
<1>12. Reached' = Reached
  BY GraphStays DEF Entering
<1> QED BY <1>1, <1>10, <1>11, <1>12 DEF StacksInv

-----------------------------------------------------------------------------
(* What is below the first elements of a sequence.                         *)
LEMMA SuffixOf ==
  ASSUME NEW S, NEW s \in Seq(S), NEW w \in Nat, w <= Len(s)
  PROVE  /\ SubSeq(s, w + 1, Len(s)) \in Seq(S)
         /\ Len(SubSeq(s, w + 1, Len(s))) = Len(s) - w
         /\ \A m \in 1 .. Len(s) - w : SubSeq(s, w + 1, Len(s))[m] = s[w + m]
OBVIOUS

LEMMA SameSeq ==
  ASSUME NEW S, NEW s \in Seq(S), NEW u \in Seq(S), Len(s) = Len(u),
         \A m \in 1 .. Len(s) : s[m] = u[m]
  PROVE  s = u
OBVIOUS

(* A call that returns has popped what it pushed: its caller finds the     *)
(* stack that it left, or in place of an empty one a subscript that stays. *)
LEMMA LeavePops ==
  ASSUME Reached \subseteq Blocks, Shape, NamesInv, CallsInv, StacksInv, LeaveBlock
  PROVE  /\ 1 \in 1 .. Len(calls) /\ Len(calls) \in Nat /\ Len(calls') = Len(calls) - 1
         /\ \A k \in 1 .. Len(calls) - 1 : calls'[k] = calls[k + 1]
         /\ calls' \in Seq([block : Reached, child : Int, found : Stacks])
         /\ stack' \in Stacks
         /\ \A v \in VregsOf(tacs) : \A b \in Reached : b = calls[1].block =>
              \/ stack'[v] = calls[1].found[v]
              \/ /\ calls[1].found[v] = <<>> /\ Len(stack'[v]) = 1
                 /\ Writes(b, v) + 1 \in 1 .. Len(stack[v]) /\ Writes(b, v) + 1 > Writes(b, v)
                 /\ stack'[v][1] = stack[v][Writes(b, v) + 1]
<1> DEFINE Call == [block : Reached, child : Int, found : Stacks]
           b == calls[1].block
<1>1. /\ calls \in Seq(Call) /\ calls # <<>> /\ calls' = Tail(calls) /\ stack \in Stacks
      /\ stack' = [v \in VregsOf(tacs) |->
                     SubSeq(stack[v], Writes(Head(calls).block, v) + 1, Len(stack[v]))]
  BY DEF CallsInv, StacksInv, Stacks, LeaveBlock
<1> HIDE DEF Call
<1>2. /\ Tail(calls) \in Seq(Call) /\ Head(calls) = calls[1] /\ Len(calls) \in Nat \ {0}
      /\ Len(Tail(calls)) = Len(calls) - 1
      /\ \A k \in 1 .. Len(calls) - 1 : Tail(calls)[k] = calls[k + 1]
  BY <1>1, PoppedSeq
<1>3. 1 \in 1 .. Len(calls) /\ b \in Reached /\ calls[1].found \in Stacks
  BY <1>2, CallFacts
<1>4. ASSUME NEW v \in VregsOf(tacs)
      PROVE  /\ stack'[v] \in Seq(Nat)
             /\ \/ stack'[v] = calls[1].found[v]
                \/ /\ calls[1].found[v] = <<>> /\ Len(stack'[v]) = 1
                   /\ Writes(b, v) + 1 \in 1 .. Len(stack[v]) /\ Writes(b, v) + 1 > Writes(b, v)
                   /\ stack'[v][1] = stack[v][Writes(b, v) + 1]
  <2> DEFINE w == Writes(b, v)
             now == stack[v]
             found == calls[1].found[v]
  <2>1. stack'[v] = SubSeq(now, w + 1, Len(now))
    BY <1>1, <1>2
  <2>2. now \in Seq(Nat) /\ found \in Seq(Nat)
    BY <1>1, <1>3 DEF Stacks
  <2>3. Pushed(now, found, w)
    <3>1. Now(1)[v] = now
      BY DEF Now
    <3> QED BY <1>3, <3>1 DEF StacksInv
  <2>4. w \in Nat
    <3>1. b \in Blocks
      BY <1>3
    <3> QED BY <3>1, WritesGrow
  <2> HIDE DEF w, now, found
  <2>5. Len(now) \in Nat /\ Len(found) \in Nat /\ (found = <<>> => Len(found) = 0)
    BY <2>2
  <2>6. w <= Len(now)
    BY <2>3, <2>4, <2>5 DEF Pushed
  <2>7. /\ stack'[v] \in Seq(Nat) /\ Len(stack'[v]) = Len(now) - w
        /\ \A m \in 1 .. Len(now) - w : stack'[v][m] = now[w + m]
    BY <2>1, <2>2, <2>4, <2>6, SuffixOf
  <2>8. CASE found # <<>>
    <3>1. Len(stack'[v]) = Len(found) /\ \A m \in 1 .. Len(stack'[v]) : stack'[v][m] = found[m]
      BY <2>3, <2>4, <2>5, <2>7, <2>8 DEF Pushed
    <3>2. stack'[v] = found
      BY <2>2, <2>7, <3>1, SameSeq
    <3> QED BY <2>7, <3>2 DEF found
  <2>9. CASE found = <<>> /\ Len(now) = w
    <3>1. Len(stack'[v]) = 0
      BY <2>4, <2>5, <2>7, <2>9
    <3>2. stack'[v] = <<>>
      BY <2>7, <3>1
    <3> QED BY <2>7, <2>9, <3>2 DEF found
  <2>10. CASE found = <<>> /\ Len(now) = w + 1
    <3>1. Len(stack'[v]) = 1 /\ w + 1 \in 1 .. Len(now) /\ w + 1 > w /\ stack'[v][1] = now[w + 1]
      BY <2>4, <2>5, <2>7, <2>10
    <3> QED BY <2>7, <2>10, <3>1 DEF found, now, w
  <2> QED BY <2>3, <2>8, <2>9, <2>10 DEF Pushed
<1>5. stack' \in Stacks
  BY <1>1, <1>4 DEF Stacks
<1> QED BY <1>1, <1>2, <1>3, <1>4, <1>5 DEF Call

(* The names and the calls that are left are as they were. *)
LEMMA CodeStays ==
  ASSUME UNCHANGED <<code, counters, flowVars>>
  PROVE  /\ (Shape' <=> Shape) /\ (NamesInv' <=> NamesInv) /\ (ReadsInv' <=> ReadsInv)
         /\ \A b, i, v, s : Defines(b, i, v, s)' <=> Defines(b, i, v, s)
         /\ \A b : Named(b)' <=> Named(b)
         /\ \A b, v : Writes(b, v)' = Writes(b, v)
<1>1. /\ Blocks' = Blocks /\ tacs' = tacs /\ VregsOf(tacs)' = VregsOf(tacs)
      /\ \A w, r : Comes(w, r)' <=> Comes(w, r)
      /\ code' = code /\ counters' = counters
  BY GraphStays
<1>2. Shape' <=> Shape
  BY <1>1 DEF Shape, IsTac
<1>3. \A b, i, v, s : Defines(b, i, v, s)' <=> Defines(b, i, v, s)
  BY <1>1 DEF Defines
<1>4. \A b, i, f, v, s : Reads(b, i, f, v, s)' <=> Reads(b, i, f, v, s)
  BY <1>1 DEF Reads
<1>5. NamesInv' <=> NamesInv
  BY <1>1, <1>3 DEF NamesInv
<1>6. ReadsInv' <=> ReadsInv
  BY <1>1, <1>3, <1>4 DEF ReadsInv
<1>7. /\ \A b : Named(b)' <=> Named(b)
      /\ \A b, v : Writes(b, v)' = Writes(b, v)
  BY <1>1 DEF Named, Writes, WritesBefore
<1> QED BY <1>2, <1>3, <1>5, <1>6, <1>7

LEMMA LeaveKeepsCalls ==
  ASSUME Reached \subseteq Blocks, Shape, NamesInv, CallsInv, StacksInv, LeaveBlock
  PROVE  CallsInv'
<1>1. /\ Len(calls) \in Nat /\ Len(calls') = Len(calls) - 1
      /\ \A k \in 1 .. Len(calls) - 1 : calls'[k] = calls[k + 1]
      /\ calls' \in Seq([block : Reached, child : Int, found : Stacks])
  BY LeavePops
<1>2. Reached' = Reached /\ Stacks' = Stacks /\ \A b : Dominators(b)' = Dominators(b)
  BY GraphStays DEF LeaveBlock
<1>3. ASSUME NEW k \in 1 .. Len(calls'), NEW l \in 1 .. Len(calls'), k < l
      PROVE  /\ calls'[l].block \in Dominators(calls'[k].block)
             /\ calls'[l].block # calls'[k].block
  <2>1. k + 1 \in 1 .. Len(calls) /\ l + 1 \in 1 .. Len(calls) /\ k + 1 < l + 1
    BY <1>1, <1>3
  <2>2. calls'[k] = calls[k + 1] /\ calls'[l] = calls[l + 1]
    BY <1>1, <1>3
  <2> QED BY <2>1, <2>2 DEF CallsInv
<1> QED BY <1>1, <1>2, <1>3 DEF CallsInv

LEMMA LeaveKeepsStacks ==
  ASSUME Reached \subseteq Blocks, Shape, NamesInv, CallsInv, StacksInv, LeaveBlock
  PROVE  StacksInv'
<1>1. /\ 1 \in 1 .. Len(calls) /\ Len(calls) \in Nat /\ Len(calls') = Len(calls) - 1
      /\ \A k \in 1 .. Len(calls) - 1 : calls'[k] = calls[k + 1]
      /\ stack' \in Stacks
  BY LeavePops
<1>2. /\ UNCHANGED <<code, counters, flowVars>> /\ stage' = "renaming"
      /\ Reached' = Reached /\ Stacks' = Stacks /\ VregsOf(tacs)' = VregsOf(tacs)
      /\ \A b, v : Writes(b, v)' = Writes(b, v)
      /\ \A b, i, v, s : Defines(b, i, v, s)' <=> Defines(b, i, v, s)
  BY GraphStays, CodeStays DEF LeaveBlock
<1>3. ASSUME NEW k \in Nat \ {0}, NEW v, NEW s, Belongs(k + 1, v, s) PROVE Belongs(k, v, s)'
  <2>1. \A l \in k + 1 .. Len(calls) : l - 1 \in k .. Len(calls') /\ calls'[l - 1] = calls[l]
    <3>1. \A l \in k + 1 .. Len(calls) : l - 1 \in 1 .. Len(calls) - 1 /\ (l - 1) + 1 = l
      BY <1>1
    <3> QED BY <1>1, <3>1
  <2>2. s < counters[v] /\ \A b, i : Defines(b, i, v, s) => \E l \in k + 1 .. Len(calls) : b = calls[l].block
    BY <1>3 DEF Belongs
  <2> QED BY <1>2, <2>1, <2>2 DEF Belongs
<1>4. ASSUME NEW k \in 1 .. Len(calls'), NEW v \in VregsOf(tacs), NEW b \in Reached, b = calls'[k].block
      PROVE  /\ Pushed(Now(k)'[v], calls'[k].found[v], Writes(b, v))
             /\ \A m \in 1 .. Len(Now(k)'[v]), s \in Nat : s = Now(k)'[v][m] =>
                  Belongs(k, v, s)' /\ (m > Writes(b, v) => Belongs(k + 1, v, s)')
  <2>1. /\ k \in Nat \ {0} /\ k + 1 \in 1 .. Len(calls) /\ k + 1 \in Nat \ {0} /\ calls'[k] = calls[k + 1]
        /\ (k + 1) - 1 = k /\ k + 1 # 1
    BY <1>1
  <2> DEFINE old == calls[k].found
  <2>2. /\ Pushed(old[v], calls'[k].found[v], Writes(b, v))
        /\ \A m \in 1 .. Len(old[v]), s \in Nat : s = old[v][m] =>
             Belongs(k + 1, v, s) /\ (m > Writes(b, v) => Belongs(k + 2, v, s))
    <3>1. Now(k + 1) = old /\ b = calls[k + 1].block
      BY <1>4, <2>1 DEF Now
    <3>2. (k + 1) + 1 = k + 2
      BY <2>1
    <3> QED BY <2>1, <3>1, <3>2 DEF StacksInv
  <2>3. \A s : /\ Belongs(k + 1, v, s) => Belongs(k, v, s)'
               /\ Belongs(k + 2, v, s) => Belongs(k + 1, v, s)'
    <3>1. (k + 1) + 1 = k + 2
      BY <2>1
    <3> QED BY <1>3, <2>1, <3>1
  <2>4. CASE Now(k)'[v] = old[v]
    BY <2>2, <2>3, <2>4
  <2>5. CASE Now(k)'[v] # old[v]
    <3> DEFINE c == calls[1].block
               w == Writes(c, v)
    <3>1. k = 1
      <4> SUFFICES ASSUME k # 1 PROVE FALSE
        OBVIOUS
      <4>1. k - 1 \in 1 .. Len(calls) - 1 /\ (k - 1) + 1 = k
        BY <1>1
      <4>2. Now(k)' = calls'[k - 1].found
        BY <2>1 DEF Now
      <4>3. calls'[k - 1] = calls[k]
        BY <1>1, <4>1
      <4> QED BY <2>5, <4>2, <4>3
    <3>2. Now(k)' = stack' /\ Now(1) = stack /\ old = calls[1].found /\ c \in Reached
      BY <1>1, <3>1, CallFacts DEF Now
    <3>3. /\ old[v] = <<>> /\ Len(stack'[v]) = 1
          /\ w + 1 \in 1 .. Len(stack[v]) /\ w + 1 > w
          /\ stack'[v][1] = stack[v][w + 1]
      BY <2>5, <3>2, LeavePops
    <3>4. Writes(b, v) = 0 /\ calls'[k].found[v] = <<>>
      <4>1. Writes(b, v) \in Nat
        BY WritesGrow
      <4>2. calls'[k].found[v] \in Seq(Nat)
        <5>1. calls[k + 1].found \in Stacks
          BY <2>1, CallFacts
        <5> QED BY <2>1, <5>1 DEF Stacks
      <4>3. Len(old[v]) = 0
        BY <3>3
      <4>4. /\ calls'[k].found[v] # <<>> => Len(old[v]) = Writes(b, v) + Len(calls'[k].found[v])
            /\ calls'[k].found[v] = <<>> => Len(old[v]) = Writes(b, v) \/ Len(old[v]) = Writes(b, v) + 1
        BY <2>2 DEF Pushed
      <4>5. Len(calls'[k].found[v]) \in Nat /\ (calls'[k].found[v] # <<>> => Len(calls'[k].found[v]) # 0)
        BY <4>2
      <4> QED BY <4>1, <4>3, <4>4, <4>5
    <3>5. Pushed(Now(k)'[v], calls'[k].found[v], Writes(b, v))
      BY <3>2, <3>3, <3>4 DEF Pushed
    <3>6. ASSUME NEW s \in Nat, s = stack'[v][1] PROVE Belongs(k, v, s)' /\ Belongs(k + 1, v, s)'
      <4>1. Belongs(2, v, s)
        <5>1. 1 + 1 = 2
          OBVIOUS
        <5> QED BY <1>1, <3>2, <3>3, <3>6, <5>1 DEF StacksInv
      <4>2. \A i : ~Defines(b, i, v, s)
        <5> SUFFICES ASSUME NEW i, Defines(b, i, v, s) PROVE FALSE
          OBVIOUS
        <5>1. b \in Blocks /\ i \in 1 .. Len(code[b]) /\ code[b][i].dst = v /\ i \in 1 .. Len(code[b]) + 1
          BY DEF Defines, Shape
        <5>2. WritesBefore(b, i, v) < Writes(b, v) /\ WritesBefore(b, i, v) \in Nat
          BY <5>1, WritesGrow
        <5> QED BY <3>4, <5>2
      <4>3. Belongs(3, v, s)
        <5>1. s < counters[v] /\ \A d, i : Defines(d, i, v, s) => \E l \in 2 .. Len(calls) : d = calls[l].block
          BY <4>1 DEF Belongs
        <5>2. b = calls[2].block
          BY <1>4, <2>1, <3>1
        <5>3. \A l \in 2 .. Len(calls) : l = 2 \/ l \in 3 .. Len(calls)
          BY <1>1
        <5>4. \A d, i : Defines(d, i, v, s) => \E l \in 3 .. Len(calls) : d = calls[l].block
          BY <4>2, <5>1, <5>2, <5>3
        <5> QED BY <5>1, <5>4 DEF Belongs
      <4>4. k + 1 = 2 /\ k + 2 = 3
        BY <3>1
      <4> QED BY <2>3, <4>1, <4>3, <4>4
    <3>7. \A m \in 1 .. Len(stack'[v]) : m = 1
      BY <3>3
    <3> QED BY <3>2, <3>5, <3>6, <3>7
  <2> QED BY <2>4, <2>5
<1> QED BY <1>1, <1>2, <1>4 DEF StacksInv

-----------------------------------------------------------------------------
(* The entry dominates every block, and between a block and one that       *)
(* dominates it is a child of the latter.                                  *)
LEMMA EntryDominates ==
  ASSUME FlowGraph, NEW b
  PROVE  0 \in Dominators(b)
<1> DEFINE X == {}
<1>1. \A e \in Range(edges) :
        e[1] \in X /\ e[1] \in ReachedWithout(0) /\ e[2] # 0 => e[2] \in X
  OBVIOUS
<1>2. ReachedWithout(0) \subseteq X
  <2> HIDE DEF X
  <2> QED BY <1>1, ReachedIsLeast
<1> QED BY <1>2 DEF Dominators, FlowGraph

LEMMA ChildBetween ==
  ASSUME Ordered, IsTree(idom), NEW b \in Reached, NEW a \in Dominators(b), a # b
  PROVE  \E c \in Reached \ {0} : idom[c] = a /\ c \in Dominators(b)
<1> DEFINE S == {c \in Reached : c \in Dominators(b) /\ c # a /\ a \in Dominators(c)}
           T == {n \in Nat : \E c \in S : rpos[c] = n}
<1>1. /\ FlowGraph /\ Dominators(0) = {0}
      /\ \A c \in Reached : c \in Dominators(c) /\ rpos[c] \in Nat
  <2>1. FlowGraph /\ Reached \subseteq Blocks /\ \A c \in Blocks : rpos[c] \in Nat
    BY WaysFromEntry DEF Ordered
  <2> QED BY <2>1, WaysFromEntry, DominatorsComeBefore
<1>2. b \in S
  BY <1>1
<1>3. PICK c \in S : \A d \in S : rpos[c] <= rpos[d]
  <2>1. rpos[b] \in T
    BY <1>1, <1>2
  <2>2. T \in SUBSET Nat /\ T # {}
    BY <2>1
  <2>3. PICK n \in T : \A m \in T : n <= m
    <3> HIDE DEF T
    <3> QED BY <2>2, LeastOfNaturals
  <2>4. \A d \in S : rpos[d] \in T
    BY <1>1
  <2> QED BY <2>3, <2>4
<1>4. c \in Reached \ {0} /\ c \in Dominators(b) /\ c # a /\ a \in Dominators(c)
  BY <1>1
<1>5. idom[c] \in Reached /\ rpos[idom[c]] < rpos[c] /\ Dominators(c) = {c} \cup Dominators(idom[c])
  BY <1>4 DEF IsTree
<1>6. a \in Dominators(idom[c]) /\ idom[c] \in Dominators(b)
  <2>1. idom[c] \in Dominators(c)
    BY <1>1, <1>5
  <2> QED BY <1>1, <1>4, <1>5, <2>1, DominanceIsTransitive
<1>7. idom[c] \notin S
  <2>1. rpos[idom[c]] \in Nat /\ rpos[c] \in Nat
    BY <1>1, <1>4, <1>5
  <2> HIDE DEF S
  <2> QED BY <1>3, <1>5, <2>1
<1>8. idom[c] = a
  BY <1>5, <1>6, <1>7
<1> QED BY <1>4, <1>8

(* A block has its names after its call.                                   *)
LEMMA EnterGivesNames ==
  ASSUME Shape, NamesInv, StacksInv, NEW b, NEW callers, Entering(b, callers)
  PROVE  Named(b)' /\ \A c \in Blocks : Named(c) => Named(c)'
<1>1. b \in Blocks /\ EnterBlock(b, callers) /\ counters \in [VregsOf(tacs) -> Nat] /\ stack \in Stacks
  BY DEF Entering, NamesInv, StacksInv
<1>2. \A c \in Blocks : /\ Len(code'[c]) = Len(code[c]) /\ Len(code[c]) \in Nat
        /\ \A i \in 1 .. Len(code[c]) :
             /\ code'[c][i].dst = code[c][i].dst
             /\ code'[c][i].subs = IF c = b THEN Subscripts(b, i) ELSE code[c][i].subs
  <2>1. \A c \in Blocks : Len(code[c]) \in Nat
    BY DEF Shape
  <2> QED BY <1>1, <2>1, EnterNames
<1>3. ASSUME NEW i \in 1 .. Len(code[b]), code[b][i].dst # 0 PROVE Subscripts(b, i).dst # -1
  <2> DEFINE v == code[b][i].dst
  <2>1. v \in VregsOf(tacs)
    <3>1. IsTac(code[b][i])
      BY <1>1 DEF Shape
    <3> QED BY <1>3, <3>1 DEF IsTac
  <2>2. Subscripts(b, i).dst = counters[v] + Undefined(b, v) + WritesBefore(b, i, v)
    BY <1>1, <2>1, SubscriptsGiven
  <2>3. counters[v] \in Nat /\ Undefined(b, v) \in {0, 1} /\ WritesBefore(b, i, v) \in Nat
    <3>1. i \in 1 .. Len(code[b]) + 1
      BY <1>1, <1>2
    <3> QED BY <1>1, <2>1, <3>1, WritesGrow DEF Undefined
  <2> HIDE DEF v
  <2> QED BY <2>2, <2>3
<1>4. Named(b)'
  BY <1>1, <1>2, <1>3 DEF Named
<1>5. ASSUME NEW c \in Blocks, Named(c) PROVE Named(c)'
  <2>1. CASE c = b
    BY <1>4, <2>1
  <2>2. CASE c # b
    BY <1>2, <1>5, <2>2 DEF Named
  <2> QED BY <2>1, <2>2
<1> QED BY <1>4, <1>5

(* What is ahead of the calls once there is one for the entry.             *)
LEMMA EntryLeavesTheRestAhead ==
  ASSUME Ordered, IsTree(idom), Shape, NamesInv, CallsInv, StacksInv, calls = <<>>, Entering(0, <<>>)
  PROVE  \A b \in Reached : Named(b)' \/ ToCome(b)'
<1>1. /\ Len(calls') = Len(calls) + 1 /\ calls'[1].block = 0 /\ calls'[1].child = -1
  BY EnterKeepsCalls
<1>2. Reached' = Reached /\ idom' = idom /\ \A b : Dominators(b)' = Dominators(b)
  BY GraphStays DEF Entering
<1>3. FlowGraph /\ Reached \subseteq Nat
  BY WaysFromEntry DEF Ordered, FlowGraph
<1>4. ASSUME NEW b \in Reached, b # 0 PROVE ToCome(b)'
  <2>1. PICK c \in Reached \ {0} : idom[c] = 0 /\ c \in Dominators(b)
    BY <1>3, <1>4, EntryDominates, ChildBetween
  <2>2. c > -1 /\ 1 \in 1 .. Len(calls')
    BY <1>1, <1>3
  <2> QED BY <1>1, <1>2, <2>1, <2>2 DEF ToCome
<1> QED BY <1>4, EnterGivesNames

(* Going on to the next child leaves none behind.                          *)
LEMMA ChildLeavesTheRestAhead ==
  ASSUME Ordered, IsTree(idom), Shape, NamesInv, CallsInv, StacksInv, calls # <<>>,
         NEW b \in Children, \A c \in Children : b <= c,
         Entering(b, <<[Head(calls) EXCEPT !.child = b]>> \o Tail(calls)),
         NEW c \in Reached, Named(c) \/ ToCome(c)
  PROVE  Named(c)' \/ ToCome(c)'
<1> DEFINE callers == <<[Head(calls) EXCEPT !.child = b]>> \o Tail(calls)
           Call == [block : Reached, child : Int, found : Stacks]
<1>1. /\ Len(calls') = Len(calls) + 1 /\ Len(calls) \in Nat
      /\ calls'[1].block = b /\ calls'[1].child = -1
      /\ \A k \in 1 .. Len(calls) :
           /\ calls'[k + 1] = callers[k] /\ calls'[k + 1].block = calls[k].block
  BY EnterKeepsCalls
<1>2. Reached' = Reached /\ idom' = idom /\ \A d : Dominators(d)' = Dominators(d)
  BY GraphStays DEF Entering
<1>3. FlowGraph /\ Reached \subseteq Blocks /\ Blocks \subseteq Nat
  BY WaysFromEntry DEF Ordered, FlowGraph
<1>4. Head(calls) = calls[1] /\ 1 \in 1 .. Len(calls)
      /\ calls'[2].child = b
      /\ \A k \in 2 .. Len(calls) : calls'[k + 1].child = calls[k].child
  <2>1. calls \in Seq(Call)
    BY DEF CallsInv
  <2> HIDE DEF Call
  <2>2. /\ Tail(calls) \in Seq(Call) /\ Head(calls) = calls[1] /\ Len(calls) \in Nat \ {0}
        /\ Len(Tail(calls)) = Len(calls) - 1
        /\ \A k \in 1 .. Len(calls) - 1 : Tail(calls)[k] = calls[k + 1]
    BY <2>1, PoppedSeq
  <2>3. [Head(calls) EXCEPT !.child = b].child = b
    <3>1. \A r \in Call : [r EXCEPT !.child = b].child = b
      BY DEF Call
    <3>2. Head(calls) \in Call
      BY <2>1, <2>2
    <3> QED BY <3>1, <3>2
  <2>4. callers[1] = [Head(calls) EXCEPT !.child = b]
        /\ \A k \in 1 .. Len(Tail(calls)) : callers[k + 1] = Tail(calls)[k]
    <3>1. \A x : \A s \in Seq(Call) :
            (<<x>> \o s)[1] = x /\ \A k \in 1 .. Len(s) : (<<x>> \o s)[k + 1] = s[k]
      OBVIOUS
    <3> QED BY <2>2, <3>1
  <2>5. calls'[2] = callers[1]
    <3>1. 1 \in 1 .. Len(calls) /\ 1 + 1 = 2
      BY <2>2
    <3> QED BY <1>1, <3>1
  <2>6. ASSUME NEW k \in 2 .. Len(calls) PROVE calls'[k + 1].child = calls[k].child
    <3>1. k \in 1 .. Len(calls) /\ k - 1 \in 1 .. Len(calls) - 1 /\ (k - 1) + 1 = k
      BY <2>2
    <3>2. callers[k] = calls[k]
      BY <2>2, <2>4, <3>1
    <3> QED BY <1>1, <3>1, <3>2
  <2> HIDE DEF callers
  <2> QED BY <2>2, <2>3, <2>4, <2>5, <2>6
<1> HIDE DEF callers
<1>5. CASE Named(c)
  BY <1>3, <1>5, EnterGivesNames
<1>6. CASE c = b
  BY <1>6, EnterGivesNames
<1>7. CASE ToCome(c) /\ c # b
  <2>1. PICK k \in 1 .. Len(calls), d \in Reached \ {0} :
          idom[d] = calls[k].block /\ d > calls[k].child /\ d \in Dominators(c)
    BY <1>7 DEF ToCome
  <2>2. CASE k # 1
    <3>1. k \in 2 .. Len(calls) /\ k + 1 \in 1 .. Len(calls')
      BY <1>1, <2>2
    <3>2. calls'[k + 1].block = calls[k].block /\ calls'[k + 1].child = calls[k].child
      BY <1>1, <1>4, <3>1
    <3> QED BY <1>2, <2>1, <3>1, <3>2 DEF ToCome
  <2>3. CASE k = 1
    <3>1. d \in Children
      BY <1>3, <1>4, <2>1, <2>3 DEF Children
    <3>2. CASE d = b
      <4>1. PICK e \in Reached \ {0} : idom[e] = b /\ e \in Dominators(c)
        BY <1>7, <2>1, <3>2, ChildBetween
      <4>2. e > -1 /\ 1 \in 1 .. Len(calls')
        BY <1>1, <1>3
      <4> QED BY <1>1, <1>2, <4>1, <4>2 DEF ToCome
    <3>3. CASE d # b
      <4>1. d > b /\ 2 \in 1 .. Len(calls')
        <5>1. b <= d /\ d \in Nat /\ b \in Nat
          BY <1>3, <3>1 DEF Children
        <5> QED BY <1>1, <1>4, <3>3, <5>1
      <4>2. calls'[2].block = calls[1].block /\ calls'[2].child = b
        <5>1. 1 + 1 = 2
          OBVIOUS
        <5> QED BY <1>1, <1>4, <5>1
      <4> QED BY <1>2, <2>1, <2>3, <4>1, <4>2 DEF ToCome
    <3> QED BY <3>2, <3>3
  <2> QED BY <2>2, <2>3
<1> QED BY <1>5, <1>6, <1>7

(* A call returns when nothing is ahead of it any more.                    *)
LEMMA LeavingLeavesNothingBehind ==
  ASSUME Reached \subseteq Blocks, Shape, NamesInv, CallsInv, StacksInv, LeaveBlock,
         NEW c \in Reached, Named(c) \/ ToCome(c)
  PROVE  Named(c)' \/ ToCome(c)'
<1>1. /\ Len(calls) \in Nat /\ Len(calls') = Len(calls) - 1
      /\ \A k \in 1 .. Len(calls) - 1 : calls'[k] = calls[k + 1]
  BY LeavePops
<1>2. /\ Reached' = Reached /\ idom' = idom /\ \A d : Dominators(d)' = Dominators(d)
      /\ (Named(c)' <=> Named(c))
  BY GraphStays, CodeStays DEF LeaveBlock
<1>3. CASE ToCome(c)
  <2>1. PICK k \in 1 .. Len(calls), d \in Reached \ {0} :
          idom[d] = calls[k].block /\ d > calls[k].child /\ d \in Dominators(c)
    BY <1>3 DEF ToCome
  <2>2. k # 1
    <3>1. Head(calls) = calls[1]
      BY DEF LeaveBlock, CallsInv
    <3> QED BY <2>1, <3>1 DEF LeaveBlock, Children
  <2>3. k - 1 \in 1 .. Len(calls') /\ calls'[k - 1] = calls[k]
    <3>1. k - 1 \in 1 .. Len(calls) - 1 /\ (k - 1) + 1 = k
      BY <1>1, <2>2
    <3> QED BY <1>1, <3>1
  <2> QED BY <1>2, <2>1, <2>3 DEF ToCome
<1> QED BY <1>2, <1>3

(* The steps of rename_vars keep the invariant. *)
LEMMA EntryKeepsRenaming ==
  ASSUME Ordered, IsTree(idom), RenameInv, RenameEntry
  PROVE  RenameInv'
<1>1. Shape /\ NamesInv /\ ReadsInv /\ CallsInv /\ StacksInv
  BY DEF RenameInv
<1>2. Reached \subseteq Blocks /\ 0 \in Reached
  BY WaysFromEntry DEF Ordered
<1>3. Entering(0, <<>>)
  <2>1. calls = <<>> /\ EnterBlock(0, <<>>) /\ UNCHANGED flowVars /\ stage = "rename"
    BY DEF RenameEntry
  <2>2. <<>> \in Seq([block : Reached, child : Int, found : Stacks]) /\ Len(calls) = 0 /\ Len(<<>>) = 0
    BY <2>1
  <2>3. \A v \in VregsOf(tacs) : stack[v] = <<>>
    BY <1>1, <2>1 DEF StacksInv
  <2> QED BY <1>2, <2>1, <2>2, <2>3 DEF Entering
<1>4. Shape' /\ NamesInv' /\ ReadsInv' /\ CallsInv' /\ StacksInv'
  BY <1>1, <1>2, <1>3, EnterKeepsShape, EnterKeepsNames, EnterKeepsReads, EnterKeepsCalls,
     EnterKeepsStacks
<1>5. WalkInv'
  <2>1. \A b \in Reached : Named(b)' \/ ToCome(b)'
    BY <1>1, <1>3, EntryLeavesTheRestAhead DEF RenameEntry
  <2>2. Reached' = Reached /\ stage' = "renaming"
    BY <1>3, GraphStays DEF Entering, RenameEntry
  <2> QED BY <2>1, <2>2 DEF WalkInv
<1> QED BY <1>4, <1>5 DEF RenameInv

LEMMA ChildKeepsRenaming ==
  ASSUME Ordered, IsTree(idom), RenameInv, RenameChild
  PROVE  RenameInv'
<1> DEFINE Call == [block : Reached, child : Int, found : Stacks]
<1>1. Shape /\ NamesInv /\ ReadsInv /\ CallsInv /\ StacksInv
  BY DEF RenameInv
<1>2. FlowGraph /\ Reached \subseteq Blocks /\ Blocks \subseteq Nat /\ \A b \in Reached : rpos[b] \in Nat
  BY WaysFromEntry DEF Ordered, FlowGraph
<1>3. /\ calls \in Seq(Call) /\ calls # <<>> /\ Tail(calls) \in Seq(Call)
      /\ Head(calls) = calls[1] /\ Len(calls) \in Nat \ {0}
      /\ Len(Tail(calls)) = Len(calls) - 1
      /\ \A k \in 1 .. Len(calls) - 1 : Tail(calls)[k] = calls[k + 1]
  <2>1. calls \in Seq(Call) /\ calls # <<>>
    BY <1>1 DEF CallsInv, RenameChild
  <2> HIDE DEF Call
  <2> QED BY <2>1, PoppedSeq
<1>4. PICK b \in Children :
        /\ \A c \in Children : b <= c
        /\ EnterBlock(b, <<[Head(calls) EXCEPT !.child = b]>> \o Tail(calls))
  BY DEF RenameChild
<1> DEFINE top == [Head(calls) EXCEPT !.child = b]
           callers == <<top>> \o Tail(calls)
<1>5. b \in Reached \ {0} /\ b \in Blocks /\ idom[b] = calls[1].block
      /\ idom[b] \in Reached /\ rpos[idom[b]] < rpos[b] /\ Dominators(b) = {b} \cup Dominators(idom[b])
  <2>1. b \in Blocks /\ idom[b] = calls[1].block
    BY <1>3, <1>4 DEF Children
  <2>2. calls[1].block \in Reached
    <3>1. 1 \in 1 .. Len(calls)
      BY <1>3
    <3> QED BY <1>1, <3>1, CallFacts
  <2>3. idom[b] # -1
    BY <1>2, <2>1, <2>2
  <2> QED BY <2>1, <2>2, <2>3 DEF IsTree
<1>6. top \in Call /\ top.block = Head(calls).block /\ top.found = Head(calls).found
  <2>1. \A r \in Call, i \in Int : /\ [r EXCEPT !.child = i] \in Call
                                  /\ [r EXCEPT !.child = i].block = r.block
                                  /\ [r EXCEPT !.child = i].found = r.found
    OBVIOUS
  <2>2. Head(calls) \in Call /\ b \in Int
    <3> HIDE DEF Call
    <3> QED BY <1>2, <1>3, <1>5
  <2> HIDE DEF Call
  <2> QED BY <2>1, <2>2
<1>7. /\ callers \in Seq(Call) /\ Len(callers) = Len(calls)
      /\ \A k \in 1 .. Len(calls) : /\ callers[k].block = calls[k].block
                                    /\ callers[k].found = calls[k].found
  <2> HIDE DEF Call, top
  <2>1. /\ callers \in Seq(Call) /\ Len(callers) = Len(Tail(calls)) + 1 /\ callers[1] = top
        /\ \A k \in 1 .. Len(Tail(calls)) : callers[k + 1] = Tail(calls)[k]
    BY <1>3, <1>6, PushedSeq
  <2>2. ASSUME NEW k \in 1 .. Len(calls)
        PROVE  callers[k].block = calls[k].block /\ callers[k].found = calls[k].found
    <3>1. CASE k = 1
      BY <1>3, <1>6, <2>1, <3>1
    <3>2. CASE k # 1
      <4>1. k - 1 \in 1 .. Len(calls) - 1 /\ (k - 1) + 1 = k
        BY <1>3, <3>2
      <4>2. callers[k] = calls[k]
        BY <1>3, <2>1, <4>1
      <4> QED BY <4>2
    <3> QED BY <3>1, <3>2
  <2>3. Len(callers) = Len(calls)
    BY <1>3, <2>1
  <2> HIDE DEF callers
  <2> QED BY <2>1, <2>2, <2>3
<1>8. ASSUME NEW k \in 1 .. Len(calls)
      PROVE  calls[k].block \in Dominators(b) /\ calls[k].block # b
  <2>1. calls[k].block \in Dominators(idom[b])
    <3>1. CASE k = 1
      BY <1>5, <3>1, DominatorsComeBefore
    <3>2. CASE k # 1
      <4>1. 1 \in 1 .. Len(calls) /\ 1 < k
        BY <1>3, <3>2
      <4> QED BY <1>1, <1>5, <4>1 DEF CallsInv
    <3> QED BY <3>1, <3>2
  <2>2. rpos[calls[k].block] <= rpos[idom[b]] /\ calls[k].block \in Reached
    BY <1>5, <2>1, DominatorsComeBefore
  <2>3. calls[k].block # b
    <3>1. rpos[calls[k].block] \in Nat /\ rpos[idom[b]] \in Nat /\ rpos[b] \in Nat
      BY <1>2, <1>5, <2>2
    <3> QED BY <1>5, <2>2, <3>1
  <2> QED BY <1>5, <2>1, <2>3
<1>9. Entering(b, callers)
  <2>1. UNCHANGED flowVars
    BY DEF RenameChild
  <2> HIDE DEF top
  <2>2. EnterBlock(b, callers)
    BY <1>4 DEF top
  <2> HIDE DEF callers
  <2> QED BY <1>3, <1>5, <1>7, <1>8, <2>1, <2>2 DEF Entering
<1>10. Shape' /\ NamesInv' /\ ReadsInv' /\ CallsInv' /\ StacksInv'
  <2> HIDE DEF callers
  <2> QED BY <1>1, <1>2, <1>9, EnterKeepsShape, EnterKeepsNames, EnterKeepsReads, EnterKeepsCalls,
             EnterKeepsStacks
<1>11. WalkInv'
  <2>1. \A c \in Reached : Named(c) \/ ToCome(c)
    BY DEF RenameInv, WalkInv, RenameChild
  <2>2. \A c \in Reached : Named(c)' \/ ToCome(c)'
    BY <1>1, <1>3, <1>4, <1>9, <2>1, ChildLeavesTheRestAhead
  <2>3. Reached' = Reached /\ stage' = "renaming"
    <3> HIDE DEF callers
    <3> QED BY <1>9, GraphStays DEF Entering, RenameChild
  <2> QED BY <2>2, <2>3 DEF WalkInv
<1> QED BY <1>10, <1>11 DEF RenameInv

LEMMA LeaveKeepsRenaming ==
  ASSUME Ordered, RenameInv, LeaveBlock
  PROVE  RenameInv'
<1>1. Shape /\ NamesInv /\ ReadsInv /\ CallsInv /\ StacksInv
  BY DEF RenameInv
<1>2. Reached \subseteq Blocks
  BY WaysFromEntry DEF Ordered
<1>3. Shape' /\ NamesInv' /\ ReadsInv' /\ CallsInv' /\ StacksInv'
  BY <1>1, <1>2, CodeStays, LeaveKeepsCalls, LeaveKeepsStacks DEF LeaveBlock
<1>4. WalkInv'
  <2>1. \A c \in Reached : Named(c) \/ ToCome(c)
    BY DEF RenameInv, WalkInv, LeaveBlock
  <2>2. \A c \in Reached : Named(c)' \/ ToCome(c)'
    BY <1>1, <1>2, <2>1, LeavingLeavesNothingBehind
  <2>3. Reached' = Reached /\ stage' = "renaming"
    BY GraphStays DEF LeaveBlock
  <2> QED BY <2>2, <2>3 DEF WalkInv
<1> QED BY <1>3, <1>4 DEF RenameInv

-----------------------------------------------------------------------------
(* What insert_phi_functions hands over to rename_vars: code in which no   *)
(* value has a subscript yet.                                              *)
LEMMA VregsAreFinite ==
  ASSUME NEW t, Len(t) \in Nat
  PROVE  IsFiniteSet(VregsOf(t))
<1> DEFINE of(i) == {t[i].dst, t[i].src1, t[i].src2}
           U(n) == UNION {of(i) : i \in 1 .. n}
           T == {n \in Nat : IsFiniteSet(U(n))}
<1>1. U(0) = {}
  OBVIOUS
<1>2. ASSUME NEW n \in Nat PROVE U(n + 1) = U(n) \cup of(n + 1)
  <2>1. \A i : i \in 1 .. n + 1 <=> i \in 1 .. n \/ i = n + 1
    OBVIOUS
  <2> HIDE DEF of
  <2> QED BY <2>1
<1>3. T = Nat
  <2>1. T \in SUBSET Nat /\ 0 \in T
    BY <1>1, FS_EmptySet
  <2>2. ASSUME NEW n \in T PROVE n + 1 \in T
    <3> DEFINE V == U(n)
               x == t[n + 1]
    <3>1. U(n + 1) = ((V \cup {x.dst}) \cup {x.src1}) \cup {x.src2}
      <4>1. U(n + 1) = V \cup of(n + 1)
        BY <1>2
      <4> HIDE DEF U
      <4> QED BY <4>1
    <3>2. IsFiniteSet(V)
      OBVIOUS
    <3> HIDE DEF V, x
    <3>3. IsFiniteSet(((V \cup {x.dst}) \cup {x.src1}) \cup {x.src2})
      BY <3>2, FS_AddElement
    <3>4. n + 1 \in Nat
      OBVIOUS
    <3> HIDE DEF U
    <3>5. IsFiniteSet(U(n + 1))
      BY <3>1, <3>3
    <3> QED BY <3>4, <3>5
  <2> HIDE DEF T
  <2> QED BY <2>1, <2>2, AllNaturals
<1> HIDE DEF U
<1>4. IsFiniteSet(U(Len(t)))
  BY <1>3
<1>5. VregsOf(t) \subseteq U(Len(t))
  BY DEF VregsOf, U
<1> QED BY <1>4, <1>5, FS_Subset

(* A value that was not given a subscript. *)
Unnamed(tac) == IsTac(tac) /\ tac.subs = NoSubs

LEMMA TacsAreUnnamed ==
  ASSUME IsCode(tacs), IsUnnamed(tacs)
  PROVE  /\ Len(tacs) \in Nat /\ VregsOf(tacs) \in SUBSET Nat
         /\ \A i \in 1 .. Len(tacs) : Unnamed(tacs[i])
<1>1. /\ Len(tacs) \in Nat
      /\ \A i \in 1 .. Len(tacs) :
           /\ {"op", "label", "target"} \subseteq DOMAIN tacs[i]
           /\ Fields \cup {"subs"} \subseteq DOMAIN tacs[i]
           /\ {tacs[i].dst, tacs[i].src1, tacs[i].src2} \subseteq Nat
           /\ tacs[i].subs = NoSubs
  BY DEF IsCode, IsUnnamed
<1>2. VregsOf(tacs) \in SUBSET Nat
  BY <1>1 DEF VregsOf
<1>3. ASSUME NEW i \in 1 .. Len(tacs) PROVE IsTac(tacs[i])
  <2>1. {tacs[i].dst, tacs[i].src1, tacs[i].src2} \subseteq VregsOf(tacs) \cup {0}
    BY DEF VregsOf
  <2>2. NoSubs.dst = -1 /\ NoSubs.src1 = -1 /\ NoSubs.src2 = -1 /\ -1 \in Numbers
    BY DEF NoSubs, Numbers
  <2> QED BY <1>1, <2>1, <2>2 DEF IsTac, Fields
<1> QED BY <1>1, <1>2, <1>3 DEF Unnamed

LEMMA PhisAreUnnamed ==
  ASSUME NEW v \in VregsOf(tacs), NEW b
  PROVE  Unnamed(PhiTac(v, b))
<1>1. NoSubs.dst = -1 /\ NoSubs.src1 = -1 /\ NoSubs.src2 = -1 /\ -1 \in Numbers
  BY DEF NoSubs, Numbers
<1>2. /\ {"op", "dst", "src1", "src2", "subs"} \subseteq DOMAIN PhiTac(v, b)
      /\ PhiTac(v, b).dst = v /\ PhiTac(v, b).src1 = 0 /\ PhiTac(v, b).src2 = 0
      /\ PhiTac(v, b).subs = NoSubs
  BY DEF PhiTac
<1> QED BY <1>1, <1>2 DEF Unnamed, IsTac

LEMMA InsertedIsUnnamed ==
  ASSUME IsCode(tacs), IsUnnamed(tacs), blocks = BlocksOf(tacs), InsertPhis,
         phis \in [Blocks -> SUBSET VregsOf(tacs)]
  PROVE  /\ DOMAIN code' = Blocks
         /\ \A b \in Blocks : /\ DOMAIN code'[b] = 1 .. Len(code'[b]) /\ Len(code'[b]) \in Nat
                              /\ \A i \in 1 .. Len(code'[b]) : Unnamed(code'[b][i])
<1>1. code' = [b \in Blocks |-> PhiTacs(b) \o SubSeq(tacs, blocks[b].start, blocks[b].end)]
  BY DEF InsertPhis
<1>2. /\ Len(tacs) \in Nat /\ VregsOf(tacs) \in SUBSET Nat /\ IsFiniteSet(VregsOf(tacs))
      /\ \A i \in 1 .. Len(tacs) : Unnamed(tacs[i])
  BY TacsAreUnnamed, VregsAreFinite
<1>3. ASSUME NEW b \in Blocks
      PROVE  /\ DOMAIN code'[b] = 1 .. Len(code'[b]) /\ Len(code'[b]) \in Nat
             /\ \A i \in 1 .. Len(code'[b]) : Unnamed(code'[b][i])
  <2> DEFINE K == Cardinality(phis[b])
             kth(k) == CHOOSE v \in phis[b] : Cardinality({u \in phis[b] : u < v}) = k - 1
             p == PhiTacs(b)
             q == SubSeq(tacs, blocks[b].start, blocks[b].end)
             S == Range(p) \cup Range(tacs)
  <2>1. phis[b] \in SUBSET VregsOf(tacs) /\ IsFiniteSet(phis[b]) /\ phis[b] \in SUBSET Nat
    BY <1>2, FS_Subset
  <2>2. K \in Nat /\ \A k \in 1 .. K : kth(k) \in phis[b]
    <3> DEFINE P == phis[b]
    <3>1. P \in SUBSET Nat /\ IsFiniteSet(P)
      BY <2>1
    <3>2. /\ Cardinality(P) \in Nat
          /\ \A n \in 0 .. Cardinality(P) - 1 : \E i \in P : Cardinality({j \in P : j < i}) = n
      <4> HIDE DEF P
      <4> QED BY ONLY <3>1, ElementsAreNumbered
    <3>3. \A k \in 1 .. K : k - 1 \in 0 .. K - 1
      BY <3>2
    <3> QED BY <3>2, <3>3
  <2>3. p = [k \in 1 .. K |-> PhiTac(kth(k), b)]
    BY DEF PhiTacs
  <2> HIDE DEF kth, p
  <2>4. p \in Seq(Range(p)) /\ \A x \in Range(p) : Unnamed(x)
    <3>1. DOMAIN p = 1 .. K /\ Len(p) = K /\ p \in Seq(Range(p))
      BY <2>2, <2>3 DEF Range
    <3>2. \A k \in 1 .. K : Unnamed(p[k])
      BY <2>1, <2>2, <2>3, PhisAreUnnamed
    <3> QED BY <3>1, <3>2 DEF Range
  <2>5. q \in Seq(Range(tacs)) /\ \A x \in Range(tacs) : Unnamed(x)
    <3>1. tacs \in Seq(Range(tacs)) /\ DOMAIN tacs = 1 .. Len(tacs)
      BY DEF IsCode
    <3>2. blocks[b].start \in 1 .. Len(tacs) /\ blocks[b].end \in 1 .. Len(tacs)
      <4>1. \A i \in Starts(tacs) : i \in 1 .. Len(tacs)
        BY DEF Starts
      <4> QED BY <4>1, BlocksAreNumbered DEF Blocks
    <3>3. \A t \in Seq(Range(tacs)) : \A i, j \in 1 .. Len(t) : SubSeq(t, i, j) \in Seq(Range(tacs))
      OBVIOUS
    <3>4. q \in Seq(Range(tacs))
      BY <3>1, <3>2, <3>3
    <3> QED BY <1>2, <3>1, <3>4 DEF Range
  <2>6. code'[b] = p \o q
    BY <1>1 DEF p
  <2>7. p \o q \in Seq(S) /\ \A x \in S : Unnamed(x)
    <3>1. \A A, B : \A x \in Seq(A), y \in Seq(B) : x \o y \in Seq(A \cup B)
      OBVIOUS
    <3> HIDE DEF q
    <3> QED BY <2>4, <2>5, <3>1
  <2>8. \A s \in Seq(S) : /\ DOMAIN s = 1 .. Len(s) /\ Len(s) \in Nat
                          /\ \A i \in 1 .. Len(s) : s[i] \in S
    OBVIOUS
  <2> HIDE DEF q, S
  <2> QED BY <2>6, <2>7, <2>8
<1> QED BY <1>1, <1>3

LEMMA InsertPhisStartsRenaming ==
  ASSUME IsCode(tacs), IsUnnamed(tacs), blocks = BlocksOf(tacs), InsertPhis, calls = <<>>,
         phis \in [Blocks -> SUBSET VregsOf(tacs)]
  PROVE  RenameInv'
<1>1. /\ Blocks' = Blocks /\ VregsOf(tacs)' = VregsOf(tacs) /\ calls' = <<>> /\ stage' = "rename"
      /\ tacs' = tacs /\ Stacks' = Stacks
      /\ stack' = [v \in VregsOf(tacs) |-> <<>>]
      /\ counters' = [v \in VregsOf(tacs) |-> 0]
  BY GraphStays DEF InsertPhis
<1>2. /\ DOMAIN code' = Blocks
      /\ \A b \in Blocks : /\ DOMAIN code'[b] = 1 .. Len(code'[b]) /\ Len(code'[b]) \in Nat
                           /\ \A i \in 1 .. Len(code'[b]) : Unnamed(code'[b][i])
  BY InsertedIsUnnamed
<1>3. \A tac : IsTac(tac)' <=> IsTac(tac)
  BY <1>1 DEF IsTac
<1>4. Shape'
  BY <1>1, <1>2, <1>3 DEF Shape, Unnamed
<1>5. ASSUME NEW b \in Blocks, NEW i \in 1 .. Len(code'[b]), NEW s \in Nat
      PROVE  code'[b][i].subs.dst # s /\ code'[b][i].subs.src1 # s /\ code'[b][i].subs.src2 # s
  <2>1. code'[b][i].subs = NoSubs
    BY <1>2 DEF Unnamed
  <2>2. NoSubs.dst = -1 /\ NoSubs.src1 = -1 /\ NoSubs.src2 = -1
    BY DEF NoSubs
  <2> QED BY <2>1, <2>2
<1>6. NamesInv' /\ ReadsInv'
  <2>1. \A b, i, v : \A s \in Nat : ~Defines(b, i, v, s)'
    BY <1>1, <1>5 DEF Defines
  <2>2. \A b, i, v : \A f \in {"src1", "src2"}, s \in Nat : ~Reads(b, i, f, v, s)'
    BY <1>1, <1>5 DEF Reads
  <2>3. counters' \in [VregsOf(tacs) -> Nat]
    BY <1>1
  <2> QED BY <1>1, <2>1, <2>2, <2>3 DEF NamesInv, ReadsInv
<1>7. CallsInv' /\ StacksInv' /\ WalkInv'
  <2>1. Len(calls') = 0 /\ 1 .. Len(calls') = {}
    BY <1>1
  <2>2. CallsInv'
    BY <1>1, <2>1 DEF CallsInv
  <2>3. StacksInv'
    <3>1. stack' \in Stacks
      BY <1>1 DEF Stacks
    <3> QED BY <1>1, <2>1, <3>1 DEF StacksInv
  <2> QED BY <1>1, <2>2, <2>3 DEF WalkInv
<1> QED BY <1>4, <1>6, <1>7 DEF RenameInv

-----------------------------------------------------------------------------
(* From the code of the parser on, until all names are given.              *)
NamingInv ==
  /\ IsUnnamed(source)
  /\ stage \in BeforePhis \cup {"phi"} => calls = <<>>
  /\ stage = "phi" => DOMAIN varBlocks = VregsOf(tacs)
  /\ stage \in {"rename", "renaming"} => RenameInv

LEMMA InitNaming == Init => NamingInv
<1> SUFFICES ASSUME Init PROVE NamingInv
  OBVIOUS
<1>1. PICK s \in Sources : source = s.tacs /\ stage = "graph"
  BY DEF Init, InitFlow
<1>2. calls = <<>>
  BY DEF Init, InitSsa
<1> QED BY <1>1, <1>2, SourceAssumption DEF NamingInv

LEMMA TrimmedIsUnnamed ==
  ASSUME NEW t, IsCode(t), IsUnnamed(t)
  PROVE  IsUnnamed(Trimmed(t))
<1>1. Len(t) \in Nat /\ Len(Trimmed(t)) = Len(t)
  BY TrimmedIsCode
<1>2. \A i \in 1 .. Len(t) : Trimmed(t)[i] = IF Dead(t, i) THEN Nop(t[i]) ELSE t[i]
  BY DEF Trimmed
<1>3. ASSUME NEW tac, Fields \cup {"op", "subs"} \subseteq DOMAIN tac
      PROVE  /\ DOMAIN Nop(tac) = DOMAIN tac /\ Nop(tac).subs = tac.subs
             /\ Nop(tac).dst = 0 /\ Nop(tac).src1 = 0 /\ Nop(tac).src2 = 0
             /\ Nop(tac).op # "IR_PHI_FUNCTION"
  BY <1>3 DEF Nop, Fields
<1>4. ASSUME NEW i \in 1 .. Len(t)
      PROVE  /\ Trimmed(t)[i].op # "IR_PHI_FUNCTION"
             /\ Fields \cup {"subs"} \subseteq DOMAIN Trimmed(t)[i]
             /\ {Trimmed(t)[i].dst, Trimmed(t)[i].src1, Trimmed(t)[i].src2} \subseteq Nat
             /\ Trimmed(t)[i].subs = NoSubs
  <2>1. /\ t[i].op # "IR_PHI_FUNCTION"
        /\ Fields \cup {"op", "subs"} \subseteq DOMAIN t[i]
        /\ {t[i].dst, t[i].src1, t[i].src2} \subseteq Nat
        /\ t[i].subs = NoSubs
    BY DEF IsCode, IsUnnamed
  <2>2. CASE Dead(t, i)
    BY <1>2, <1>3, <2>1, <2>2
  <2>3. CASE ~Dead(t, i)
    BY <1>2, <2>1, <2>3
  <2> QED BY <2>2, <2>3
<1> QED BY <1>1, <1>4 DEF IsUnnamed

(* A step that changes nothing the invariant is about. *)
LEMMA RenamingStays ==
  ASSUME UNCHANGED <<stage, code, calls, stack, counters, flowVars>>, RenameInv
  PROVE  RenameInv'
<1>1. /\ Reached' = Reached /\ tacs' = tacs /\ idom' = idom
      /\ VregsOf(tacs)' = VregsOf(tacs) /\ Stacks' = Stacks
      /\ \A b : Dominators(b)' = Dominators(b)
      /\ calls' = calls /\ stack' = stack /\ counters' = counters /\ stage' = stage
  BY GraphStays
<1>2. /\ Shape' /\ NamesInv' /\ ReadsInv'
      /\ \A b, i, v, s : Defines(b, i, v, s)' <=> Defines(b, i, v, s)
      /\ \A b : Named(b)' <=> Named(b)
      /\ \A b, v : Writes(b, v)' = Writes(b, v)
  BY CodeStays DEF RenameInv
<1>3. CallsInv'
  BY <1>1 DEF RenameInv, CallsInv
<1>4. /\ \A k : Now(k)' = Now(k)
      /\ \A k, v, s : Belongs(k, v, s)' <=> Belongs(k, v, s)
  BY <1>1, <1>2 DEF Now, Belongs
<1>5. StacksInv'
  BY <1>1, <1>2, <1>4 DEF RenameInv, StacksInv
<1>6. \A b : ToCome(b)' <=> ToCome(b)
  BY <1>1 DEF ToCome
<1>7. WalkInv'
  BY <1>1, <1>2, <1>6 DEF RenameInv, WalkInv
<1> QED BY <1>2, <1>3, <1>5, <1>7 DEF RenameInv

LEMMA NextKeepsNaming ==
  ASSUME FlowInv, PlacingInv, RunInv, NamingInv, [Next]_allVars
  PROVE  NamingInv'
<1> DEFINE Renames == {"rename", "renaming"}
<1>1. source' = source
  BY DEF Next, SsaNext, StartCoalescing, SkipCoalescing, CoalesceStep, Run, Stopped, machine, allVars
<1>2. CASE FlowNext /\ UNCHANGED <<insertion, code, class, renaming, ranges>>
  <2>1. stage \in BeforePhis /\ stage' \in BeforePhis /\ calls' = calls
    BY <1>2 DEF FlowNext, MakeControlFlowGraph, VisitDominance, EndRoundOfDominance, MakeRpo,
                StartImmediateDominators, VisitBlock, EndRoundOfBlocks, BeforePhis, renaming
  <2> QED BY <1>1, <2>1 DEF NamingInv, BeforePhis
<1>3. CASE MakeGlobalsAndVarBlocks
  <2>1. /\ stage \in BeforePhis /\ stage' = "phi" /\ calls' = calls /\ tacs' = tacs
        /\ DOMAIN varBlocks' = VregsOf(tacs)
    BY <1>3 DEF MakeGlobalsAndVarBlocks, BeforePhis, renaming, flowVars
  <2> QED BY <1>1, <2>1 DEF NamingInv, BeforePhis, VregsOf
<1>4. CASE PlacePhis
  <2>1. stage = "phi" /\ stage' = "phi" /\ calls' = calls /\ tacs' = tacs /\ varBlocks' = varBlocks
    BY <1>4 DEF PlacePhis, renaming, flowVars, Phi!PhiNext, Phi!TakeGlobal, Phi!TakeBlock, Phi!inputs
  <2> QED BY <1>1, <2>1 DEF NamingInv, VregsOf
<1>5. CASE InsertPhis
  <2>1. stage = "phi" /\ stage' = "rename" /\ calls = <<>>
    BY <1>5 DEF InsertPhis, NamingInv
  <2>2. IsCode(tacs) /\ IsUnnamed(tacs) /\ blocks = BlocksOf(tacs)
    BY <2>1, TrimmedIsCode, TrimmedIsUnnamed DEF RunInv, NamingInv
  <2>3. phis \in [Blocks -> SUBSET VregsOf(tacs)]
    <3>1. PhiProofs!TypeInv /\ DOMAIN varBlocks = VregsOf(tacs)
      BY <2>1 DEF PlacingInv, PhiProofs!IInv, NamingInv
    <3>2. DOMAIN df = Blocks
      BY <2>1 DEF FlowInv, Frontiers
    <3> QED BY <3>1, <3>2 DEF PhiProofs!TypeInv, PhiProofs!FlowBlocks, PhiProofs!Vregs
  <2>4. RenameInv'
    BY <1>5, <2>1, <2>2, <2>3, InsertPhisStartsRenaming
  <2> QED BY <1>1, <2>1, <2>4 DEF NamingInv, BeforePhis
<1>6. CASE RenameEntry \/ RenameChild \/ LeaveBlock
  <2>1. stage \in Renames /\ stage' \in Renames
    BY <1>6 DEF RenameEntry, RenameChild, LeaveBlock
  <2>2. Ordered /\ IsTree(idom) /\ RenameInv
    BY <2>1 DEF FlowInv, NamingInv
  <2>3. RenameInv'
    BY <1>6, <2>2, EntryKeepsRenaming, ChildKeepsRenaming, LeaveKeepsRenaming
  <2> QED BY <1>1, <2>1, <2>3 DEF NamingInv, BeforePhis
<1>7. CASE MakeSets \/ JoinNames \/ MakeLiveRanges \/ StartCoalescing \/ SkipCoalescing \/ CoalesceStep
           \/ Run
  <2>1. stage' \notin BeforePhis \cup {"phi"} \cup Renames
    BY <1>7 DEF MakeSets, JoinNames, MakeLiveRanges, StartCoalescing, SkipCoalescing, CoalesceStep,
                Run, BeforePhis
  <2> QED BY <1>1, <2>1 DEF NamingInv
<1>8. CASE UNCHANGED allVars
  <2>1. UNCHANGED <<stage, code, calls, stack, counters, flowVars, varBlocks>> /\ tacs' = tacs
    BY <1>8 DEF allVars, ssaVars, insertion, renaming, flowVars
  <2>2. RenameInv => RenameInv'
    BY <2>1, RenamingStays
  <2> QED BY <1>1, <2>1, <2>2 DEF NamingInv, VregsOf
<1> QED BY <1>2, <1>3, <1>4, <1>5, <1>6, <1>7, <1>8 DEF Next, SsaNext, Stopped

(* Once no call is open, every reached block has its names.                *)
LEMMA NamesAreGiven ==
  ASSUME RenameInv, Reached \subseteq Blocks, stage = "renaming", calls = <<>>,
         NEW n, NEW w \in Writers(n)
  PROVE  \E v \in VregsOf(tacs), s \in Nat :
           n = <<v, s>> /\ w = <<w[1], w[2]>> /\ Defines(w[1], w[2], v, s)
<1>1. PICK b, i : /\ b \in Reached /\ i \in 1 .. Len(code[b])
                  /\ w = <<b, i>> /\ code[b][i].dst # 0
                  /\ n = <<code[b][i].dst, code[b][i].subs.dst>>
  BY DEF Writers, Positions, Name
<1>2. ~ToCome(b)
  <2>1. 1 .. Len(calls) = {}
    OBVIOUS
  <2> QED BY <2>1 DEF ToCome
<1>3. Named(b)
  BY <1>1, <1>2 DEF RenameInv, WalkInv
<1>4. code[b][i].dst \in VregsOf(tacs) /\ code[b][i].subs.dst \in Nat
  <2>1. IsTac(code[b][i])
    BY <1>1 DEF RenameInv, Shape
  <2>2. code[b][i].subs.dst # -1
    BY <1>1, <1>3 DEF Named
  <2> QED BY <1>1, <2>1, <2>2 DEF IsTac, Numbers
<1>5. Defines(b, i, code[b][i].dst, code[b][i].subs.dst)
  BY <1>1 DEF Defines
<1> QED BY <1>1, <1>4, <1>5

LEMMA RenamingSuffices ==
  ASSUME FlowInv, NamingInv
  PROVE  SingleAssignment
<1> SUFFICES ASSUME stage = "renaming", calls = <<>>
             PROVE  /\ \A n \in Names(code) : Cardinality(Writers(n)) <= 1
                    /\ \A b \in Reached : \A i \in DOMAIN code[b] :
                         \A f \in {g \in {"src1", "src2"} : code[b][i][g] # 0} :
                           \A w \in Writers(Name(code[b][i], f)) : Comes(w, <<b, i>>)
  BY DEF SingleAssignment
<1>1. RenameInv /\ Reached \subseteq Blocks
  BY WaysFromEntry DEF NamingInv, FlowInv, Ordered
<1>2. ASSUME NEW n PROVE Cardinality(Writers(n)) <= 1
  <2> DEFINE W == Writers(n)
  <2>1. ASSUME NEW w \in W, NEW x \in W PROVE w = x
    <3>1. PICK v \in VregsOf(tacs), s \in Nat :
            n = <<v, s>> /\ w = <<w[1], w[2]>> /\ Defines(w[1], w[2], v, s)
      BY <1>1, NamesAreGiven
    <3>2. PICK u \in VregsOf(tacs), r \in Nat :
            n = <<u, r>> /\ x = <<x[1], x[2]>> /\ Defines(x[1], x[2], u, r)
      BY <1>1, NamesAreGiven
    <3>3. u = v /\ r = s
      BY <3>1, <3>2
    <3>4. w[1] = x[1] /\ w[2] = x[2]
      BY <1>1, <3>1, <3>2, <3>3 DEF RenameInv, NamesInv
    <3> QED BY <3>1, <3>2, <3>4
  <2> HIDE DEF W
  <2>2. CASE W = {}
    <3>1. Cardinality(W) = 0
      BY <2>2, FS_EmptySet
    <3> QED BY <3>1 DEF W
  <2>3. CASE W # {}
    <3>1. PICK w \in W : W = {w}
      BY <2>1, <2>3
    <3>2. Cardinality(W) = 1
      BY <3>1, FS_Singleton
    <3> QED BY <3>2 DEF W
  <2> QED BY <2>2, <2>3
<1>3. ASSUME NEW b \in Reached, NEW i \in DOMAIN code[b],
             NEW f \in {g \in {"src1", "src2"} : code[b][i][g] # 0},
             NEW w \in Writers(Name(code[b][i], f))
      PROVE  Comes(w, <<b, i>>)
  <2>1. PICK v \in VregsOf(tacs), s \in Nat :
          Name(code[b][i], f) = <<v, s>> /\ w = <<w[1], w[2]>> /\ Defines(w[1], w[2], v, s)
    BY <1>1, NamesAreGiven
  <2>2. Reads(b, i, f, v, s)
    <3>1. b \in Blocks /\ DOMAIN code[b] = 1 .. Len(code[b])
      BY <1>1 DEF RenameInv, Shape
    <3>2. code[b][i][f] = v /\ code[b][i].subs[f] = s
      BY <2>1 DEF Name
    <3> QED BY <3>1, <3>2 DEF Reads
  <2>3. Comes(<<w[1], w[2]>>, <<b, i>>)
    BY <1>1, <2>1, <2>2 DEF RenameInv, ReadsInv
  <2> QED BY <2>1, <2>3
<1> QED BY <1>2, <1>3

(* In the code that rename_vars leaves no name is written twice, and a     *)
(* name that is read is written, if at all, before: by a tac of the block  *)
(* or by a block that dominates it.                                        *)
THEOREM CodeIsSingleAssignment == Spec => []SingleAssignment
<1> DEFINE I == FlowInv /\ PlacingInv /\ RunInv /\ NamingInv
<1>1. Init => I
  BY InitFlowInv, InitPlacing, InitRun, InitNaming
<1>2. I /\ [Next]_allVars => I'
  BY NextKeepsFlow, NextPlacing, NextKeepsRun, NextKeepsNaming
<1>3. I => SingleAssignment
  BY RenamingSuffices
<1> QED BY <1>1, <1>2, <1>3, PTL DEF Spec

(* A call for a child is one call more. *)
LEMMA ChildCallsOnce ==
  ASSUME CallsInv, RenameChild
  PROVE  Len(calls') = Len(calls) + 1
<1> DEFINE Call == [block : Reached, child : Int, found : Stacks]
<1>1. calls \in Seq(Call) /\ calls # <<>>
  BY DEF CallsInv, RenameChild
<1>2. PICK x, y : calls' = <<x>> \o (<<y>> \o Tail(calls))
  BY DEF RenameChild, EnterBlock
<1> HIDE DEF Call
<1>3. Tail(calls) \in Seq(Call) /\ Len(calls) \in Nat \ {0} /\ Len(Tail(calls)) = Len(calls) - 1
  BY <1>1, PoppedSeq
<1>4. \A s \in Seq(Call) : Len(<<x>> \o (<<y>> \o s)) = Len(s) + 2
  OBVIOUS
<1> QED BY <1>2, <1>3, <1>4

(* When a call of rename_vars returns, its caller has its stacks back, but *)
(* for a subscript that safe_stack_top pushed on an empty one.             *)
THEOREM CodeLeavesStacksAsFound == Spec => LeavesStackAsFound
<1> DEFINE I == FlowInv /\ PlacingInv /\ RunInv /\ NamingInv
<1>1. Init => I
  BY InitFlowInv, InitPlacing, InitRun, InitNaming
<1>2. I /\ [Next]_allVars => I'
  BY NextKeepsFlow, NextPlacing, NextKeepsRun, NextKeepsNaming
<1>3. I /\ [Next]_allVars =>
        [(stage = "renaming" /\ Len(calls') < Len(calls)) =>
           \A v \in DOMAIN stack :
             \/ stack'[v] = Head(calls).found[v]
             \/ Head(calls).found[v] = <<>> /\ Len(stack'[v]) = 1]_ssaVars
  <2>1. CASE UNCHANGED allVars
    BY <2>1 DEF allVars
  <2>2. ASSUME I, Next, stage = "renaming", Len(calls') < Len(calls), NEW v \in DOMAIN stack
        PROVE  \/ stack'[v] = Head(calls).found[v]
               \/ Head(calls).found[v] = <<>> /\ Len(stack'[v]) = 1
    <3>1. RenameInv /\ Ordered /\ IsTree(idom) /\ Reached \subseteq Blocks
      BY <2>2, WaysFromEntry DEF NamingInv, FlowInv, Ordered
    <3>2. Shape /\ NamesInv /\ CallsInv /\ StacksInv /\ Len(calls) \in Nat
      BY <3>1 DEF RenameInv, CallsInv
    <3>3. RenameChild \/ LeaveBlock \/ UNCHANGED calls
      BY <2>2 DEF Next, SsaNext, FlowNext, MakeControlFlowGraph, VisitDominance, EndRoundOfDominance,
           MakeRpo, StartImmediateDominators, VisitBlock, EndRoundOfBlocks, MakeGlobalsAndVarBlocks,
           PlacePhis, InsertPhis, RenameEntry, MakeSets, JoinNames, MakeLiveRanges,
           StartCoalescing, SkipCoalescing, CoalesceStep, Run, Stopped, renaming
    <3>4. ~RenameChild
      BY <2>2, <3>1, <3>2, ChildCallsOnce
    <3>5. LeaveBlock
      BY <2>2, <3>2, <3>3, <3>4
    <3>6. v \in VregsOf(tacs) /\ calls # <<>>
      BY <2>2, <3>2, <3>5 DEF StacksInv, Stacks, LeaveBlock
    <3>7. Head(calls) = calls[1] /\ calls[1].block \in Reached
      <4>1. 1 \in 1 .. Len(calls)
        BY <3>1, <3>2, <3>5, LeavePops
      <4> QED BY <3>2, <4>1, CallFacts
    <3> QED BY <3>1, <3>2, <3>5, <3>6, <3>7, LeavePops
  <2> QED BY <2>1, <2>2
<1> QED BY <1>1, <1>2, <1>3, PTL DEF Spec, LeavesStackAsFound

-----------------------------------------------------------------------------
(* The code while it is in static single assignment form: phi functions    *)
(* first, and then the tacs of the block.                                  *)
PhiCount(b) == Cardinality(phis[b])
OldPlace(b, i) == blocks[b].start + i - 1 - PhiCount(b)
SameTac(tac, old) ==
  tac.op = old.op /\ tac.dst = old.dst /\ tac.src1 = old.src1 /\ tac.src2 = old.src2
IsPhi(tac, b) ==
  /\ "args" \in DOMAIN tac
  /\ tac.op = "IR_PHI_FUNCTION" /\ tac.dst \in phis[b] /\ tac.src1 = 0 /\ tac.src2 = 0
  /\ tac.args \in [1 .. Cardinality(EdgesTo(b)) -> Numbers]
FromTacs ==
  /\ phis \in [Blocks -> SUBSET VregsOf(tacs)]
  /\ \A b \in Blocks :
       /\ PhiCount(b) \in Nat
       /\ blocks[b].start \in 1 .. Len(tacs) /\ blocks[b].end \in blocks[b].start .. Len(tacs)
       /\ Len(code[b]) = PhiCount(b) + blocks[b].end - blocks[b].start + 1
       /\ \A i \in 1 .. PhiCount(b) : IsPhi(code[b][i], b)
       /\ \A v \in phis[b] : \E i \in 1 .. PhiCount(b) : code[b][i].dst = v
       /\ \A i \in PhiCount(b) + 1 .. Len(code[b]) :
            OldPlace(b, i) \in 1 .. Len(tacs) /\ SameTac(code[b][i], tacs[OldPlace(b, i)])

InSequence == \A b \in DOMAIN code : code[b] \in Seq(Range(code[b]))

LEMMA SeqOfItsOwn ==
  ASSUME NEW S, NEW z \in Seq(S)
  PROVE  z \in Seq(Range(z))
BY DEF Range

LEMMA OneBehindTheOther ==
  ASSUME NEW R, NEW T, NEW x \in Seq(R), NEW y \in Seq(T)
  PROVE  /\ Len(x \o y) = Len(x) + Len(y)
         /\ \A i \in 1 .. Len(x) : (x \o y)[i] = x[i]
         /\ \A i \in Len(x) + 1 .. Len(x) + Len(y) : (x \o y)[i] = y[i - Len(x)]
OBVIOUS

LEMMA InsertedFromTacs ==
  ASSUME IsCode(tacs), IsUnnamed(tacs), blocks = BlocksOf(tacs), InsertPhis,
         phis \in [Blocks -> SUBSET VregsOf(tacs)]
  PROVE  FromTacs' /\ InSequence'
<1>1. /\ code' = [b \in Blocks |-> PhiTacs(b) \o SubSeq(tacs, blocks[b].start, blocks[b].end)]
      /\ Blocks' = Blocks /\ blocks' = blocks /\ phis' = phis /\ tacs' = tacs
      /\ VregsOf(tacs)' = VregsOf(tacs) /\ \A b : EdgesTo(b)' = EdgesTo(b)
  <2>1. blocks' = blocks /\ phis' = phis /\ tacs' = tacs /\ edges' = edges
    BY DEF InsertPhis, flowVars, insertion
  <2> QED BY <2>1, GraphStays DEF InsertPhis, EdgesTo, Blocks, VregsOf
<1>2. Len(tacs) \in Nat /\ VregsOf(tacs) \in SUBSET Nat /\ IsFiniteSet(VregsOf(tacs))
  BY TacsAreUnnamed, VregsAreFinite
<1>3. ASSUME NEW b \in Blocks
      PROVE  /\ code'[b] \in Seq(Range(code'[b]))
             /\ PhiCount(b) \in Nat
             /\ blocks[b].start \in 1 .. Len(tacs) /\ blocks[b].end \in blocks[b].start .. Len(tacs)
             /\ Len(code'[b]) = PhiCount(b) + blocks[b].end - blocks[b].start + 1
             /\ \A i \in 1 .. PhiCount(b) : IsPhi(code'[b][i], b)
             /\ \A v \in phis[b] : \E i \in 1 .. PhiCount(b) : code'[b][i].dst = v
             /\ \A i \in PhiCount(b) + 1 .. Len(code'[b]) :
                  OldPlace(b, i) \in 1 .. Len(tacs) /\ SameTac(code'[b][i], tacs[OldPlace(b, i)])
  <2> DEFINE P == phis[b]
             K == PhiCount(b)
             Rank(v) == Cardinality({u \in P : u < v})
             kth(k) == CHOOSE v \in P : Rank(v) = k - 1
             s == blocks[b].start
             e == blocks[b].end
             q == SubSeq(tacs, s, e)
  <2>1. P \in SUBSET Nat /\ IsFiniteSet(P) /\ K = Cardinality(P)
    BY <1>2, FS_Subset DEF PhiCount
  <2>2. /\ K \in Nat
        /\ \A n \in 0 .. K - 1 : \E i \in P : Rank(i) = n
        /\ \A i \in P : Rank(i) \in 0 .. K - 1
        /\ \A i, j \in P : Rank(i) = Rank(j) => i = j
    <3> HIDE DEF P, K
    <3>1. /\ Cardinality(P) \in Nat
          /\ \A i \in P : Rank(i) \in 0 .. Cardinality(P) - 1
          /\ \A i, k \in P : i < k => Rank(i) < Rank(k)
          /\ \A n \in 0 .. Cardinality(P) - 1 : \E i \in P : Rank(i) = n
      BY ONLY <2>1, ElementsAreNumbered
    <3> HIDE DEF Rank
    <3>2. ASSUME NEW i \in P, NEW j \in P, Rank(i) = Rank(j) PROVE i = j
      <4>1. i \in Nat /\ j \in Nat /\ Rank(i) \in Nat /\ Rank(j) \in Nat
        BY <2>1, <3>1
      <4>2. ~(Rank(i) < Rank(j)) /\ ~(Rank(j) < Rank(i))
        BY <3>2, <4>1
      <4> QED BY <3>1, <4>1, <4>2
    <3> QED BY <2>1, <3>1, <3>2
  <2>3. PhiTacs(b) = [k \in 1 .. K |-> PhiTac(kth(k), b)]
    BY <2>1 DEF PhiTacs
  <2> HIDE DEF P, K, Rank
  <2>4. \A k \in 1 .. K : kth(k) \in P /\ Rank(kth(k)) = k - 1
    <3>1. \A k \in 1 .. K : k - 1 \in 0 .. K - 1
      BY <2>2
    <3> QED BY <2>2, <3>1
  <2>5. ASSUME NEW v \in P PROVE \E k \in 1 .. K : kth(k) = v
    <3>1. Rank(v) + 1 \in 1 .. K /\ (Rank(v) + 1) - 1 = Rank(v)
      BY <2>2
    <3>2. kth(Rank(v) + 1) \in P /\ Rank(kth(Rank(v) + 1)) = Rank(v)
      BY <2>4, <3>1
    <3> QED BY <2>2, <3>1, <3>2
  <2> HIDE DEF kth
  <2>6. tacs \in Seq(Range(tacs)) /\ s \in 1 .. Len(tacs) /\ e \in 1 .. Len(tacs) /\ s <= e
    <3>1. tacs \in Seq(Range(tacs))
      BY DEF IsCode
    <3>2. \A i \in Starts(tacs) : i \in 1 .. Len(tacs)
      BY DEF Starts
    <3>3. s \in 1 .. Len(tacs) /\ e \in 1 .. Len(tacs) /\ s <= e
      BY <3>2, BlocksAreNumbered DEF Blocks
    <3> QED BY <3>1, <3>3
  <2> HIDE DEF s, e
  <2>7. /\ Len(q) = e - s + 1 /\ q \in Seq(Range(tacs))
        /\ \A i \in 1 .. Len(q) : q[i] = tacs[s + i - 1]
    <3>1. \A R : \A t \in Seq(R) : \A i, j \in 1 .. Len(t) : i <= j =>
            /\ Len(SubSeq(t, i, j)) = j - i + 1 /\ SubSeq(t, i, j) \in Seq(R)
            /\ \A k \in 1 .. j - i + 1 : SubSeq(t, i, j)[k] = t[i + k - 1]
      OBVIOUS
    <3> QED BY <2>6, <3>1
  <2> HIDE DEF q
  <2>8. code'[b] = PhiTacs(b) \o q
    BY <1>1 DEF q, s, e
  <2>9. PhiTacs(b) \in Seq(Range(PhiTacs(b))) /\ Len(PhiTacs(b)) = K
    <3>1. DOMAIN PhiTacs(b) = 1 .. K
      BY <2>3
    <3> QED BY <2>2, <2>3, <3>1 DEF Range
  <2>10. /\ Len(code'[b]) = K + (e - s + 1)
         /\ \A i \in 1 .. K : code'[b][i] = PhiTac(kth(i), b)
         /\ \A i \in K + 1 .. Len(code'[b]) : code'[b][i] = tacs[s + (i - K) - 1]
    <3> DEFINE x == PhiTacs(b)
    <3>5. /\ Len(x \o q) = Len(x) + Len(q)
          /\ \A i \in 1 .. Len(x) : (x \o q)[i] = x[i]
          /\ \A i \in Len(x) + 1 .. Len(x) + Len(q) : (x \o q)[i] = q[i - Len(x)]
      <4>1. x \in Seq(Range(x)) /\ q \in Seq(Range(tacs))
        BY <2>7, <2>9
      <4> HIDE DEF x
      <4> QED BY ONLY <4>1, OneBehindTheOther
    <3>2. Len(code'[b]) = K + (e - s + 1)
      BY <2>7, <2>8, <2>9, <3>5
    <3>3. \A i \in 1 .. K : code'[b][i] = PhiTacs(b)[i]
      BY <2>8, <2>9, <3>5
    <3>4. \A i \in K + 1 .. Len(code'[b]) : code'[b][i] = q[i - K] /\ i - K \in 1 .. Len(q)
      <4> SUFFICES ASSUME NEW i \in K + 1 .. Len(code'[b])
                   PROVE  code'[b][i] = q[i - K] /\ i - K \in 1 .. Len(q)
        OBVIOUS
      <4>1. Len(q) = e - s + 1 /\ Len(x) = K /\ s \in Nat /\ e \in Nat /\ s <= e
        BY <1>2, <2>6, <2>7, <2>9
      <4>2. i \in Len(x) + 1 .. Len(x) + Len(q) /\ i - K \in 1 .. Len(q)
        BY <2>2, <3>2, <4>1
      <4> QED BY <2>8, <3>5, <4>1, <4>2
    <3> QED BY <2>3, <2>7, <3>2, <3>3, <3>4
  <2>11. ASSUME NEW i \in 1 .. K PROVE IsPhi(code'[b][i], b) /\ code'[b][i].dst = kth(i)
    <3>1. -1 \in Numbers
      BY DEF Numbers
    <3>2. kth(i) \in phis[b]
      BY <2>4 DEF P
    <3> DEFINE t == PhiTac(kth(i), b)
    <3>3. /\ "args" \in DOMAIN t
          /\ t.op = "IR_PHI_FUNCTION" /\ t.dst = kth(i) /\ t.src1 = 0 /\ t.src2 = 0
          /\ t.args = [k \in 1 .. Cardinality(EdgesTo(b)) |-> -1]
      BY DEF PhiTac
    <3>4. code'[b][i] = t
      BY <2>10
    <3> HIDE DEF t
    <3> QED BY <3>1, <3>2, <3>3, <3>4 DEF IsPhi
  <2>12. ASSUME NEW i \in K + 1 .. Len(code'[b])
         PROVE  OldPlace(b, i) \in 1 .. Len(tacs) /\ SameTac(code'[b][i], tacs[OldPlace(b, i)])
    <3>1. OldPlace(b, i) = s + (i - K) - 1
      BY <2>2, <2>6, <2>10, <1>2 DEF OldPlace, K, s
    <3>2. OldPlace(b, i) \in 1 .. Len(tacs)
      BY <2>2, <2>6, <2>10, <1>2, <3>1
    <3> QED BY <2>10, <3>1, <3>2 DEF SameTac
  <2>13. Len(code'[b]) = K + e - s + 1
    BY <2>2, <2>6, <2>10, <1>2
  <2>14. s \in 1 .. Len(tacs) /\ e \in s .. Len(tacs)
    BY <2>6, <1>2
  <2>15. code'[b] \in Seq(Range(code'[b]))
    <3>1. \A R, T : \A x \in Seq(R), y \in Seq(T) : x \o y \in Seq(R \cup T)
      OBVIOUS
    <3>2. code'[b] \in Seq(Range(PhiTacs(b)) \cup Range(tacs))
      BY <2>7, <2>8, <2>9, <3>1
    <3> QED BY ONLY <3>2, SeqOfItsOwn
  <2> QED BY <2>2, <2>5, <2>11, <2>12, <2>13, <2>14, <2>15 DEF P, K, s, e
<1>4. \A tac, b : IsPhi(tac, b)' <=> IsPhi(tac, b)
  BY <1>1 DEF IsPhi
<1>5. \A b, i : PhiCount(b)' = PhiCount(b) /\ OldPlace(b, i)' = OldPlace(b, i)
  BY <1>1 DEF PhiCount, OldPlace
<1>6. \A b \in Blocks : \A i \in 1 .. PhiCount(b) : IsPhi(code'[b][i], b) <=> IsPhi(code[b][i], b)'
  BY <1>1 DEF IsPhi
<1>7. \A b \in Blocks :
        /\ PhiCount(b)' \in Nat
        /\ blocks'[b].start \in 1 .. Len(tacs') /\ blocks'[b].end \in blocks'[b].start .. Len(tacs')
        /\ Len(code'[b]) = PhiCount(b)' + blocks'[b].end - blocks'[b].start + 1
        /\ \A i \in 1 .. PhiCount(b)' : IsPhi(code[b][i], b)'
        /\ \A v \in phis'[b] : \E i \in 1 .. PhiCount(b)' : code'[b][i].dst = v
        /\ \A i \in PhiCount(b)' + 1 .. Len(code'[b]) :
             OldPlace(b, i)' \in 1 .. Len(tacs') /\ SameTac(code'[b][i], tacs'[OldPlace(b, i)'])
  <2>1. \A b \in Blocks :
          /\ PhiCount(b) \in Nat
          /\ blocks[b].start \in 1 .. Len(tacs) /\ blocks[b].end \in blocks[b].start .. Len(tacs)
          /\ Len(code'[b]) = PhiCount(b) + blocks[b].end - blocks[b].start + 1
          /\ \A i \in 1 .. PhiCount(b) : IsPhi(code[b][i], b)'
          /\ \A v \in phis[b] : \E i \in 1 .. PhiCount(b) : code'[b][i].dst = v
          /\ \A i \in PhiCount(b) + 1 .. Len(code'[b]) :
               OldPlace(b, i) \in 1 .. Len(tacs) /\ SameTac(code'[b][i], tacs[OldPlace(b, i)])
    BY <1>3, <1>6
  <2> SUFFICES ASSUME NEW b \in Blocks
               PROVE  /\ PhiCount(b)' \in Nat
                      /\ blocks'[b].start \in 1 .. Len(tacs')
                      /\ blocks'[b].end \in blocks'[b].start .. Len(tacs')
                      /\ Len(code'[b]) = PhiCount(b)' + blocks'[b].end - blocks'[b].start + 1
                      /\ \A i \in 1 .. PhiCount(b)' : IsPhi(code[b][i], b)'
                      /\ \A v \in phis'[b] : \E i \in 1 .. PhiCount(b)' : code'[b][i].dst = v
                      /\ \A i \in PhiCount(b)' + 1 .. Len(code'[b]) :
                           OldPlace(b, i)' \in 1 .. Len(tacs') /\ SameTac(code'[b][i], tacs'[OldPlace(b, i)'])
    OBVIOUS
  <2>2. PhiCount(b)' = PhiCount(b) /\ \A i : OldPlace(b, i)' = OldPlace(b, i)
    BY <1>5
  <2>3. tacs' = tacs /\ phis' = phis /\ blocks' = blocks
    BY <1>1
  <2> QED BY <2>1, <2>2, <2>3
<1>8. phis' \in [Blocks' -> SUBSET VregsOf(tacs)']
  BY <1>1
<1>9. InSequence'
  BY <1>1, <1>3 DEF InSequence
<1> QED BY <1>1, <1>7, <1>8, <1>9 DEF FromTacs, SameTac

LEMMA FromTacsStays ==
  ASSUME UNCHANGED <<code, phis, flowVars>>, FromTacs
  PROVE  FromTacs'
<1>1. /\ blocks' = blocks /\ phis' = phis /\ tacs' = tacs /\ edges' = edges /\ code' = code
      /\ Blocks' = Blocks /\ VregsOf(tacs)' = VregsOf(tacs)
  BY DEF flowVars, Blocks, VregsOf
<1>2. \A b, i : PhiCount(b)' = PhiCount(b) /\ OldPlace(b, i)' = OldPlace(b, i)
  BY <1>1 DEF PhiCount, OldPlace
<1>3. \A b, i : IsPhi(code[b][i], b)' <=> IsPhi(code[b][i], b)
  BY <1>1 DEF IsPhi, EdgesTo
<1> SUFFICES ASSUME NEW b \in Blocks
             PROVE  /\ PhiCount(b)' \in Nat
                    /\ blocks'[b].start \in 1 .. Len(tacs')
                    /\ blocks'[b].end \in blocks'[b].start .. Len(tacs')
                    /\ Len(code'[b]) = PhiCount(b)' + blocks'[b].end - blocks'[b].start + 1
                    /\ \A i \in 1 .. PhiCount(b)' : IsPhi(code[b][i], b)'
                    /\ \A v \in phis'[b] : \E i \in 1 .. PhiCount(b)' : code'[b][i].dst = v
                    /\ \A i \in PhiCount(b)' + 1 .. Len(code'[b]) :
                         OldPlace(b, i)' \in 1 .. Len(tacs') /\ SameTac(code'[b][i], tacs'[OldPlace(b, i)'])
  BY <1>1 DEF FromTacs, SameTac
<1>4. \A i \in 1 .. PhiCount(b) : IsPhi(code[b][i], b)'
  BY <1>3 DEF FromTacs
<1>5. PhiCount(b)' = PhiCount(b) /\ \A i : OldPlace(b, i)' = OldPlace(b, i)
  BY <1>2
<1> QED BY <1>1, <1>4, <1>5 DEF FromTacs

(* What rename_vars does to a tac: subscripts if it is in the block, and   *)
(* then perhaps arguments.                                                 *)
LEMMA EnterFills ==
  ASSUME Shape, NEW b \in Blocks, NEW callers, EnterBlock(b, callers),
         NEW c \in Blocks, NEW i \in 1 .. Len(code[c])
  PROVE  \E r : /\ code'[c][i] = Filled(b, c, r)
                /\ DOMAIN r = DOMAIN code[c][i]
                /\ \A x \in DOMAIN r : x # "subs" => r[x] = code[c][i][x]
<1> DEFINE R(d) == IF d = b THEN RenamedBlock(b) ELSE code[d]
<1>1. code' = [d \in Blocks |-> [j \in 1 .. Len(R(d)) |-> Filled(b, d, R(d)[j])]]
  BY DEF EnterBlock
<1>2. /\ Len(R(c)) = Len(code[c])
      /\ R(c)[i] = IF c = b THEN [code[b][i] EXCEPT !.subs = Subscripts(b, i)] ELSE code[c][i]
  <2>1. Len(code[b]) \in Nat
    BY DEF Shape
  <2>2. /\ Len(RenamedBlock(b)) = Len(code[b])
        /\ \A j \in 1 .. Len(code[b]) : RenamedBlock(b)[j] = [code[b][j] EXCEPT !.subs = Subscripts(b, j)]
    BY <2>1 DEF RenamedBlock
  <2> QED BY <2>2
<1> HIDE DEF R
<1>3. code'[c][i] = Filled(b, c, R(c)[i])
  BY <1>1, <1>2
<1>4. "subs" \in DOMAIN code[c][i]
  BY DEF Shape, IsTac
<1>5. DOMAIN R(c)[i] = DOMAIN code[c][i] /\ \A x \in DOMAIN R(c)[i] : x # "subs" => R(c)[i][x] = code[c][i][x]
  <2> DEFINE t == code[c][i]
             r == R(c)[i]
  <2>1. CASE c = b
    <3>1. r = [t EXCEPT !.subs = Subscripts(b, i)] /\ "subs" \in DOMAIN t
      BY <1>2, <1>4, <2>1
    <3> HIDE DEF t, r
    <3>2. DOMAIN r = DOMAIN t
      BY <3>1
    <3>3. \A x \in DOMAIN t : x # "subs" => r[x] = t[x]
      BY <3>1, NamingKeeps
    <3> QED BY <3>2, <3>3 DEF t, r
  <2>2. CASE c # b
    BY <1>2, <2>2
  <2> QED BY <2>1, <2>2
<1> QED BY <1>3, <1>5

(* The arguments that a block fills: those that have none, as many as it   *)
(* has edges to the block of the phi function.                             *)
EdgesFrom(b, s) == Cardinality({k \in EdgesTo(s) : edges[k][1] = b})
FilledBy(b, s, tac) ==
  {k \in DOMAIN tac.args :
     tac.args[k] = -1 /\ Cardinality({j \in 1 .. k : tac.args[j] = -1}) <= EdgesFrom(b, s)}

LEMMA FilledArguments ==
  ASSUME NEW b, NEW s, NEW tac, "args" \in DOMAIN tac
  PROVE  Filled(b, s, tac).args =
           IF ~Unfilled(tac) THEN tac.args
           ELSE [k \in DOMAIN tac.args |->
                   IF k \in FilledBy(b, s, tac) THEN Top(b, tac.dst, Writes(b, tac.dst)) ELSE tac.args[k]]
BY DEF Filled, FilledBy, EdgesFrom

LEMMA TopIsNumber ==
  ASSUME Shape, counters \in [VregsOf(tacs) -> Nat], stack \in Stacks,
         NEW b \in Blocks, NEW v \in VregsOf(tacs)
  PROVE  Top(b, v, Writes(b, v)) \in Nat
<1>1. Writes(b, v) \in Nat
  BY WritesGrow
<1>2. counters[v] \in Nat /\ Undefined(b, v) \in {0, 1} /\ stack[v] \in Seq(Nat)
  BY DEF Stacks, Undefined
<1>3. stack[v] # <<>> => Head(stack[v]) \in Nat
  BY <1>2
<1> QED BY <1>1, <1>2, <1>3 DEF Top

LEMMA EnterKeepsFromTacs ==
  ASSUME Shape, counters \in [VregsOf(tacs) -> Nat], stack \in Stacks, FromTacs,
         NEW b \in Blocks, NEW callers, EnterBlock(b, callers), UNCHANGED <<phis, flowVars>>
  PROVE  FromTacs'
<1>1. /\ blocks' = blocks /\ phis' = phis /\ tacs' = tacs /\ edges' = edges
      /\ Blocks' = Blocks /\ VregsOf(tacs)' = VregsOf(tacs)
  BY DEF flowVars, Blocks, VregsOf
<1>2. \A c, i : PhiCount(c)' = PhiCount(c) /\ OldPlace(c, i)' = OldPlace(c, i)
  BY <1>1 DEF PhiCount, OldPlace
<1>3. \A c \in Blocks : Len(code'[c]) = Len(code[c])
  BY EnterNames
<1>4. ASSUME NEW c \in Blocks, NEW i \in 1 .. Len(code[c])
      PROVE  SameTac(code'[c][i], code[c][i]) /\ (IsPhi(code[c][i], c) => IsPhi(code[c][i], c)')
  <2> DEFINE old == code[c][i]
             new == code'[c][i]
             Kept == {"op", "dst", "src1", "src2"}
  <2>1. PICK r : /\ new = Filled(b, c, r) /\ DOMAIN r = DOMAIN old
                 /\ \A x \in DOMAIN r : x # "subs" => r[x] = old[x]
    BY EnterFills
  <2>2. Kept \subseteq DOMAIN old
    BY DEF Shape, IsTac
  <2> HIDE DEF old, new
  <2>3. DOMAIN new = DOMAIN old
    BY <2>1, <2>2, FilledKeeps
  <2>4. \A x \in Kept : new[x] = old[x]
    BY <2>1, <2>2, FilledKeeps
  <2>5. SameTac(new, old)
    BY <2>4 DEF SameTac
  <2>6. ASSUME IsPhi(old, c) PROVE IsPhi(old, c)' \/ TRUE
    OBVIOUS
  <2>7. ASSUME IsPhi(old, c)
        PROVE  /\ "args" \in DOMAIN new
               /\ new.args \in [1 .. Cardinality(EdgesTo(c)) -> Numbers]
    <3> DEFINE K == 1 .. Cardinality(EdgesTo(c))
               top == Top(b, r.dst, Writes(b, r.dst))
    <3>1. "args" \in DOMAIN old /\ old.args \in [K -> Numbers] /\ old.dst \in VregsOf(tacs)
      BY <2>7 DEF IsPhi, FromTacs
    <3>2. "args" \in DOMAIN r /\ r.args \in [K -> Numbers] /\ r.dst \in VregsOf(tacs) /\ DOMAIN r.args = K
      BY <2>1, <2>2, <3>1
    <3>3. top \in Numbers
      BY <3>2, TopIsNumber DEF Numbers
    <3> HIDE DEF K, top
    <3>4. \/ new.args = r.args
          \/ \E P : new.args = [k \in K |-> IF k \in P THEN top ELSE r.args[k]]
      <4>1. CASE ~Unfilled(r)
        BY <2>1, <3>2, <4>1, FilledArguments
      <4>2. CASE Unfilled(r)
        BY <2>1, <3>2, <4>2, FilledArguments DEF top
      <4> QED BY <4>1, <4>2
    <3>5. new.args \in [K -> Numbers]
      BY <3>2, <3>3, <3>4
    <3> QED BY <2>3, <3>1, <3>5 DEF K
  <2>8. IsPhi(old, c) => IsPhi(code[c][i], c)'
    BY <1>1, <2>4, <2>7 DEF IsPhi, new, EdgesTo
  <2> QED BY <2>5, <2>8 DEF old, new
<1> SUFFICES ASSUME NEW c \in Blocks
             PROVE  /\ PhiCount(c)' \in Nat
                    /\ blocks'[c].start \in 1 .. Len(tacs')
                    /\ blocks'[c].end \in blocks'[c].start .. Len(tacs')
                    /\ Len(code'[c]) = PhiCount(c)' + blocks'[c].end - blocks'[c].start + 1
                    /\ \A i \in 1 .. PhiCount(c)' : IsPhi(code[c][i], c)'
                    /\ \A v \in phis'[c] : \E i \in 1 .. PhiCount(c)' : code'[c][i].dst = v
                    /\ \A i \in PhiCount(c)' + 1 .. Len(code'[c]) :
                         OldPlace(c, i)' \in 1 .. Len(tacs') /\ SameTac(code'[c][i], tacs'[OldPlace(c, i)'])
  BY <1>1 DEF FromTacs, SameTac
<1>5. PhiCount(c) \in Nat /\ Len(code[c]) \in Nat /\ PhiCount(c) <= Len(code[c])
  <2>1. /\ PhiCount(c) \in Nat /\ blocks[c].start \in 1 .. Len(tacs)
        /\ blocks[c].end \in blocks[c].start .. Len(tacs)
        /\ Len(code[c]) = PhiCount(c) + blocks[c].end - blocks[c].start + 1
    BY DEF FromTacs
  <2> QED BY <2>1
<1>6. \A i \in 1 .. PhiCount(c) : i \in 1 .. Len(code[c])
  BY <1>5
<1>7. \A i \in PhiCount(c) + 1 .. Len(code[c]) : i \in 1 .. Len(code[c])
  BY <1>5
<1>8. \A i \in 1 .. PhiCount(c) : IsPhi(code[c][i], c)' /\ code'[c][i].dst = code[c][i].dst
  BY <1>4, <1>6 DEF FromTacs, SameTac
<1>9. \A i \in PhiCount(c) + 1 .. Len(code[c]) :
        OldPlace(c, i) \in 1 .. Len(tacs) /\ SameTac(code'[c][i], tacs[OldPlace(c, i)])
  BY <1>4, <1>7 DEF FromTacs, SameTac
<1>10. \A v \in phis[c] : \E i \in 1 .. PhiCount(c) : code'[c][i].dst = v
  BY <1>8 DEF FromTacs
<1>11. PhiCount(c)' = PhiCount(c) /\ \A i : OldPlace(c, i)' = OldPlace(c, i)
  BY <1>2
<1> QED BY <1>1, <1>3, <1>8, <1>9, <1>10, <1>11 DEF FromTacs

LEMMA EnterKeepsSequence ==
  ASSUME Shape, NEW b \in Blocks, NEW callers, EnterBlock(b, callers)
  PROVE  InSequence'
<1>1. ASSUME NEW c \in DOMAIN code' PROVE code'[c] \in Seq(Range(code'[c]))
  <2> DEFINE r == IF c = b THEN RenamedBlock(b) ELSE code[c]
             f == [i \in 1 .. Len(r) |-> Filled(b, c, r[i])]
  <2>1. code'[c] = f /\ c \in Blocks
    BY DEF EnterBlock
  <2>2. Len(r) \in Nat
    <3>1. Len(code[b]) \in Nat /\ Len(code[c]) \in Nat
      BY <2>1 DEF Shape
    <3>2. Len(RenamedBlock(b)) = Len(code[b])
      BY <3>1 DEF RenamedBlock
    <3> QED BY <3>1, <3>2
  <2>3. f \in Seq({f[i] : i \in 1 .. Len(r)})
    BY <2>2
  <2> HIDE DEF f
  <2>4. f \in Seq(Range(f))
    BY ONLY <2>3, SeqOfItsOwn
  <2> QED BY <2>1, <2>4
<1> QED BY <1>1 DEF InSequence

-----------------------------------------------------------------------------
(* Joining names to live ranges.                                           *)
LEMMA FiniteImage ==
  ASSUME NEW S, IsFiniteSet(S), NEW f, DOMAIN f = S
  PROVE  IsFiniteSet({f[x] : x \in S})
<1> DEFINE T == {f[x] : x \in S}
           g == [x \in S |-> f[x]]
<1>1. g \in Surjection(S, T)
  BY DEF Surjection
<1> HIDE DEF T, g
<1>2. IsFiniteSet(T)
  BY <1>1, FS_Surjection
<1> QED BY <1>2 DEF T

(* There are finitely many names, and each is a vreg and a subscript.      *)
LEMMA PhisAreThePhis ==
  ASSUME Shape, FromTacs, IsUnnamed(tacs), NEW b \in Blocks, NEW i \in 1 .. Len(code[b])
  PROVE  /\ code[b][i].op = "IR_PHI_FUNCTION" <=> i \in 1 .. PhiCount(b)
         /\ code[b][i].op = "IR_PHI_FUNCTION" => IsPhi(code[b][i], b)
<1>1. PhiCount(b) \in Nat /\ Len(code[b]) \in Nat
  BY DEF FromTacs, Shape
<1>2. CASE i \in 1 .. PhiCount(b)
  BY <1>2 DEF FromTacs, IsPhi
<1>3. CASE i \notin 1 .. PhiCount(b)
  <2>1. i \in PhiCount(b) + 1 .. Len(code[b])
    BY <1>1, <1>3
  <2>2. OldPlace(b, i) \in 1 .. Len(tacs) /\ SameTac(code[b][i], tacs[OldPlace(b, i)])
    BY <2>1 DEF FromTacs
  <2> QED BY <1>3, <2>2 DEF SameTac, IsUnnamed
<1> QED BY <1>2, <1>3

LEMMA NamesOfTacs ==
  ASSUME Shape, FromTacs, IsUnnamed(tacs), FlowGraph, NEW b \in Blocks, NEW i \in 1 .. Len(code[b])
  PROVE  /\ NamesOf(code[b][i]) \subseteq VregsOf(tacs) \X Numbers
         /\ IsFiniteSet(NamesOf(code[b][i]))
<1> DEFINE tac == code[b][i]
           A == {Name(tac, f) : f \in {g \in Fields : tac[g] # 0}}
           B == {<<tac.dst, s>> : s \in Range(tac.args)}
           phi == tac.op = "IR_PHI_FUNCTION"
           K == 1 .. Cardinality(EdgesTo(b))
<1>1. /\ \A f \in Fields : tac[f] \in VregsOf(tacs) \cup {0} /\ tac.subs[f] \in Numbers
  BY DEF Shape, IsTac, Fields
<1>2. phi => tac.dst \in VregsOf(tacs) /\ tac.args \in [K -> Numbers]
  BY PhisAreThePhis DEF IsPhi, FromTacs
<1>3. NamesOf(tac) = A \cup IF phi THEN B ELSE {}
  BY DEF NamesOf
<1> HIDE DEF tac
<1>4. A \subseteq VregsOf(tacs) \X Numbers /\ IsFiniteSet(A)
  <2>1. A \subseteq ({Name(tac, "dst")} \cup {Name(tac, "src1")}) \cup {Name(tac, "src2")}
    BY DEF Fields
  <2>2. IsFiniteSet(({Name(tac, "dst")} \cup {Name(tac, "src1")}) \cup {Name(tac, "src2")})
    <3> DEFINE x == Name(tac, "dst")
               y == Name(tac, "src1")
               z == Name(tac, "src2")
    <3> HIDE DEF x, y, z
    <3>1. IsFiniteSet(({x} \cup {y}) \cup {z})
      BY FS_Singleton, FS_AddElement
    <3> QED BY <3>1 DEF x, y, z
  <2>3. A \subseteq VregsOf(tacs) \X Numbers
    BY <1>1 DEF Name
  <2> HIDE DEF A
  <2> QED BY <2>1, <2>2, <2>3, FS_Subset
<1>5. phi => B \subseteq VregsOf(tacs) \X Numbers /\ IsFiniteSet(B)
  <2> SUFFICES ASSUME phi PROVE B \subseteq VregsOf(tacs) \X Numbers /\ IsFiniteSet(B)
    OBVIOUS
  <2> DEFINE d == tac.dst
             a == tac.args
             f == [k \in K |-> <<d, a[k]>>]
  <2>1. d \in VregsOf(tacs) /\ a \in [K -> Numbers]
    BY <1>2
  <2>2. IsFiniteSet(K)
    <3>1. EdgesTo(b) \subseteq 1 .. Len(edges) /\ Len(edges) \in Nat
      BY DEF EdgesTo, FlowGraph
    <3>2. Cardinality(EdgesTo(b)) \in Nat
      <4>1. IsFiniteSet(1 .. Len(edges))
        BY <3>1, FS_Interval
      <4>2. IsFiniteSet(EdgesTo(b))
        BY <3>1, <4>1, FS_Subset
      <4> QED BY <4>2, FS_CardinalityType
    <3> QED BY <3>2, FS_Interval
  <2>3. B = {<<d, s>> : s \in Range(a)}
    OBVIOUS
  <2> HIDE DEF d, a, K, B
  <2>4. Range(a) = {a[k] : k \in K}
    BY <2>1 DEF Range
  <2>5. B = {f[k] : k \in K}
    BY <2>3, <2>4
  <2>6. IsFiniteSet({f[k] : k \in K})
    <3>1. DOMAIN f = K
      OBVIOUS
    <3> HIDE DEF f
    <3> QED BY <2>2, <3>1, FiniteImage
  <2>7. B \subseteq VregsOf(tacs) \X Numbers
    BY <2>1, <2>3, <2>4
  <2> QED BY <2>5, <2>6, <2>7
<1> HIDE DEF A, B, phi
<1>6. IsFiniteSet(NamesOf(tac)) /\ NamesOf(tac) \subseteq VregsOf(tacs) \X Numbers
  <2>1. CASE phi
    BY <1>3, <1>4, <1>5, <2>1, FS_Union
  <2>2. CASE ~phi
    BY <1>3, <1>4, <2>2
  <2> QED BY <2>1, <2>2
<1> QED BY <1>6 DEF tac

LEMMA NamesAreFinite ==
  ASSUME Shape, FromTacs, IsUnnamed(tacs), FlowGraph
  PROVE  /\ Names(code) \subseteq VregsOf(tacs) \X Numbers
         /\ IsFiniteSet(Names(code))
<1> DEFINE of(b) == UNION {NamesOf(code[b][i]) : i \in 1 .. Len(code[b])}
<1>1. DOMAIN code = Blocks /\ IsFiniteSet(Blocks)
  BY DEF Shape, FlowGraph
<1>2. Names(code) = UNION {of(b) : b \in Blocks}
  BY <1>1 DEF Names
<1>3. ASSUME NEW b \in Blocks PROVE of(b) \subseteq VregsOf(tacs) \X Numbers /\ IsFiniteSet(of(b))
  <2> DEFINE D == 1 .. Len(code[b])
             f == [i \in D |-> NamesOf(code[b][i])]
             S == {f[i] : i \in D}
  <2>1. \A i \in D : f[i] \subseteq VregsOf(tacs) \X Numbers /\ IsFiniteSet(f[i])
    BY NamesOfTacs
  <2>2. IsFiniteSet(D) /\ DOMAIN f = D
    BY FS_Interval DEF Shape
  <2>3. of(b) = UNION S
    OBVIOUS
  <2> HIDE DEF f, D, of
  <2>4. IsFiniteSet(S)
    BY <2>2, FiniteImage
  <2>5. \A T \in S : T \subseteq VregsOf(tacs) \X Numbers /\ IsFiniteSet(T)
    BY <2>1
  <2> HIDE DEF S
  <2>6. IsFiniteSet(UNION S)
    BY <2>4, <2>5, FS_UNION
  <2> QED BY <2>3, <2>5, <2>6
<1> DEFINE g == [b \in Blocks |-> of(b)]
           S == {g[b] : b \in Blocks}
<1> HIDE DEF of
<1>4. Names(code) = UNION S
  BY <1>2
<1>5. \A T \in S : T \subseteq VregsOf(tacs) \X Numbers /\ IsFiniteSet(T)
  BY <1>3
<1>6. DOMAIN g = Blocks
  OBVIOUS
<1> HIDE DEF g
<1>7. IsFiniteSet(S)
  BY <1>1, <1>6, FiniteImage
<1> HIDE DEF S
<1>8. IsFiniteSet(UNION S)
  BY <1>5, <1>7, FS_UNION
<1> QED BY <1>4, <1>5, <1>8

(* The sets of names: a set is named after one of its names, and the names *)
(* in it are of one vreg.  Those of a phi function that was gone through   *)
(* are together.                                                           *)
SetsInv ==
  /\ Shape /\ FromTacs /\ InSequence
  /\ joins \subseteq PhisOf(code)
  /\ DOMAIN setOf = Names(code) /\ DOMAIN members = Names(code)
  /\ \A n \in Names(code) :
       /\ setOf[n] \in Names(code) /\ setOf[n][1] = n[1]
       /\ members[setOf[n]] = {m \in Names(code) : setOf[m] = setOf[n]}
  /\ \A p \in PhisOf(code) \ joins : LET phi == code[p[1]][p[2]] IN
       \A s \in Range(phi.args) : setOf[<<phi.dst, s>>] = setOf[Name(phi, "dst")]

LEMMA MakeSetsStartsSets ==
  ASSUME Shape, FromTacs, InSequence, IsUnnamed(tacs), FlowGraph, MakeSets
  PROVE  SetsInv'
<1>1. /\ code' = code /\ phis' = phis /\ tacs' = tacs /\ blocks' = blocks /\ edges' = edges
      /\ joins' = PhisOf(code)
      /\ setOf' = [n \in Names(code) |-> n]
      /\ members' = [n \in Names(code) |-> {n}]
      /\ counters' = counters
      /\ UNCHANGED <<code, phis, flowVars>>
  BY DEF MakeSets, insertion, flowVars, renaming
<1>2. Shape' /\ FromTacs' /\ InSequence'
  BY <1>1, FromTacsStays, CodeStays DEF InSequence
<1>3. PhisOf(code)' = PhisOf(code) /\ Names(code)' = Names(code)
  BY <1>1
<1>4. \A n \in Names(code) : {n} = {m \in Names(code) : m = n}
  OBVIOUS
<1>5. \A n \in Names(code) : setOf'[n] = n /\ members'[n] = {n}
  BY <1>1
<1>6. \A n \in Names(code) : {m \in Names(code) : setOf'[m] = setOf'[n]} = {n}
  BY <1>5
<1> QED BY <1>1, <1>2, <1>3, <1>5, <1>6 DEF SetsInv

(* Joining the names of a phi function joins whole sets.                   *)
LEMMA JoinKeepsSets ==
  ASSUME SetsInv, IsUnnamed(tacs), FlowGraph, JoinNames
  PROVE  SetsInv'
<1> DEFINE N == Names(code)
<1>1. PICK p \in joins :
        /\ setOf' = [n \in DOMAIN setOf |->
             IF n \in WithArguments(code[p[1]][p[2]]) THEN setOf[Name(code[p[1]][p[2]], "dst")]
             ELSE setOf[n]]
        /\ members' = [members EXCEPT ![setOf[Name(code[p[1]][p[2]], "dst")]] =
                         @ \cup WithArguments(code[p[1]][p[2]])]
        /\ joins' = joins \ {p}
  BY DEF JoinNames
<1>2. /\ code' = code /\ phis' = phis /\ tacs' = tacs /\ blocks' = blocks /\ edges' = edges
      /\ counters' = counters
      /\ UNCHANGED <<code, phis, flowVars>>
  BY DEF JoinNames, insertion, flowVars, renaming
<1>3. Shape' /\ FromTacs' /\ InSequence' /\ Shape /\ FromTacs
  BY <1>2, FromTacsStays, CodeStays DEF SetsInv, InSequence
<1>4. PhisOf(code)' = PhisOf(code) /\ Names(code)' = Names(code)
  BY <1>2
<1> DEFINE phi == code[p[1]][p[2]]
           d == Name(phi, "dst")
           moved == WithArguments(phi)
           args == {<<phi.dst, s>> : s \in Range(phi.args)}
<1>5. ASSUME NEW q \in PhisOf(code)
      PROVE  /\ Name(code[q[1]][q[2]], "dst") \in N
             /\ \A s \in Range(code[q[1]][q[2]].args) : <<code[q[1]][q[2]].dst, s>> \in N
  <2>1. q[1] \in Blocks /\ q[2] \in 1 .. Len(code[q[1]]) /\ code[q[1]][q[2]].op = "IR_PHI_FUNCTION"
    BY <1>3 DEF PhisOf, Positions, Shape
  <2>2. IsPhi(code[q[1]][q[2]], q[1])
    BY <1>3, <2>1, PhisAreThePhis
  <2>3. code[q[1]][q[2]].dst # 0
    BY <1>3, <2>1, <2>2 DEF IsPhi, FromTacs, VregsOf
  <2>4. NamesOf(code[q[1]][q[2]]) \subseteq N
    BY <1>3, <2>1 DEF Names, Shape
  <2>5. Name(code[q[1]][q[2]], "dst") \in NamesOf(code[q[1]][q[2]])
    BY <2>3 DEF NamesOf, Fields
  <2>6. \A s \in Range(code[q[1]][q[2]].args) : <<code[q[1]][q[2]].dst, s>> \in NamesOf(code[q[1]][q[2]])
    BY <2>1 DEF NamesOf
  <2> QED BY <2>4, <2>5, <2>6
<1>6. p \in PhisOf(code)
  BY DEF SetsInv
<1>7. d \in N /\ args \subseteq N /\ \A a \in args : a[1] = d[1]
  BY <1>5, <1>6 DEF Name
<1>8. moved = UNION {members[setOf[a]] : a \in args}
  BY DEF WithArguments
<1>9. /\ DOMAIN setOf = N /\ DOMAIN members = N
      /\ \A n \in N : /\ setOf[n] \in N /\ setOf[n][1] = n[1]
                      /\ members[setOf[n]] = {m \in N : setOf[m] = setOf[n]}
  BY DEF SetsInv
<1>10. /\ setOf' = [n \in N |-> IF n \in moved THEN setOf[d] ELSE setOf[n]]
       /\ members' = [members EXCEPT ![setOf[d]] = @ \cup moved]
  BY <1>1, <1>9
<1>20. \A q \in PhisOf(code) \ joins : \A s \in Range(code[q[1]][q[2]].args) :
         setOf[<<code[q[1]][q[2]].dst, s>>] = setOf[Name(code[q[1]][q[2]], "dst")]
  BY DEF SetsInv
<1>11. \A s \in Range(phi.args) : <<phi.dst, s>> \in args
  OBVIOUS
<1> HIDE DEF N, moved, args, d
<1>12. moved = {m \in N : \E a \in args : setOf[m] = setOf[a]}
  BY <1>7, <1>8, <1>9
<1>13. \A n \in N : setOf'[n] = IF n \in moved THEN setOf[d] ELSE setOf[n]
  BY <1>10
<1>14. \A n \in N : setOf'[n] \in N /\ setOf'[n][1] = n[1]
  BY <1>7, <1>9, <1>12, <1>13
<1>15. ASSUME NEW n \in N PROVE members'[setOf'[n]] = {m \in N : setOf'[m] = setOf'[n]}
  <2>1. CASE setOf'[n] = setOf[d]
    <3>1. members'[setOf[d]] = {m \in N : setOf[m] = setOf[d]} \cup moved
      BY <1>7, <1>9, <1>10
    <3>2. \A m \in N : setOf'[m] = setOf[d] <=> (m \in moved \/ setOf[m] = setOf[d])
      BY <1>13
    <3> QED BY <1>12, <2>1, <3>1, <3>2
  <2>2. CASE setOf'[n] # setOf[d]
    <3>1. n \notin moved /\ setOf'[n] = setOf[n]
      BY <1>13, <2>2
    <3>2. members'[setOf[n]] = {m \in N : setOf[m] = setOf[n]}
      BY <1>9, <1>10, <2>2, <3>1
    <3>3. \A m \in N : setOf[m] = setOf[n] => m \notin moved
      BY <1>12, <3>1
    <3>4. \A m \in N : setOf'[m] = setOf[n] <=> setOf[m] = setOf[n]
      BY <1>13, <2>2, <3>1, <3>3
    <3> QED BY <3>1, <3>2, <3>4
  <2> QED BY <2>1, <2>2
<1>16. ASSUME NEW q \in PhisOf(code) \ joins', NEW s \in Range(code[q[1]][q[2]].args)
       PROVE  setOf'[<<code[q[1]][q[2]].dst, s>>] = setOf'[Name(code[q[1]][q[2]], "dst")]
  <2> DEFINE a == <<code[q[1]][q[2]].dst, s>>
             e == Name(code[q[1]][q[2]], "dst")
  <2>1. a \in N /\ e \in N
    BY <1>5
  <2>2. CASE q = p
    <3>1. a \in args /\ e = d
      BY <1>11, <2>2 DEF d
    <3>2. a \in moved
      BY <1>12, <2>1, <3>1
    <3> QED BY <1>13, <2>1, <3>1, <3>2
  <2>3. CASE q # p
    <3>1. setOf[a] = setOf[e]
      BY <1>1, <1>20, <2>3
    <3>2. a \in moved <=> e \in moved
      BY <1>12, <2>1, <3>1
    <3> QED BY <1>13, <2>1, <3>1, <3>2
  <2> QED BY <2>2, <2>3
<1>17. joins' \subseteq PhisOf(code)
  BY <1>1 DEF SetsInv
<1>18. DOMAIN setOf' = N /\ DOMAIN members' = N
  BY <1>9, <1>10
<1> USE DEF N
<1> QED BY <1>2, <1>3, <1>4, <1>14, <1>15, <1>16, <1>17, <1>18 DEF SetsInv

(* Names have an order, and a set of them has a first one.                 *)
LEMMA FirstIsLeast ==
  ASSUME NEW S \in SUBSET (Nat \X Numbers), S # {}
  PROVE  First(S) \in S
<1> DEFINE V == {m[1] : m \in S}
<1>1. PICK v \in V : \A w \in V : v <= w
  <2>1. V \in SUBSET Nat /\ V # {}
    OBVIOUS
  <2> HIDE DEF V
  <2> QED BY <2>1, LeastOfNaturals
<1>2. v \in Nat /\ \A m \in S : m[1] \in Nat /\ m[2] \in Numbers /\ v <= m[1]
  BY <1>1
<1>3. PICK k \in S : k[1] = v
  BY <1>1
<1> DEFINE T == {m \in S : m[1] = v}
           U == {m[2] + 1 : m \in T}
<1>4. PICK u \in U : \A w \in U : u <= w
  <2>1. U \in SUBSET Nat
    BY <1>2 DEF Numbers
  <2>2. k[2] + 1 \in U
    BY <1>3
  <2> HIDE DEF U
  <2> QED BY <2>1, <2>2, LeastOfNaturals
<1>5. PICK m \in T : m[2] + 1 = u
  BY <1>4
<1>6. ASSUME NEW n \in S PROVE ~Precedes(n, m)
  <2>1. m \in S /\ m[1] = v /\ n[1] \in Nat /\ n[2] \in Numbers /\ m[2] \in Numbers /\ v <= n[1]
    BY <1>2, <1>5
  <2>2. n[1] = v => n[2] + 1 \in U
    OBVIOUS
  <2>3. n[1] = v => m[2] + 1 <= n[2] + 1
    BY <1>4, <1>5, <2>2
  <2> QED BY <1>2, <2>1, <2>3 DEF Precedes, Numbers
<1> QED BY <1>5, <1>6 DEF First

(* Live ranges are the sets: names are in one live range just when they    *)
(* are in one set, and a live range has a vreg that is not reserved.       *)
LEMMA RangesAreSets ==
  ASSUME SetsInv, IsCode(tacs), IsUnnamed(tacs), FlowGraph
  PROVE  /\ DOMAIN LiveRanges = Names(code)
         /\ \A n \in Names(code) : LiveRanges[n] \in Nat /\ LiveRanges[n] > Offset
         /\ \A m, n \in Names(code) : LiveRanges[m] = LiveRanges[n] <=> setOf[m] = setOf[n]
<1> DEFINE N == Names(code)
           first == [n \in N |-> First(members[setOf[n]])]
           F == {first[n] : n \in N}
           rank == [f \in F |-> {m \in F : Precedes(m, f)}]
<1>1. /\ DOMAIN setOf = N
      /\ \A n \in N : setOf[n] \in N /\ members[setOf[n]] = {m \in N : setOf[m] = setOf[n]}
  BY DEF SetsInv
<1>2. N \subseteq VregsOf(tacs) \X Numbers /\ IsFiniteSet(N) /\ VregsOf(tacs) \in SUBSET Nat
  BY NamesAreFinite, TacsAreUnnamed DEF SetsInv
<1>3. \A n \in N : LiveRanges[n] = Offset + 1 + Cardinality(rank[first[n]])
  <2> SUFFICES ASSUME NEW n \in N PROVE LiveRanges[n] = Offset + 1 + Cardinality(rank[first[n]])
    OBVIOUS
  <2> DEFINE firsts == {First(members[setOf[k]]) : k \in N}
  <2>1. LiveRanges[n] = Offset + 1 + Cardinality({m \in firsts : Precedes(m, First(members[setOf[n]]))})
    <3> HIDE DEF N
    <3> QED BY <1>1 DEF LiveRanges
  <2>2. firsts = F /\ first[n] = First(members[setOf[n]]) /\ first[n] \in F
    <3> HIDE DEF N
    <3> QED OBVIOUS
  <2>3. rank[first[n]] = {m \in F : Precedes(m, first[n])}
    BY <2>2
  <2> HIDE DEF firsts, first, F, rank, N
  <2> QED BY <2>1, <2>2, <2>3
<1>4. DOMAIN LiveRanges = N
  BY <1>1 DEF LiveRanges
<1>5. \A n \in N : first[n] = First(members[setOf[n]])
  OBVIOUS
<1>6. DOMAIN first = N
  OBVIOUS
<1>7. \A f \in F : rank[f] = {m \in F : Precedes(m, f)}
  OBVIOUS
<1> HIDE DEF N, first, rank
<1>8. \A n \in N : first[n] \in N /\ setOf[first[n]] = setOf[n]
  <2> SUFFICES ASSUME NEW n \in N PROVE first[n] \in N /\ setOf[first[n]] = setOf[n]
    OBVIOUS
  <2> DEFINE S == members[setOf[n]]
  <2>1. S = {m \in N : setOf[m] = setOf[n]}
    BY <1>1
  <2>2. S \in SUBSET (Nat \X Numbers) /\ n \in S
    BY <1>2, <2>1
  <2>3. first[n] = First(S)
    BY <1>5
  <2> HIDE DEF S
  <2>4. First(S) \in S
    BY <2>2, FirstIsLeast
  <2> QED BY <2>1, <2>3, <2>4
<1>9. F \subseteq N /\ F \subseteq Nat \X Numbers
  BY <1>2, <1>8
<1>10. IsFiniteSet(F)
  BY <1>2, <1>6, FiniteImage
<1> HIDE DEF F
<1>11. \A f \in F : rank[f] \subseteq F /\ IsFiniteSet(rank[f]) /\ Cardinality(rank[f]) \in Nat
  BY <1>7, <1>10, FS_Subset, FS_CardinalityType
<1>12. ASSUME NEW f \in F, NEW g \in F, Precedes(f, g)
       PROVE  Cardinality(rank[f]) < Cardinality(rank[g])
  <2>1. \A x \in F : x[1] \in Nat /\ x[2] \in Int
    BY <1>9 DEF Numbers
  <2>2. \A x \in F : Precedes(x, f) => Precedes(x, g)
    BY <1>12, <2>1 DEF Precedes
  <2>3. ~Precedes(f, f)
    BY <2>1 DEF Precedes
  <2>4. rank[f] \subseteq rank[g] /\ f \in rank[g] /\ f \notin rank[f]
    BY <1>7, <1>12, <2>2, <2>3
  <2>5. rank[f] # rank[g]
    BY <2>4
  <2>6. Cardinality(rank[f]) <= Cardinality(rank[g]) /\ Cardinality(rank[f]) # Cardinality(rank[g])
    BY <1>11, <2>4, <2>5, FS_Subset
  <2> QED BY <1>11, <2>6
<1>13. ASSUME NEW f \in F, NEW g \in F, f # g PROVE Precedes(f, g) \/ Precedes(g, f)
  <2>1. f \in Nat \X Numbers /\ g \in Nat \X Numbers
    BY <1>9
  <2>2. f[1] # g[1] \/ f[2] # g[2]
    BY <1>13, <2>1
  <2>3. f[1] \in Nat /\ g[1] \in Nat /\ f[2] \in Int /\ g[2] \in Int
    BY <2>1 DEF Numbers
  <2> QED BY <2>2, <2>3 DEF Precedes
<1>14. \A n \in N : first[n] \in F
  BY DEF F
<1>15. \A n \in N : LiveRanges[n] \in Nat /\ LiveRanges[n] > Offset
  BY <1>3, <1>11, <1>14, OffsetAssumption
<1>16. ASSUME NEW m \in N, NEW n \in N PROVE LiveRanges[m] = LiveRanges[n] <=> setOf[m] = setOf[n]
  <2>1. CASE setOf[m] = setOf[n]
    BY <1>3, <1>5, <2>1
  <2>2. CASE setOf[m] # setOf[n]
    <3>1. first[m] # first[n] /\ first[m] \in F /\ first[n] \in F
      BY <1>8, <1>14, <2>2
    <3>2. Cardinality(rank[first[m]]) # Cardinality(rank[first[n]])
      BY <1>11, <1>12, <1>13, <3>1
    <3>3. /\ Cardinality(rank[first[m]]) \in Nat /\ Cardinality(rank[first[n]]) \in Nat
          /\ LiveRanges[m] = Offset + 1 + Cardinality(rank[first[m]])
          /\ LiveRanges[n] = Offset + 1 + Cardinality(rank[first[n]])
      BY <1>3, <1>11, <3>1
    <3> QED BY <2>2, <3>2, <3>3, OffsetAssumption
  <2> QED BY <2>1, <2>2
<1> QED BY <1>4, <1>15, <1>16 DEF N

-----------------------------------------------------------------------------
(* Code on live ranges: its operands are live ranges, and the tacs that    *)
(* are no moves have each in another.                                      *)
IsOperable(tac) ==
  /\ {"op", "dst", "src1", "src2"} \subseteq DOMAIN tac
  /\ {tac.dst, tac.src1, tac.src2} \subseteq DOMAIN class \cup {0}
Apart(tac) == IsOperable(tac) /\ HasOperandsApart(tac)
RangesInv ==
  /\ DOMAIN class \subseteq Nat \ {0}
  /\ DOMAIN code = Blocks
  /\ \A b \in Blocks :
       Len(code[b]) \in Nat /\ \A i \in 1 .. Len(code[b]) : Apart(code[b][i])

LEMMA BehindTheFirst ==
  ASSUME NEW R, NEW s \in Seq(R), NEW k \in 0 .. Len(s)
  PROVE  /\ Len(SubSeq(s, k + 1, Len(s))) = Len(s) - k
         /\ \A i \in 1 .. Len(s) - k : SubSeq(s, k + 1, Len(s))[i] = s[i + k]
<1>1. \A t \in Seq(R) : \A i, j \in 1 .. Len(t) : i <= j =>
        /\ Len(SubSeq(t, i, j)) = j - i + 1
        /\ \A m \in 1 .. j - i + 1 : SubSeq(t, i, j)[m] = t[i + m - 1]
  OBVIOUS
<1>2. CASE k < Len(s)
  BY <1>1, <1>2
<1>3. CASE k = Len(s)
  BY <1>3
<1> QED BY <1>2, <1>3

(* Names of different vregs are in different live ranges, so operands that *)
(* were apart still are.                                                   *)
LEMMA RangesKeepApart ==
  ASSUME NEW tac, NEW range, NEW N, IsTac(tac), HasOperandsApart(tac),
         \A f \in Fields : tac[f] # 0 => Name(tac, f) \in N,
         \A n \in N : range[n] \in Nat /\ range[n] > Offset,
         \A m, n \in N : m[1] # n[1] => range[m] # range[n]
  PROVE  HasOperandsApart(InRanges(tac, range))
<1> DEFINE of(f) == IF tac[f] = 0 THEN 0 ELSE range[Name(tac, f)]
           new == InRanges(tac, range)
<1>1. \A f \in Fields : new[f] = of(f)
  BY DEF InRanges, Fields
<1>2. new.op = tac.op
  BY DEF InRanges
<1> HIDE DEF new
<1>3. CASE tac.op = "IR_MOVE"
  <2>1. new.src2 = 0
    BY <1>1, <1>3 DEF HasOperandsApart, Fields
  <2> QED BY <1>2, <1>3, <2>1 DEF HasOperandsApart, new
<1>4. CASE tac.op # "IR_MOVE"
  <2>1. ASSUME NEW f \in Fields, NEW g \in Fields, f # g, new[f] = new[g] PROVE new[f] = 0
    <3>1. SUFFICES ASSUME tac[f] # 0 PROVE FALSE
      BY <1>1
    <3>2. range[Name(tac, f)] # 0
      BY <3>1, OffsetAssumption
    <3>3. tac[g] # 0 /\ range[Name(tac, f)] = range[Name(tac, g)]
      BY <1>1, <2>1, <3>1, <3>2
    <3>4. tac[f] # tac[g]
      BY <1>4, <2>1, <3>1 DEF HasOperandsApart
    <3> QED BY <3>1, <3>3, <3>4 DEF Name
  <2> QED BY <1>2, <1>4, <2>1 DEF HasOperandsApart, new
<1> QED BY <1>3, <1>4

LEMMA MakesLiveRanges ==
  ASSUME SetsInv, IsCode(tacs), IsUnnamed(tacs), FlowGraph, MakeLiveRanges,
         \A i \in 1 .. Len(tacs) : HasOperandsApart(tacs[i])
  PROVE  RangesInv'
<1> DEFINE range == LiveRanges
           N == Names(code)
<1>1. /\ DOMAIN range = N
      /\ \A n \in N : range[n] \in Nat /\ range[n] > Offset
      /\ \A m, n \in N : m[1] # n[1] => range[m] # range[n]
  <2>1. \A n \in N : setOf[n][1] = n[1]
    BY DEF SetsInv
  <2> QED BY <2>1, RangesAreSets
<1>2. /\ code' = [b \in Blocks |->
               [i \in 1 .. Len(SubSeq(code[b], Cardinality(phis[b]) + 1, Len(code[b]))) |->
                  InRanges(SubSeq(code[b], Cardinality(phis[b]) + 1, Len(code[b]))[i], range)]]
      /\ DOMAIN class' = Range(range)
      /\ blocks' = blocks
  BY DEF MakeLiveRanges, flowVars
<1> HIDE DEF range, N
<1>3. Blocks' = Blocks
  BY <1>2 DEF Blocks
<1>4. DOMAIN class' = {range[n] : n \in N}
  BY <1>1, <1>2 DEF Range
<1>5. DOMAIN class' \subseteq Nat \ {0}
  BY <1>1, <1>4, OffsetAssumption
<1>6. ASSUME NEW b \in Blocks
      PROVE  /\ Len(code'[b]) \in Nat
             /\ \A i \in 1 .. Len(code'[b]) :
                  /\ {"op", "dst", "src1", "src2"} \subseteq DOMAIN code'[b][i]
                  /\ {code'[b][i].dst, code'[b][i].src1, code'[b][i].src2} \subseteq DOMAIN class' \cup {0}
                  /\ HasOperandsApart(code'[b][i])
  <2> DEFINE K == PhiCount(b)
             rest == SubSeq(code[b], K + 1, Len(code[b]))
  <2>1. code'[b] = [i \in 1 .. Len(rest) |-> InRanges(rest[i], range)]
    BY <1>2 DEF PhiCount
  <2>2. K \in Nat /\ Len(code[b]) \in Nat /\ K \in 0 .. Len(code[b])
    <3>1. /\ PhiCount(b) \in Nat /\ blocks[b].start \in 1 .. Len(tacs)
          /\ blocks[b].end \in blocks[b].start .. Len(tacs)
          /\ Len(code[b]) = PhiCount(b) + blocks[b].end - blocks[b].start + 1
      BY DEF SetsInv, FromTacs
    <3>2. Len(tacs) \in Nat
      BY TacsAreUnnamed
    <3> HIDE DEF K
    <3> QED BY <3>1, <3>2 DEF K
  <2>3. /\ Len(rest) = Len(code[b]) - K
        /\ \A i \in 1 .. Len(code[b]) - K : rest[i] = code[b][i + K]
    <3>1. code[b] \in Seq(Range(code[b]))
      BY DEF SetsInv, InSequence, Shape
    <3> HIDE DEF K
    <3> QED BY <2>2, <3>1, BehindTheFirst
  <2> HIDE DEF rest, K
  <2>4. Len(code'[b]) = Len(code[b]) - K
    BY <2>1, <2>2, <2>3
  <2>5. ASSUME NEW i \in 1 .. Len(code'[b])
        PROVE  /\ {"op", "dst", "src1", "src2"} \subseteq DOMAIN code'[b][i]
               /\ {code'[b][i].dst, code'[b][i].src1, code'[b][i].src2} \subseteq DOMAIN class' \cup {0}
               /\ HasOperandsApart(code'[b][i])
    <3> DEFINE j == i + K
               tac == code[b][j]
    <3>1. j \in K + 1 .. Len(code[b]) /\ j \in 1 .. Len(code[b])
      BY <2>2, <2>4
    <3>2. code'[b][i] = InRanges(tac, range)
      BY <2>1, <2>2, <2>3, <2>4
    <3>3. IsTac(tac)
      BY <3>1 DEF SetsInv, Shape
    <3>4. OldPlace(b, j) \in 1 .. Len(tacs) /\ SameTac(tac, tacs[OldPlace(b, j)])
      BY <3>1 DEF SetsInv, FromTacs, K
    <3>5. HasOperandsApart(tac)
      <4>1. HasOperandsApart(tacs[OldPlace(b, j)])
        BY <3>4
      <4>2. \A f \in Fields : tac[f] = tacs[OldPlace(b, j)][f]
        BY <3>4 DEF SameTac, Fields
      <4>3. tac.op = tacs[OldPlace(b, j)].op /\ tac.src2 = tacs[OldPlace(b, j)].src2
        BY <3>4 DEF SameTac
      <4> QED BY <4>1, <4>2, <4>3 DEF HasOperandsApart
    <3>6. \A f \in Fields : tac[f] # 0 => Name(tac, f) \in N
      <4>1. NamesOf(tac) \subseteq N
        BY <3>1 DEF N, Names, SetsInv, Shape
      <4>2. \A f \in Fields : tac[f] # 0 => Name(tac, f) \in NamesOf(tac)
        BY DEF NamesOf
      <4> QED BY <4>1, <4>2
    <3> HIDE DEF tac
    <3>7. HasOperandsApart(InRanges(tac, range))
      BY <1>1, <3>3, <3>5, <3>6, RangesKeepApart
    <3>8. \A f \in Fields : tac[f] # 0 => range[Name(tac, f)] \in DOMAIN class'
      BY <1>4, <3>6
    <3>9. /\ {"op", "dst", "src1", "src2"} \subseteq DOMAIN InRanges(tac, range)
          /\ {InRanges(tac, range).dst, InRanges(tac, range).src1, InRanges(tac, range).src2}
               \subseteq DOMAIN class' \cup {0}
      BY <3>8 DEF InRanges, Fields
    <3> QED BY <3>2, <3>7, <3>9
  <2> QED BY <2>2, <2>4, <2>5
<1>7. DOMAIN code' = Blocks
  BY <1>2
<1> QED BY <1>3, <1>5, <1>6, <1>7 DEF RangesInv, Apart, IsOperable, HasOperandsApart

-----------------------------------------------------------------------------
(* Coalescing.  The graph of a round has an edge between any operands that *)
(* a tac holds together: of the blocks that were visited, and in the end   *)
(* of all.                                                                 *)
Together(tac, u, v) ==
  /\ tac.op # "IR_MOVE" /\ u # 0 /\ v # 0
  /\ \E f, g \in Fields : f # g /\ u = tac[f] /\ v = tac[g]
Walked(b, i) == b > block \/ (b = block /\ at # 0 /\ i > at)
GraphInv ==
  /\ block \in Int
  /\ block \in Blocks => at \in 0 .. Len(code[block])
  /\ \A b \in Blocks : \A i \in 1 .. Len(code[b]) : Walked(b, i) =>
       \A u, v : Together(code[b][i], u, v) => Coalesce!Edge(u, v) \in ig

(* While live ranges are merged, the ranges that two operands have become  *)
(* are not the same, and the graph keeps them apart: an edge is copied to  *)
(* the range that another has become.  No range becomes one that has       *)
(* become another.                                                         *)
MergeInv ==
  /\ pending \in [DOMAIN class -> DOMAIN class \cup {0}]
  /\ \A v \in DOMAIN class : Coalesce!Now(Coalesce!Now(v)) = Coalesce!Now(v)
  /\ \A c \in candidates : c.src \in DOMAIN class /\ c.dst \in DOMAIN class
  /\ \A b \in Blocks : \A i \in 1 .. Len(code[b]) : \A u, v : Together(code[b][i], u, v) =>
       /\ Coalesce!Now(u) # Coalesce!Now(v)
       /\ Coalesce!Edge(Coalesce!Now(u), Coalesce!Now(v)) \in ig

RoundsInv ==
  /\ RangesInv
  /\ round \in {"graph", "merge"}
  /\ round = "graph" => GraphInv
  /\ round = "merge" => MergeInv

LEMMA TogetherAreApart ==
  ASSUME NEW tac, Apart(tac), DOMAIN class \subseteq Nat \ {0}, NEW u, NEW v, Together(tac, u, v)
  PROVE  /\ u \in DOMAIN class /\ v \in DOMAIN class /\ u \in Nat /\ v \in Nat /\ u # v
         /\ Together(tac, v, u)
<1>1. PICK f \in Fields, g \in Fields : f # g /\ u = tac[f] /\ v = tac[g]
  BY DEF Together
<1>2. u \in DOMAIN class /\ v \in DOMAIN class
  BY <1>1 DEF Together, Apart, IsOperable, Fields
<1>3. u # v
  BY <1>1 DEF Together, Apart, HasOperandsApart
<1>4. Together(tac, v, u)
  BY <1>1 DEF Together
<1> QED BY <1>2, <1>3, <1>4

LEMMA EdgesHaveNoDirection ==
  ASSUME NEW u \in Nat, NEW v \in Nat
  PROVE  Coalesce!Edge(u, v) = Coalesce!Edge(v, u)
BY DEF Coalesce!Edge

LEMMA ConstraintsKeepApart ==
  ASSUME NEW tac, Apart(tac), DOMAIN class \subseteq Nat \ {0}, NEW u, NEW v, Together(tac, u, v)
  PROVE  Coalesce!Edge(u, v) \in Coalesce!ConstraintEdges(tac)
<1>1. /\ u \in Nat /\ v \in Nat /\ u # 0 /\ v # 0
      /\ Coalesce!Edge(u, v) = Coalesce!Edge(v, u)
  BY TogetherAreApart, EdgesHaveNoDirection DEF Together
<1>2. Coalesce!ConstraintEdges(tac) =
        Coalesce!EdgesBetween(Coalesce!Dst(tac), Coalesce!Operands(tac))
          \cup Coalesce!EdgesBetween({tac.src1} \ {0}, {tac.src2} \ {0})
  BY DEF Coalesce!ConstraintEdges, Together
<1>3. \A x \in Coalesce!Dst(tac), y \in Coalesce!Operands(tac) :
        Coalesce!Edge(x, y) \in Coalesce!ConstraintEdges(tac)
  BY <1>2 DEF Coalesce!EdgesBetween
<1>4. \A x \in {tac.src1} \ {0}, y \in {tac.src2} \ {0} :
        Coalesce!Edge(x, y) \in Coalesce!ConstraintEdges(tac)
  BY <1>2 DEF Coalesce!EdgesBetween
<1>5. PICK f \in Fields, g \in Fields : f # g /\ u = tac[f] /\ v = tac[g]
  BY DEF Together
<1>6. /\ tac.dst # 0 => tac.dst \in Coalesce!Dst(tac)
      /\ tac.src1 # 0 => tac.src1 \in Coalesce!Operands(tac)
      /\ tac.src2 # 0 => tac.src2 \in Coalesce!Operands(tac)
  BY DEF Coalesce!Dst, Coalesce!Operands
<1>7. CASE f = "dst"
  <2>1. u \in Coalesce!Dst(tac) /\ v \in Coalesce!Operands(tac)
    BY <1>1, <1>5, <1>6, <1>7 DEF Fields
  <2> QED BY <1>3, <2>1
<1>8. CASE g = "dst"
  <2>1. v \in Coalesce!Dst(tac) /\ u \in Coalesce!Operands(tac)
    BY <1>1, <1>5, <1>6, <1>8 DEF Fields
  <2> QED BY <1>1, <1>3, <2>1
<1>9. CASE f = "src1" /\ g = "src2"
  BY <1>1, <1>4, <1>5, <1>9
<1>10. CASE f = "src2" /\ g = "src1"
  BY <1>1, <1>4, <1>5, <1>10
<1> QED BY <1>5, <1>7, <1>8, <1>9, <1>10 DEF Fields

LEMMA GraphStarts ==
  ASSUME FlowGraph, Coalesce!StartGraph, DOMAIN code = Blocks,
         blocks' = blocks, Blocks' = Blocks,
         \A b \in Blocks : Len(code'[b]) \in Nat
  PROVE  GraphInv'
<1>1. /\ block' \in Blocks /\ at' = 0 /\ \A b \in Blocks : b <= block'
      /\ Blocks \subseteq Nat
  BY DEF Coalesce!StartGraph, FlowGraph
<1>2. \A b \in Blocks : ~(b > block') /\ ~(at' # 0)
  BY <1>1
<1> QED BY <1>1, <1>2 DEF GraphInv, Walked

LEMMA GraphGrows ==
  ASSUME FlowGraph, RangesInv, GraphInv, Coalesce!ConnectNext, UNCHANGED flowVars
  PROVE  GraphInv' /\ RangesInv'
<1>1. /\ code' = code /\ class' = class /\ blocks' = blocks /\ Blocks' = Blocks
      /\ Blocks \subseteq Nat /\ block \in Int
  BY DEF Coalesce!ConnectNext, Coalesce!EnterBlock, Coalesce!ConnectTac, Coalesce!program, flowVars,
         Blocks, FlowGraph, GraphInv
<1>2. RangesInv'
  BY <1>1 DEF RangesInv, Apart, IsOperable
<1>3. CASE Coalesce!EnterBlock
  <2>1. at = 0 /\ at' = Len(code[block]) /\ ig' = ig /\ block' = block
    BY <1>3 DEF Coalesce!EnterBlock
  <2>2. ASSUME NEW b \in Blocks, NEW i \in 1 .. Len(code[b]), b > block' \/ (b = block' /\ at' # 0 /\ i > at')
        PROVE  Walked(b, i)
    BY <2>1, <2>2 DEF Walked, RangesInv
  <2>3. \A b \in Blocks : Len(code[b]) \in Nat
    BY DEF RangesInv
  <2> QED BY <1>1, <1>2, <2>1, <2>2, <2>3 DEF GraphInv, Walked
<1>4. CASE Coalesce!ConnectTac
  <2> DEFINE tac == code[block][at]
  <2>1. /\ at > 0 /\ at' = at - 1 /\ block' = IF at = 1 THEN block - 1 ELSE block
        /\ ig \subseteq ig' /\ Coalesce!ConstraintEdges(tac) \subseteq ig'
    BY <1>4 DEF Coalesce!ConnectTac
  <2>2. /\ block' \in Int
        /\ block' \in Blocks => at' \in 0 .. Len(code[block'])
    BY <1>1, <2>1 DEF GraphInv, RangesInv
  <2>3. ASSUME NEW b \in Blocks, NEW i \in 1 .. Len(code[b]),
               b > block' \/ (b = block' /\ at' # 0 /\ i > at')
        PROVE  Walked(b, i) \/ (b = block /\ i = at)
    <3>1. b \in Int /\ i \in Int /\ (b = block => at \in 0 .. Len(code[b]) /\ Len(code[b]) \in Nat)
      BY <1>1 DEF GraphInv, RangesInv
    <3>2. CASE b > block
      BY <3>2 DEF Walked
    <3>3. CASE b = block
      BY <2>1, <2>3, <3>1, <3>3 DEF Walked
    <3>4. CASE b < block
      BY <1>1, <2>1, <2>3, <3>1, <3>4
    <3> QED BY <1>1, <3>1, <3>2, <3>3, <3>4
  <2>4. ASSUME NEW b \in Blocks, NEW i \in 1 .. Len(code[b]),
               b > block' \/ (b = block' /\ at' # 0 /\ i > at'),
               NEW u, NEW v, Together(code[b][i], u, v)
        PROVE  Coalesce!Edge(u, v) \in ig'
    <3>1. CASE Walked(b, i)
      BY <2>1, <2>4, <3>1 DEF GraphInv
    <3>2. CASE b = block /\ i = at
      <4>1. Apart(tac) /\ DOMAIN class \subseteq Nat \ {0} /\ Together(tac, u, v)
        BY <2>4, <3>2 DEF RangesInv
      <4> HIDE DEF tac
      <4> QED BY <2>1, <4>1, ConstraintsKeepApart
    <3> QED BY <2>3, <2>4, <3>1, <3>2
  <2> QED BY <1>1, <1>2, <2>2, <2>4 DEF GraphInv, Walked
<1> QED BY <1>3, <1>4 DEF Coalesce!ConnectNext

(* The graph is made: every operand is apart, and nothing is merged.       *)
LEMMA MergingStarts ==
  ASSUME FlowGraph, RangesInv, GraphInv, Coalesce!MakeCandidates, UNCHANGED flowVars
  PROVE  MergeInv' /\ RangesInv'
<1>1. /\ code' = code /\ class' = class /\ blocks' = blocks /\ Blocks' = Blocks /\ ig' = ig
      /\ Blocks \subseteq Nat /\ block \in Int /\ ~(block >= 0)
      /\ candidates' = Coalesce!Candidates
      /\ pending' = [v \in DOMAIN class |-> 0]
  BY DEF Coalesce!MakeCandidates, Coalesce!program, Coalesce!graphVars, Coalesce!Connecting, flowVars,
         Blocks, FlowGraph, GraphInv
<1>2. RangesInv'
  BY <1>1 DEF RangesInv, Apart, IsOperable
<1>3. \A v \in DOMAIN class : Coalesce!Now(v)' = v
  BY <1>1 DEF Coalesce!Now
<1>4. ASSUME NEW b \in Blocks, NEW i \in 1 .. Len(code[b]), NEW u, NEW v, Together(code[b][i], u, v)
      PROVE  /\ u \in DOMAIN class /\ v \in DOMAIN class /\ u # v /\ Coalesce!Edge(u, v) \in ig
  <2>1. Apart(code[b][i]) /\ DOMAIN class \subseteq Nat \ {0}
    BY DEF RangesInv
  <2>2. Walked(b, i)
    BY <1>1 DEF Walked
  <2>3. u \in DOMAIN class /\ v \in DOMAIN class /\ u # v
    BY <1>4, <2>1, TogetherAreApart
  <2> QED BY <1>4, <2>2, <2>3 DEF GraphInv
<1>5. ASSUME NEW b \in Blocks, NEW i \in 1 .. Len(code[b]), NEW u, NEW v, Together(code[b][i], u, v)
      PROVE  /\ Coalesce!Now(u)' # Coalesce!Now(v)'
             /\ Coalesce!Edge(Coalesce!Now(u), Coalesce!Now(v))' \in ig
  <2>1. u \in DOMAIN class /\ v \in DOMAIN class /\ u # v /\ Coalesce!Edge(u, v) \in ig
    BY <1>4, <1>5
  <2>2. Coalesce!Now(u)' = u /\ Coalesce!Now(v)' = v
    BY <1>3, <2>1
  <2>3. Coalesce!Edge(Coalesce!Now(u), Coalesce!Now(v))' = Coalesce!Edge(u, v)
    BY <2>2 DEF Coalesce!Edge
  <2> QED BY <2>1, <2>2, <2>3
<1>6. \A c \in Coalesce!Candidates : c.src \in DOMAIN class /\ c.dst \in DOMAIN class
  <2>1. ASSUME NEW p \in Coalesce!Places, Coalesce!IsCandidate(p[1], p[2])
        PROVE  code[p[1]][p[2]].dst \in DOMAIN class /\ code[p[1]][p[2]].src1 \in DOMAIN class
    <3>1. p[1] \in Blocks /\ p[2] \in 1 .. Len(code[p[1]])
      BY DEF Coalesce!Places, RangesInv
    <3>2. IsOperable(code[p[1]][p[2]])
      BY <3>1 DEF RangesInv, Apart
    <3>3. code[p[1]][p[2]].dst # 0 /\ code[p[1]][p[2]].src1 # 0
      BY <2>1 DEF Coalesce!IsCandidate
    <3> QED BY <3>2, <3>3 DEF IsOperable
  <2>2. ASSUME NEW c \in Coalesce!Candidates
        PROVE  \E p \in Coalesce!Places : /\ Coalesce!IsCandidate(p[1], p[2])
                                          /\ c.dst = code[p[1]][p[2]].dst /\ c.src = code[p[1]][p[2]].src1
    BY DEF Coalesce!Candidates
  <2> QED BY <2>1, <2>2
<1>7. pending' \in [DOMAIN class -> DOMAIN class \cup {0}]
  BY <1>1
<1>8. \A v \in DOMAIN class : Coalesce!Now(Coalesce!Now(v))' = Coalesce!Now(v)'
  BY <1>1 DEF Coalesce!Now
<1> QED BY <1>1, <1>2, <1>5, <1>6, <1>7, <1>8 DEF MergeInv

(* Merging two live ranges: what had become the one becomes the other.     *)
LEMMA MergeRenames ==
  ASSUME RangesInv, MergeInv, NEW c \in candidates, NEW src, NEW dst,
         src = Coalesce!Now(c.src), dst = Coalesce!Now(c.dst),
         pending' = [v \in DOMAIN pending |-> IF v = src \/ pending[v] = src THEN dst ELSE pending[v]]
  PROVE  /\ pending' \in [DOMAIN class -> DOMAIN class \cup {0}]
         /\ src \in DOMAIN class /\ dst \in DOMAIN class
         /\ \A v \in DOMAIN class : Coalesce!Now(v)' = IF Coalesce!Now(v) = src THEN dst ELSE Coalesce!Now(v)
<1> DEFINE D == DOMAIN class
<1>1. /\ pending \in [D -> D \cup {0}] /\ 0 \notin D
      /\ c.src \in D /\ c.dst \in D
      /\ \A v \in D : Coalesce!Now(Coalesce!Now(v)) = Coalesce!Now(v)
  BY DEF MergeInv, RangesInv
<1> HIDE DEF D
<1>2. \A v \in D : Coalesce!Now(v) = (IF pending[v] # 0 THEN pending[v] ELSE v) /\ Coalesce!Now(v) \in D
  BY <1>1 DEF Coalesce!Now
<1>3. src \in D /\ dst \in D /\ dst # 0 /\ pending[src] \in {0, src}
  BY <1>1, <1>2
<1>4. pending' \in [D -> D \cup {0}]
  BY <1>1, <1>3
<1>5. ASSUME NEW v \in D
      PROVE  Coalesce!Now(v)' = IF Coalesce!Now(v) = src THEN dst ELSE Coalesce!Now(v)
  <2>1. Coalesce!Now(v)' = IF pending'[v] # 0 THEN pending'[v] ELSE v
    BY DEF Coalesce!Now
  <2>2. pending'[v] = IF v = src \/ pending[v] = src THEN dst ELSE pending[v]
    BY <1>1
  <2> QED BY <1>1, <1>2, <1>3, <2>1, <2>2
<1> QED BY <1>3, <1>4, <1>5 DEF D

LEMMA EdgesAreCopied ==
  ASSUME NEW src \in Nat, NEW dst \in Nat, NEW x \in Nat, Coalesce!Edge(src, x) \in ig
  PROVE  /\ Coalesce!Edge(x, dst) \in Coalesce!EdgesCopied(src, dst)
         /\ Coalesce!Edge(dst, x) \in Coalesce!EdgesCopied(src, dst)
<1> DEFINE e == Coalesce!Edge(src, x)
<1>1. src \in {e[1], e[2]} /\ (IF e[1] = src THEN e[2] ELSE e[1]) = x
  BY DEF Coalesce!Edge
<1>2. Coalesce!Edge(IF e[1] = src THEN e[2] ELSE e[1], dst) \in Coalesce!EdgesCopied(src, dst)
  <2> HIDE DEF e
  <2> QED BY <1>1 DEF Coalesce!EdgesCopied, e
<1> QED BY <1>1, <1>2, EdgesHaveNoDirection

LEMMA MergingKeepsApart ==
  ASSUME FlowGraph, RangesInv, MergeInv, Coalesce!TakeCandidate, UNCHANGED flowVars
  PROVE  MergeInv' /\ RangesInv'
<1>1. /\ code' = code /\ class' = class /\ blocks' = blocks /\ Blocks' = Blocks
  BY DEF Coalesce!TakeCandidate, Coalesce!program, flowVars, Blocks
<1>2. RangesInv'
  BY <1>1 DEF RangesInv, Apart, IsOperable
<1>3. PICK c \in candidates : Coalesce!Merge(c) /\ candidates' = candidates \ {c}
  BY DEF Coalesce!TakeCandidate
<1>4. \A d \in candidates' : d.src \in DOMAIN class /\ d.dst \in DOMAIN class
  BY <1>3 DEF MergeInv
<1>5. CASE UNCHANGED <<ig, pending, again>>
  <2>1. \A v : Coalesce!Now(v)' = Coalesce!Now(v)
    BY <1>5 DEF Coalesce!Now
  <2> QED BY <1>1, <1>2, <1>4, <1>5, <2>1 DEF MergeInv, Coalesce!Now, Coalesce!Edge
<1>6. CASE ~UNCHANGED <<ig, pending, again>>
  <2> DEFINE src == Coalesce!Now(c.src)
             dst == Coalesce!Now(c.dst)
  <2>1. /\ Coalesce!Edge(src, dst) \notin ig
        /\ pending' = [v \in DOMAIN pending |-> IF v = src \/ pending[v] = src THEN dst ELSE pending[v]]
        /\ ig' = ig \cup Coalesce!EdgesCopied(src, dst)
    BY <1>3, <1>6 DEF Coalesce!Merge
  <2> DEFINE D == DOMAIN class
  <2>2. /\ pending' \in [D -> D \cup {0}] /\ src \in D /\ dst \in D
        /\ \A v \in D : Coalesce!Now(v)' = IF Coalesce!Now(v) = src THEN dst ELSE Coalesce!Now(v)
    <3> HIDE DEF src, dst
    <3> QED BY <2>1, MergeRenames DEF src, dst
  <2>3. /\ pending \in [D -> D \cup {0}] /\ D \subseteq Nat \ {0}
        /\ \A v \in D : Coalesce!Now(Coalesce!Now(v)) = Coalesce!Now(v)
    BY DEF MergeInv, RangesInv
  <2>4. \A v \in D : Coalesce!Now(v) \in D /\ Coalesce!Now(v) \in Nat
    BY <2>3 DEF Coalesce!Now
  <2>5. Coalesce!Now(dst) = dst
    BY <2>3, <1>3 DEF MergeInv
  <2> HIDE DEF src, dst, D
  <2>6. \A v \in D : Coalesce!Now(v)' \in D
    BY <2>2, <2>4
  <2>7. ASSUME NEW v \in D PROVE Coalesce!Now(Coalesce!Now(v))' = Coalesce!Now(v)'
    <3> DEFINE new(w) == IF pending'[w] # 0 THEN pending'[w] ELSE w
    <3>1. \A w \in D : new(w) = IF Coalesce!Now(w) = src THEN dst ELSE Coalesce!Now(w)
      BY <2>2 DEF Coalesce!Now
    <3>2. Coalesce!Now(Coalesce!Now(v))' = new(new(v)) /\ Coalesce!Now(v)' = new(v)
      BY DEF Coalesce!Now
    <3> HIDE DEF new
    <3>3. CASE Coalesce!Now(v) = src
      <4>1. new(v) = dst /\ new(dst) = dst
        BY <2>2, <2>5, <3>1, <3>3
      <4> QED BY <3>2, <4>1
    <3>4. CASE Coalesce!Now(v) # src
      <4>1. new(v) = Coalesce!Now(v) /\ new(Coalesce!Now(v)) = Coalesce!Now(v)
        BY <2>3, <2>4, <3>1, <3>4
      <4> QED BY <3>2, <4>1
    <3> QED BY <3>3, <3>4
  <2>8. ASSUME NEW b \in Blocks, NEW i \in 1 .. Len(code[b]), NEW u, NEW v, Together(code[b][i], u, v)
        PROVE  /\ Coalesce!Now(u)' # Coalesce!Now(v)'
               /\ Coalesce!Edge(Coalesce!Now(u)', Coalesce!Now(v)') \in ig'
    <3> DEFINE x == Coalesce!Now(u)
               y == Coalesce!Now(v)
    <3>1. Apart(code[b][i]) /\ DOMAIN class \subseteq Nat \ {0}
      BY DEF RangesInv
    <3>2. u \in D /\ v \in D
      BY <2>8, <3>1, TogetherAreApart DEF D
    <3>3. x # y /\ Coalesce!Edge(x, y) \in ig
      BY <2>8 DEF MergeInv
    <3>4. x \in Nat /\ y \in Nat /\ src \in Nat /\ dst \in Nat
      BY <2>2, <2>3, <2>4, <3>2
    <3>5. /\ Coalesce!Now(u)' = IF x = src THEN dst ELSE x
          /\ Coalesce!Now(v)' = IF y = src THEN dst ELSE y
      BY <2>2, <3>2
    <3> HIDE DEF x, y
    <3>6. Coalesce!Edge(x, y) = Coalesce!Edge(y, x)
      BY <3>4, EdgesHaveNoDirection
    <3>7. CASE x = src
      <4>1. y # src /\ y # dst
        BY <2>1, <3>3, <3>7
      <4>2. Coalesce!Edge(dst, y) \in Coalesce!EdgesCopied(src, dst)
        BY <3>3, <3>4, <3>7, EdgesAreCopied
      <4> QED BY <2>1, <3>5, <3>7, <4>1, <4>2
    <3>8. CASE y = src
      <4>1. x # src /\ x # dst
        BY <2>1, <3>3, <3>6, <3>8
      <4>2. Coalesce!Edge(x, dst) \in Coalesce!EdgesCopied(src, dst)
        BY <3>3, <3>4, <3>6, <3>8, EdgesAreCopied
      <4> QED BY <2>1, <3>5, <3>8, <4>1, <4>2
    <3>9. CASE x # src /\ y # src
      BY <2>1, <3>3, <3>5, <3>9
    <3> QED BY <3>7, <3>8, <3>9
  <2>9. \A v \in D : Coalesce!Now(Coalesce!Now(v))' = Coalesce!Now(v)'
    BY <2>7
  <2>10. \A b \in Blocks : \A i \in 1 .. Len(code[b]) : \A u, v : Together(code[b][i], u, v) =>
           /\ Coalesce!Now(u)' # Coalesce!Now(v)'
           /\ Coalesce!Edge(Coalesce!Now(u), Coalesce!Now(v))' \in ig'
    BY <2>8 DEF Coalesce!Now, Coalesce!Edge
  <2> QED BY <1>1, <1>2, <1>4, <2>2, <2>9, <2>10 DEF MergeInv, D
<1> QED BY <1>5, <1>6

(* The merged ranges take the place of the ones they were made of, and no  *)
(* tac has operands that instruction selection cannot do with.             *)
LEMMA RewrittenIsApart ==
  ASSUME NEW tac, Apart(tac), RangesInv, MergeInv,
         \A u, v : Together(tac, u, v) => Coalesce!Now(u) # Coalesce!Now(v)
  PROVE  /\ Apart(Coalesce!Rewritten(tac))
         /\ ~Coalesce!Illegal(Coalesce!Rewritten(tac))
<1> DEFINE D == DOMAIN class
           new == [tac EXCEPT !.dst = Coalesce!Renamed(@), !.src1 = Coalesce!Renamed(@),
                              !.src2 = Coalesce!Renamed(@)]
           r == Coalesce!Rewritten(tac)
<1>1. /\ pending \in [D -> D \cup {0}] /\ D \subseteq Nat \ {0}
      /\ {"op", "dst", "src1", "src2"} \subseteq DOMAIN tac
      /\ tac.dst \in D \cup {0} /\ tac.src1 \in D \cup {0} /\ tac.src2 \in D \cup {0}
  BY DEF RangesInv, MergeInv, Apart, IsOperable
<1>2. \A v \in D \cup {0} : /\ Coalesce!Renamed(v) \in D \cup {0}
                            /\ Coalesce!Renamed(v) = 0 <=> v = 0
                            /\ v # 0 => Coalesce!Renamed(v) = Coalesce!Now(v)
  BY <1>1 DEF Coalesce!Renamed, Coalesce!Now
<1>3. /\ DOMAIN new = DOMAIN tac /\ new.op = tac.op
      /\ \A f \in Fields : new[f] = Coalesce!Renamed(tac[f])
  BY <1>1 DEF Fields
<1>4. /\ DOMAIN r = DOMAIN tac
      /\ IF new.op = "IR_MOVE" /\ new.dst # 0 /\ new.dst = new.src1
         THEN r.op = "IR_NOP" /\ r.dst = 0 /\ r.src1 = 0 /\ r.src2 = 0
         ELSE r = new
  <2>1. r = IF new.op = "IR_MOVE" /\ new.dst # 0 /\ new.dst = new.src1
            THEN [new EXCEPT !.op = "IR_NOP", !.dst = 0, !.src1 = 0, !.src2 = 0]
            ELSE new
    BY DEF Coalesce!Rewritten
  <2> HIDE DEF new, r
  <2> QED BY <1>1, <1>3, <2>1
<1> HIDE DEF new, r, D
<1>5. IsOperable(new) /\ DOMAIN new = DOMAIN tac
  BY <1>1, <1>2, <1>3 DEF IsOperable, Fields, D
<1>6. CASE r.op = "IR_NOP" /\ r.dst = 0 /\ r.src1 = 0 /\ r.src2 = 0
  <2>1. IsOperable(r)
    BY <1>1, <1>4, <1>6 DEF IsOperable
  <2>2. HasOperandsApart(r)
    BY <1>6 DEF HasOperandsApart, Fields
  <2> QED BY <1>6, <2>1, <2>2 DEF Apart, Coalesce!Illegal, r
<1>7. CASE r = new /\ ~(new.op = "IR_MOVE" /\ new.dst # 0 /\ new.dst = new.src1)
  <2>1. CASE tac.op = "IR_MOVE"
    <3>1. tac.src2 = 0
      BY <2>1 DEF Apart, HasOperandsApart
    <3>2. new.src2 = 0 /\ new.op = "IR_MOVE"
      BY <1>1, <1>2, <1>3, <2>1, <3>1 DEF Fields
    <3>3. HasOperandsApart(new)
      BY <3>2 DEF HasOperandsApart
    <3>4. ~Coalesce!Illegal(new)
      BY <1>7, <3>2 DEF Coalesce!Illegal
    <3> QED BY <1>5, <1>7, <3>3, <3>4 DEF Apart, r
  <2>2. CASE tac.op # "IR_MOVE"
    <3>1. ASSUME NEW f \in Fields, NEW g \in Fields, f # g, new[f] = new[g] PROVE new[f] = 0
      <4> SUFFICES ASSUME new[f] # 0 PROVE FALSE
        OBVIOUS
      <4>1. tac[f] \in D /\ tac[g] \in D /\ tac[f] # 0 /\ tac[g] # 0
        BY <1>1, <1>2, <1>3, <3>1 DEF Fields
      <4>2. Together(tac, tac[f], tac[g])
        BY <2>2, <3>1, <4>1 DEF Together
      <4> QED BY <1>2, <1>3, <3>1, <4>1, <4>2
    <3>2. HasOperandsApart(new)
      BY <1>3, <2>2, <3>1 DEF HasOperandsApart
    <3>3. ~Coalesce!Illegal(new)
      <4>1. /\ new["dst"] = new["src1"] => new["dst"] = 0
            /\ new["dst"] = new["src2"] => new["dst"] = 0
            /\ new["src1"] = new["src2"] => new["src1"] = 0
        BY <3>1 DEF Fields
      <4> QED BY <4>1 DEF Coalesce!Illegal
    <3> QED BY <1>5, <1>7, <3>2, <3>3 DEF Apart, r
  <2> QED BY <2>1, <2>2
<1> QED BY <1>4, <1>6, <1>7

LEMMA EndRoundKeepsApart ==
  ASSUME FlowGraph, RangesInv, MergeInv, Coalesce!EndRound, UNCHANGED flowVars
  PROVE  /\ RangesInv'
         /\ round' \in {"done", "graph"}
         /\ round' = "graph" => GraphInv'
<1>1. /\ code' = [b \in DOMAIN code |-> [i \in 1 .. Len(code[b]) |-> Coalesce!Rewritten(code[b][i])]]
      /\ class' = class /\ blocks' = blocks /\ Blocks' = Blocks
      /\ IF \E p \in Coalesce!Places : Coalesce!Illegal(code'[p[1]][p[2]])
         THEN round' = "panic"
         ELSE round' = "done" \/ (round' = "graph" /\ Coalesce!StartGraph)
  BY DEF Coalesce!EndRound, flowVars, Blocks
<1>2. DOMAIN code = Blocks /\ \A b \in Blocks : Len(code[b]) \in Nat
  BY DEF RangesInv
<1>3. ASSUME NEW b \in Blocks
      PROVE  Len(code'[b]) = Len(code[b]) /\ \A i \in 1 .. Len(code[b]) : code'[b][i] = Coalesce!Rewritten(code[b][i])
  BY <1>1, <1>2
<1>4. ASSUME NEW b \in Blocks, NEW i \in 1 .. Len(code[b])
      PROVE  Apart(code'[b][i]) /\ ~Coalesce!Illegal(code'[b][i])
  <2>1. Apart(code[b][i]) /\ \A u, v : Together(code[b][i], u, v) => Coalesce!Now(u) # Coalesce!Now(v)
    BY DEF RangesInv, MergeInv
  <2>2. code'[b][i] = Coalesce!Rewritten(code[b][i])
    BY <1>3
  <2> QED BY <2>1, <2>2, RewrittenIsApart
<1>5. RangesInv'
  <2>1. DOMAIN code' = Blocks' /\ DOMAIN class' \subseteq Nat \ {0}
    BY <1>1, <1>2 DEF RangesInv
  <2>2. \A b \in Blocks : Len(code'[b]) \in Nat /\ \A i \in 1 .. Len(code'[b]) : Apart(code'[b][i])
    BY <1>2, <1>3, <1>4
  <2>3. \A b, i : Apart(code'[b][i]) <=> Apart(code[b][i])'
    BY <1>1 DEF Apart, IsOperable
  <2>4. \A b \in Blocks : Len(code'[b]) \in Nat /\ \A i \in 1 .. Len(code'[b]) : Apart(code[b][i])'
    BY <2>2, <2>3
  <2> QED BY <1>1, <2>1, <2>4 DEF RangesInv
<1>6. ~ \E p \in Coalesce!Places : Coalesce!Illegal(code'[p[1]][p[2]])
  BY <1>2, <1>4 DEF Coalesce!Places
<1>7. round' \in {"done", "graph"} /\ (round' = "graph" => Coalesce!StartGraph)
  BY <1>1, <1>6
<1>8. Coalesce!StartGraph => GraphInv'
  BY <1>1, <1>2, <1>5, GraphStarts DEF RangesInv
<1> QED BY <1>5, <1>7, <1>8

(* A step of the coalescing. *)
LEMMA CoalescingKeepsApart ==
  ASSUME FlowGraph, RoundsInv, Coalesce!CoalesceNext, UNCHANGED flowVars
  PROVE  /\ RangesInv' /\ round' # "panic"
         /\ round' # "done" => RoundsInv'
<1>1. CASE Coalesce!MakeGraph
  <2>1. round = "graph" /\ round' = "graph" /\ Coalesce!ConnectNext
    BY <1>1 DEF Coalesce!MakeGraph, Coalesce!roundVars
  <2> QED BY <2>1, GraphGrows DEF RoundsInv
<1>2. CASE Coalesce!MakeCandidates
  <2>1. round = "graph" /\ round' = "merge"
    BY <1>2 DEF Coalesce!MakeCandidates
  <2> QED BY <1>2, <2>1, MergingStarts DEF RoundsInv
<1>3. CASE Coalesce!TakeCandidate
  <2>1. round = "merge" /\ round' = "merge"
    BY <1>3 DEF Coalesce!TakeCandidate
  <2> QED BY <1>3, <2>1, MergingKeepsApart DEF RoundsInv
<1>4. CASE Coalesce!EndRound
  <2>1. round = "merge"
    BY <1>4 DEF Coalesce!EndRound
  <2> QED BY <1>4, <2>1, EndRoundKeepsApart DEF RoundsInv
<1> QED BY <1>1, <1>2, <1>3, <1>4 DEF Coalesce!CoalesceNext

-----------------------------------------------------------------------------
(* From the source on, where operands do not share vregs, until the code   *)
(* is on live ranges that are merged no further.                           *)
OperandsInv ==
  /\ \A i \in 1 .. Len(source) : HasOperandsApart(source[i])
  /\ stage \in {"rename", "renaming"} => FromTacs /\ InSequence
  /\ stage = "join" => SetsInv
  /\ stage = "ranges" => RangesInv
  /\ stage = "coalesce" => RoundsInv
  /\ stage # "panic"

LEMMA TrimmedIsApart ==
  ASSUME NEW t, IsCode(t), IsUnnamed(t), \A i \in 1 .. Len(t) : HasOperandsApart(t[i])
  PROVE  \A i \in 1 .. Len(Trimmed(t)) : HasOperandsApart(Trimmed(t)[i])
<1>1. Len(t) \in Nat /\ Len(Trimmed(t)) = Len(t)
  BY TrimmedIsCode
<1>2. \A i \in 1 .. Len(t) : Trimmed(t)[i] = IF Dead(t, i) THEN Nop(t[i]) ELSE t[i]
  BY DEF Trimmed
<1>3. ASSUME NEW i \in 1 .. Len(t) PROVE HasOperandsApart(Nop(t[i]))
  <2>1. Nop(t[i]).dst = 0 /\ Nop(t[i]).src1 = 0 /\ Nop(t[i]).src2 = 0
    BY DEF IsUnnamed, Nop, Fields
  <2> QED BY <2>1 DEF HasOperandsApart, Fields
<1> QED BY <1>1, <1>2, <1>3

(* What is known of the graph and of the source, once it is made.          *)
LEMMA CodeOfTheGraph ==
  ASSUME FlowInv, RunInv, NamingInv, OperandsInv,
         stage \notin {"graph", "dominance", "order", "idom"}
  PROVE  /\ FlowGraph /\ Ordered /\ IsCode(tacs) /\ IsUnnamed(tacs) /\ blocks = BlocksOf(tacs)
         /\ \A i \in 1 .. Len(tacs) : HasOperandsApart(tacs[i])
BY TrimmedIsCode, TrimmedIsUnnamed, TrimmedIsApart
   DEF FlowInv, Ordered, RunInv, NamingInv, OperandsInv

LEMMA EnteringKeepsFromTacs ==
  ASSUME RenameInv, FromTacs, NEW b \in Blocks, NEW callers, EnterBlock(b, callers),
         UNCHANGED <<phis, flowVars>>
  PROVE  FromTacs' /\ InSequence'
BY EnterKeepsFromTacs, EnterKeepsSequence DEF RenameInv, NamesInv, StacksInv

LEMMA NextKeepsOperands ==
  ASSUME FlowInv, PlacingInv, RunInv, NamingInv, OperandsInv, [Next]_allVars
  PROVE  OperandsInv'
<1> DEFINE Early == BeforePhis \cup {"phi"}
<1>1. /\ source' = source
      /\ \A i \in 1 .. Len(source) : HasOperandsApart(source[i])
  BY DEF Next, SsaNext, StartCoalescing, SkipCoalescing, CoalesceStep, Run, Stopped, machine, allVars,
         OperandsInv
<1>2. CASE FlowNext \/ MakeGlobalsAndVarBlocks \/ PlacePhis
  <2>1. stage' \in Early
    BY <1>2 DEF FlowNext, MakeControlFlowGraph, VisitDominance, EndRoundOfDominance, MakeRpo,
                StartImmediateDominators, VisitBlock, EndRoundOfBlocks, BeforePhis,
                MakeGlobalsAndVarBlocks, PlacePhis
  <2> QED BY <1>1, <2>1 DEF OperandsInv, BeforePhis
<1>3. CASE InsertPhis
  <2>1. stage = "phi" /\ stage' = "rename"
    BY <1>3 DEF InsertPhis
  <2>2. phis \in [Blocks -> SUBSET VregsOf(tacs)]
    <3>1. PhiProofs!TypeInv /\ DOMAIN varBlocks = VregsOf(tacs)
      BY <2>1 DEF PlacingInv, PhiProofs!IInv, NamingInv
    <3>2. DOMAIN df = Blocks
      BY <2>1 DEF FlowInv, Frontiers
    <3> QED BY <3>1, <3>2 DEF PhiProofs!TypeInv, PhiProofs!FlowBlocks, PhiProofs!Vregs
  <2>3. FromTacs' /\ InSequence'
    BY <1>3, <2>1, <2>2, CodeOfTheGraph, InsertedFromTacs
  <2> QED BY <1>1, <2>1, <2>3 DEF OperandsInv
<1>4. CASE RenameEntry \/ RenameChild
  <2>1. stage \in {"rename", "renaming"} /\ stage' = "renaming" /\ UNCHANGED <<phis, flowVars>>
    BY <1>4 DEF RenameEntry, RenameChild, insertion
  <2>2. RenameInv /\ FromTacs
    BY <2>1 DEF NamingInv, OperandsInv
  <2>3. \E b \in Blocks : \E callers : EnterBlock(b, callers)
    <3>1. 0 \in Blocks
      BY <2>1, CodeOfTheGraph DEF FlowGraph
    <3> QED BY <1>4, <3>1 DEF RenameEntry, RenameChild, Children
  <2>4. FromTacs' /\ InSequence'
    BY <2>1, <2>2, <2>3, EnteringKeepsFromTacs
  <2> QED BY <1>1, <2>1, <2>4 DEF OperandsInv
<1>5. CASE LeaveBlock
  <2>1. stage = "renaming" /\ stage' = "renaming" /\ UNCHANGED <<code, phis, flowVars>>
    BY <1>5 DEF LeaveBlock, insertion
  <2>2. FromTacs' /\ InSequence'
    BY <2>1, FromTacsStays DEF OperandsInv, InSequence
  <2> QED BY <1>1, <2>1, <2>2 DEF OperandsInv
<1>6. CASE MakeSets
  <2>1. stage = "renaming" /\ stage' = "join"
    BY <1>6 DEF MakeSets
  <2>2. SetsInv'
    BY <1>6, <2>1, CodeOfTheGraph, MakeSetsStartsSets DEF NamingInv, RenameInv, OperandsInv
  <2> QED BY <1>1, <2>1, <2>2 DEF OperandsInv
<1>7. CASE JoinNames
  <2>1. stage = "join" /\ stage' = "join"
    BY <1>7 DEF JoinNames
  <2>2. SetsInv'
    BY <1>7, <2>1, CodeOfTheGraph, JoinKeepsSets DEF OperandsInv
  <2> QED BY <1>1, <2>1, <2>2 DEF OperandsInv
<1>8. CASE MakeLiveRanges
  <2>1. stage = "join" /\ stage' = "ranges"
    BY <1>8 DEF MakeLiveRanges
  <2>2. RangesInv'
    BY <1>8, <2>1, CodeOfTheGraph, MakesLiveRanges DEF OperandsInv
  <2> QED BY <1>1, <2>1, <2>2 DEF OperandsInv
<1>9. CASE StartCoalescing
  <2>1. /\ stage = "ranges" /\ stage' = "coalesce" /\ round' = "graph"
        /\ Coalesce!StartGraph /\ code' = code /\ class' = class /\ blocks' = blocks /\ Blocks' = Blocks
    BY <1>9 DEF StartCoalescing, Coalesce!BeginCoalescing, flowVars, Blocks
  <2>2. RangesInv /\ FlowGraph
    BY <2>1, CodeOfTheGraph DEF OperandsInv
  <2>3. RangesInv'
    BY <2>1, <2>2 DEF RangesInv, Apart, IsOperable
  <2>4. GraphInv'
    BY <2>1, <2>2, GraphStarts DEF RangesInv
  <2> QED BY <1>1, <2>1, <2>3, <2>4 DEF OperandsInv, RoundsInv
<1>10. CASE SkipCoalescing
  <2>1. stage' = "run"
    BY <1>10 DEF SkipCoalescing
  <2> QED BY <1>1, <2>1 DEF OperandsInv
<1>11. CASE CoalesceStep
  <2>1. /\ stage = "coalesce" /\ Coalesce!CoalesceNext /\ UNCHANGED flowVars
        /\ stage' = CASE round' = "done" -> "run" [] round' = "panic" -> "panic" [] OTHER -> stage
    BY <1>11 DEF CoalesceStep
  <2>2. round' # "panic" /\ (round' # "done" => RoundsInv')
    BY <2>1, CodeOfTheGraph, CoalescingKeepsApart DEF OperandsInv
  <2>3. \/ stage' = "run"
        \/ stage' = "coalesce" /\ RoundsInv'
    BY <2>1, <2>2
  <2> QED BY <1>1, <2>3 DEF OperandsInv
<1>12. CASE Run
  <2>1. stage = "run" /\ stage' \in {"run", "exit"}
    BY <1>12 DEF Run
  <2> QED BY <1>1, <2>1 DEF OperandsInv
<1>13. CASE UNCHANGED allVars
  <2>1. /\ UNCHANGED <<stage, code, counters, class, joins, setOf, members, phis, block, at, ig, round,
                       pending, candidates, flowVars>>
        /\ Blocks' = Blocks
    BY <1>13 DEF allVars, ssaVars, insertion, renaming, ranges, graphVars, roundVars, flowVars, Blocks
  <2>2. /\ FromTacs /\ InSequence => FromTacs' /\ InSequence'
        /\ Shape => Shape'
    BY <2>1, FromTacsStays, CodeStays DEF InSequence
  <2>3. SetsInv => SetsInv'
    <3>1. Names(code)' = Names(code) /\ PhisOf(code)' = PhisOf(code)
      BY <2>1
    <3> QED BY <2>1, <2>2, <3>1 DEF SetsInv
  <2>4. RangesInv => RangesInv'
    BY <2>1 DEF RangesInv, Apart, IsOperable
  <2>5. GraphInv => GraphInv'
    BY <2>1 DEF GraphInv, Walked
  <2>6. MergeInv => MergeInv'
    BY <2>1 DEF MergeInv, Coalesce!Now
  <2>7. RoundsInv => RoundsInv'
    BY <2>1, <2>4, <2>5, <2>6 DEF RoundsInv
  <2> QED BY <1>1, <2>1, <2>2, <2>3, <2>4, <2>7 DEF OperandsInv
<1> QED BY <1>2, <1>3, <1>4, <1>5, <1>6, <1>7, <1>8, <1>9, <1>10, <1>11, <1>12, <1>13
        DEF Next, SsaNext, Stopped

LEMMA InitOperands == Init => OperandsInv
<1> SUFFICES ASSUME Init PROVE OperandsInv
  OBVIOUS
<1>1. PICK s \in Sources : source = s.tacs /\ stage = "graph"
  BY DEF Init, InitFlow
<1> QED BY <1>1, SourceAssumption DEF OperandsInv

(* Coalescing never panics: the live ranges of operands that the source    *)
(* had in vregs of their own are never merged, however many are merged in  *)
(* a round on one graph, and in whichever order copies of the same cost    *)
(* are taken.                                                              *)
THEOREM CodeKeepsOperandsApart == Spec => []OperandsStayApart
<1> DEFINE I == FlowInv /\ PlacingInv /\ RunInv /\ NamingInv /\ OperandsInv
<1>1. Init => I
  BY InitFlowInv, InitPlacing, InitRun, InitNaming, InitOperands
<1>2. I /\ [Next]_allVars => I'
  BY NextKeepsFlow, NextPlacing, NextKeepsRun, NextKeepsNaming, NextKeepsOperands
<1>3. I => OperandsStayApart
  BY DEF OperandsInv, OperandsStayApart
<1> QED BY <1>1, <1>2, <1>3, PTL DEF Spec
=============================================================================
