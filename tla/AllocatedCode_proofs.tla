------------------------ MODULE AllocatedCode_proofs -------------------------
(***************************************************************************)
(* Proofs about AllocatedCode, for every set of programs: what the walk    *)
(* over the code hands to the allocator is what the allocator is proved    *)
(* correct for, and so its promises hold of every program.                 *)
(***************************************************************************)
EXTENDS AllocatedCode, RegisterAllocation_proofs, CodeFacts_proofs

-----------------------------------------------------------------------------
(* What the passes before find out about the code.                         *)

(* The last wish for a vreg is the one that counts: it names a register of *)
(* its class.                                                              *)
LEMMA PreferenceIsOfItsClass ==
  ASSUME NEW p \in Programs, NEW v \in Free
  PROVE  Preference(p.code, v) # 0 => Preference(p.code, v) \in ReservedOf(ClassIn(p, v))
<1> DEFINE c == p.code
           places == Positions(c, DOMAIN c)
           wishes == {w \in places : c[w[1]][w[2]].src1 = v /\ c[w[1]][w[2]].prefers # 0}
           IsLast(w) == \A x \in wishes : x[1] < w[1] \/ (x[1] = w[1] /\ x[2] <= w[2])
           last == CHOOSE w \in wishes : IsLast(w)
<1>1. /\ Cardinality(DOMAIN c) \in Nat
      /\ DOMAIN c = 0 .. Cardinality(DOMAIN c) - 1
      /\ \A b \in DOMAIN c : /\ Len(c[b]) \in Nat
                             /\ \A i \in 1 .. Len(c[b]) : IsTac(p, c[b][i])
  BY ProgramAssumption, FS_CardinalityType DEF IsProgram
<1>2. \A w \in wishes : /\ w[1] \in 0 .. Cardinality(DOMAIN c)
                        /\ w[1] \in DOMAIN c
                        /\ w[2] \in 1 .. Len(c[w[1]])
                        /\ w = <<w[1], w[2]>>
                        /\ w \in places
                        /\ c[w[1]][w[2]].src1 = v /\ c[w[1]][w[2]].prefers # 0
  BY <1>1 DEF Positions
<1>3. Preference(c, v) = IF wishes = {} THEN 0 ELSE c[last[1]][last[2]].prefers
  BY DEF Preference
<1> HIDE DEF wishes, places
<1>4. ASSUME wishes # {} PROVE \E w \in wishes : IsLast(w)
  <2> DEFINE blocks == {b \in 0 .. Cardinality(DOMAIN c) : \E w \in wishes : w[1] = b}
  <2>1. blocks # {}
    BY <1>2, <1>4
  <2>2. PICK b \in blocks : \A d \in blocks : d <= b
    <3>1. blocks \in SUBSET (0 .. Cardinality(DOMAIN c))
      OBVIOUS
    <3> HIDE DEF blocks
    <3> QED BY <1>1, <2>1, <3>1, GreatestOfNaturals
  <2> DEFINE at_ == {i \in 0 .. Len(c[b]) : \E w \in wishes : w[1] = b /\ w[2] = i}
  <2>3. at_ # {} /\ Len(c[b]) \in Nat
    BY <1>1, <1>2, <2>2
  <2>4. PICK i \in at_ : \A j \in at_ : j <= i
    <3>1. at_ \in SUBSET (0 .. Len(c[b]))
      OBVIOUS
    <3> HIDE DEF at_
    <3> QED BY <2>3, <3>1, GreatestOfNaturals
  <2>5. PICK w \in wishes : w[1] = b /\ w[2] = i
    BY <2>4
  <2>6. ASSUME NEW x \in wishes PROVE x[1] < w[1] \/ (x[1] = w[1] /\ x[2] <= w[2])
    <3>1. x[1] \in blocks /\ x[1] <= b /\ x[1] \in Int /\ b \in Int
      BY <1>2, <2>2
    <3>2. CASE x[1] = b
      <4>1. x[2] \in 0 .. Len(c[b])
        BY <1>1, <1>2, <3>2
      <4>2. x[2] \in at_
        BY <3>2, <4>1
      <4> QED BY <2>4, <2>5, <3>2, <4>2
    <3> QED BY <2>5, <3>1, <3>2
  <2> QED BY <2>6
<1>5. ASSUME wishes # {} PROVE c[last[1]][last[2]].prefers \in ReservedOf(ClassIn(p, v))
  <2>1. last \in wishes
    BY <1>4, <1>5
  <2> HIDE DEF last
  <2>2. last[1] \in DOMAIN c /\ last[2] \in 1 .. Len(c[last[1]])
    BY <1>2, <2>1
  <2>3. IsTac(p, c[last[1]][last[2]]) /\ c[last[1]][last[2]].src1 = v
        /\ c[last[1]][last[2]].prefers # 0
    BY <1>1, <1>2, <2>1, <2>2
  <2> QED BY <2>3 DEF IsTac
<1> HIDE DEF last
<1> QED BY <1>3, <1>5

(* A cost is a number: there are only so many places that mention a vreg. *)
LEMMA MentionsAreCounted ==
  ASSUME NEW p \in Programs, NEW v, NEW blocks, blocks \subseteq DOMAIN p.code
  PROVE  Mentions(p.code, v, blocks) \in Nat
<1> DEFINE c == p.code
           Fields == {"dst", "src1", "src2"}
           tacs(b) == {b} \X (1 .. Len(c[b]))
           f == [b \in blocks |-> tacs(b)]
           parts == {tacs(b) : b \in blocks}
<1>1. IsFiniteSet(blocks) /\ IsFiniteSet(Fields)
  <2>1. IsFiniteSet(blocks)
    BY ProgramAssumption, FS_Subset DEF IsProgram
  <2>2. IsFiniteSet({"dst"}) /\ IsFiniteSet({"src1"}) /\ IsFiniteSet({"src2"})
    BY FS_Singleton
  <2>3. IsFiniteSet({"dst"} \cup {"src1"})
    BY <2>2, FS_Union
  <2>4. IsFiniteSet(({"dst"} \cup {"src1"}) \cup {"src2"})
    BY <2>2, <2>3, FS_Union
  <2>5. Fields = ({"dst"} \cup {"src1"}) \cup {"src2"}
    OBVIOUS
  <2> QED BY <2>1, <2>4, <2>5
<1>2. ASSUME NEW b \in blocks PROVE IsFiniteSet(tacs(b))
  <2>1. Len(c[b]) \in Nat
    BY ProgramAssumption DEF IsProgram
  <2>2. IsFiniteSet({b})
    BY FS_Singleton
  <2>3. IsFiniteSet(1 .. Len(c[b]))
    BY <2>1, FS_Interval
  <2> QED BY <2>2, <2>3, FS_Product
<1>3. IsFiniteSet(parts)
  <2>1. f \in [blocks -> parts] /\ \A t \in parts : \E b \in blocks : f[b] = t
    OBVIOUS
  <2>2. f \in Surjection(blocks, parts)
    <3> HIDE DEF f, parts
    <3> QED BY <2>1 DEF Surjection
  <2> HIDE DEF f, parts
  <2> QED BY <1>1, <2>2, FS_Surjection
<1>4. IsFiniteSet(Positions(c, blocks))
  <2>1. \A T \in parts : IsFiniteSet(T)
    BY <1>2
  <2>2. IsFiniteSet(UNION parts)
    <3> HIDE DEF parts
    <3> QED BY <1>3, <2>1, FS_UNION
  <2> QED BY <2>2 DEF Positions
<1>5. IsFiniteSet(Positions(c, blocks) \X Fields)
  <2> HIDE DEF Fields
  <2> QED BY <1>1, <1>4, FS_Product
<1> DEFINE found == {m \in Positions(c, blocks) \X Fields : c[m[1][1]][m[1][2]][m[2]] = v}
<1>6. IsFiniteSet(found)
  <2>1. found \subseteq Positions(c, blocks) \X Fields
    OBVIOUS
  <2> HIDE DEF found, Fields
  <2> QED BY <1>5, <2>1, FS_Subset
<1>7. Mentions(c, v, blocks) = Cardinality(found)
  BY DEF Mentions
<1> HIDE DEF found
<1> QED BY <1>6, <1>7, FS_CardinalityType

(* So the costs the allocator compares are integers. *)
LEMMA CostsAreNumbers ==
  ASSUME NEW p \in Programs, NEW lo, NEW v, NEW loops, loops \subseteq DOMAIN p.code
  PROVE  SpillCost(p.code, loops, lo, v) \in Int
<1>1. Mentions(p.code, v, loops) \in Nat /\ Mentions(p.code, v, DOMAIN p.code \ loops) \in Nat
  BY MentionsAreCounted
<1> QED BY <1>1 DEF SpillCost, InfiniteCost

-----------------------------------------------------------------------------
(* The walk over the code. *)

(* The edges the allocator may be handed. *)
LegalEdges ==
  {e \in Vregs \X Free : e[1] <= e[2] /\ (e[1] <= Reserved \/ class[e[1]] = class[e[2]])}

(* Edges between a register and a vreg, and between vregs of one class. *)
LEMMA EdgesAreLegal ==
  /\ \A r \in 1 .. Reserved, v \in Free :
       Graph!Edge(r, v) \in LegalEdges /\ Graph!Edge(v, r) \in LegalEdges
  /\ \A u, v \in Free : class[u] = class[v] => Graph!Edge(u, v) \in LegalEdges
<1>1. Reserved \in Nat /\ VregCount \in Nat /\ Reserved <= VregCount
  BY CountAssumption DEF Reserved
<1>2. ASSUME NEW r \in 1 .. Reserved, NEW v \in Free
      PROVE  Graph!Edge(r, v) = <<r, v>> /\ Graph!Edge(v, r) = <<r, v>> /\ <<r, v>> \in LegalEdges
  <2>1. r < v /\ ~(v < r) /\ r \in Vregs /\ r <= v /\ r <= Reserved
    BY <1>1 DEF Free, Vregs
  <2> QED BY <2>1 DEF Graph!Edge, LegalEdges
<1>3. ASSUME NEW u \in Free, NEW v \in Free, class[u] = class[v]
      PROVE  Graph!Edge(u, v) \in LegalEdges
  <2>1. u \in Int /\ v \in Int /\ u \in Vregs /\ v \in Vregs
    BY <1>1 DEF Free, Vregs
  <2>2. CASE u < v
    BY <1>3, <2>1, <2>2 DEF Graph!Edge, LegalEdges
  <2>3. CASE ~(u < v)
    <3>1. v <= u
      BY <2>1, <2>3
    <3> QED BY <1>3, <2>1, <2>3, <3>1 DEF Graph!Edge, LegalEdges
  <2> QED BY <2>2, <2>3
<1> QED BY <1>2, <1>3

(* All registers an instruction or a call uses are reserved vregs. *)
LEMMA RegistersAreReserved ==
  /\ \A c : Graph!RegistersOf(c) \subseteq 1 .. Reserved
  /\ \A tac : Graph!CalleeMayChange(tac) \subseteq 1 .. Reserved
  /\ \A tac, prev : Graph!UsedRegisters(tac, prev) \subseteq 1 .. Reserved
  /\ {RAX, RCX, RDX} \subseteq 1 .. Reserved
  /\ \A c \in Classes : ReservedOf(c) \subseteq 1 .. Reserved
<1>1. NumInt \in Nat /\ NumSse \in Nat /\ Reserved = NumInt + NumSse
  BY CountAssumption DEF Reserved
<1>2. 1 .. NumInt \subseteq 1 .. Reserved
  BY <1>1
<1>3. {RAX, RCX, RDX} \subseteq 1 .. Reserved /\ ArgRegisters \subseteq 1 .. Reserved
  BY <1>2, RegisterAssumption
<1>4. Graph!SseRegisters \subseteq 1 .. Reserved
  BY <1>1 DEF Graph!SseRegisters
<1>5. \A c : Graph!RegistersOf(c) \subseteq 1 .. Reserved
  BY <1>2, <1>4 DEF Graph!RegistersOf
<1>6. \A tac : Graph!CalleeMayChange(tac) \subseteq 1 .. Reserved
  BY <1>3, <1>4 DEF Graph!CalleeMayChange
<1>7. \A tac, prev : Graph!UsedRegisters(tac, prev) \subseteq 1 .. Reserved
  BY <1>3 DEF Graph!UsedRegisters
<1> QED BY <1>3, <1>5, <1>6, <1>7, RegisterNumbering

(* A tac of a program only adds such edges. *)
LEMMA TacAddsLegalEdges ==
  ASSUME NEW p \in Programs, class = [v \in Free |-> ClassIn(p, v)], livenow \subseteq Free,
         NEW tac, IsTac(p, tac), NEW prev, IsTac(p, prev)
  PROVE  /\ Graph!ForcedEdges(tac) \subseteq LegalEdges
         /\ Graph!CallEdges(tac) \subseteq LegalEdges
         /\ Graph!ClobberEdges(tac, prev) \subseteq LegalEdges
         /\ Graph!DstEdges(tac) \subseteq LegalEdges
         /\ Graph!ConstraintEdges(tac) \subseteq LegalEdges
<1>1. ASSUME NEW R, NEW V, R \subseteq 1 .. Reserved, V \subseteq Free
      PROVE  Graph!EdgesBetween(R, V) \subseteq LegalEdges
             /\ Graph!EdgesBetween(V, R) \subseteq LegalEdges
  <2>1. \A r \in R, v \in V : Graph!Edge(r, v) \in LegalEdges /\ Graph!Edge(v, r) \in LegalEdges
    BY <1>1, EdgesAreLegal
  <2> QED BY <2>1 DEF Graph!EdgesBetween
<1>2. \A t : IsTac(p, t) => /\ Graph!Values(t) \subseteq Free
                            /\ {t.src1} \ {0} \subseteq Free
                            /\ (t.dst = 0 \/ t.dst \in Free) /\ (t.src1 = 0 \/ t.src1 \in Free)
  BY DEF IsTac, Graph!Values, Graph!Dst, Graph!Operands
<1>3. Graph!ForcedEdges(tac) \subseteq LegalEdges
  <2>1. ASSUME NEW f \in tac.forced
        PROVE  /\ Graph!EdgesBetween({f[2]}, livenow \ {f[1]}) \subseteq LegalEdges
               /\ Graph!EdgesBetween({f[1]}, Graph!RegistersOf(class[f[1]]) \ {f[2]})
                    \subseteq LegalEdges
    <3>1. f[1] \in Free /\ f[2] \in ReservedOf(ClassIn(p, f[1]))
      BY DEF IsTac
    <3>2. ClassIn(p, f[1]) \in Classes
      BY DEF ClassIn, Classes
    <3>3. {f[2]} \subseteq 1 .. Reserved
      BY <3>1, <3>2, RegistersAreReserved
    <3>4. Graph!RegistersOf(class[f[1]]) \ {f[2]} \subseteq 1 .. Reserved
      BY RegistersAreReserved
    <3>5. livenow \ {f[1]} \subseteq Free /\ {f[1]} \subseteq Free
      BY <3>1
    <3> QED BY <1>1, <3>3, <3>4, <3>5
  <2> QED BY <2>1 DEF Graph!ForcedEdges
<1>4. Graph!CallEdges(tac) \subseteq LegalEdges
  <2>1. Graph!EdgesBetween(Graph!CalleeMayChange(tac), livenow) \subseteq LegalEdges
    BY <1>1, RegistersAreReserved
  <2>2. {RAX} \subseteq 1 .. Reserved
    BY RegistersAreReserved
  <2>3. Graph!EdgesBetween({RAX}, {tac.src1} \ {0}) \subseteq LegalEdges
    BY <1>1, <1>2, <2>2
  <2> QED BY <2>1, <2>3 DEF Graph!CallEdges
<1>5. Graph!ClobberEdges(tac, prev) \subseteq LegalEdges
  <2>1. livenow \cup Graph!Values(tac) \subseteq Free
    BY <1>2
  <2>2. Graph!EdgesBetween(Graph!UsedRegisters(tac, prev), livenow \cup Graph!Values(tac))
          \subseteq LegalEdges
    BY <1>1, <2>1, RegistersAreReserved
  <2>3. ASSUME Graph!ShiftsMovedValue(tac, prev)
        PROVE  Graph!EdgesBetween({RCX}, {prev.dst, prev.src1}) \subseteq LegalEdges
    <3>1. {prev.dst, prev.src1} \subseteq Free
      BY <1>2, <2>3 DEF Graph!ShiftsMovedValue
    <3>2. {RCX} \subseteq 1 .. Reserved
      BY RegistersAreReserved
    <3> QED BY <1>1, <3>1, <3>2
  <2> QED BY <2>2, <2>3 DEF Graph!ClobberEdges
<1>6. Graph!DstEdges(tac) \subseteq LegalEdges
  <2>1. Graph!EdgesBetween(Graph!Dst(tac), Graph!Subtrahend(tac)) \subseteq LegalEdges
    <3>1. ASSUME NEW u \in Graph!Dst(tac), NEW v \in Graph!Subtrahend(tac)
          PROVE  Graph!Edge(u, v) \in LegalEdges
      <4>1. u = tac.dst /\ u # 0 /\ u \in Free
        BY <1>2 DEF Graph!Dst
      <4>2. v \in Free
        BY DEF Graph!Subtrahend, IsTac
      <4>3. class[u] = class[v]
        BY <4>1, <4>2 DEF IsTac
      <4> QED BY <4>1, <4>2, <4>3, EdgesAreLegal
    <3> QED BY <3>1 DEF Graph!EdgesBetween
  <2>2. ASSUME NEW v \in livenow, tac.dst # 0, class[v] = class[tac.dst]
        PROVE  Graph!Edge(tac.dst, v) \in LegalEdges
    BY <1>2, <2>2, EdgesAreLegal
  <2> QED BY <2>1, <2>2 DEF Graph!DstEdges
<1>7. Graph!ConstraintEdges(tac) \subseteq LegalEdges
  BY DEF Graph!ConstraintEdges
<1> QED BY <1>3, <1>4, <1>5, <1>6, <1>7

(* While the code is walked, it is that of a program, and no vreg has a    *)
(* place.                                                                  *)
WalkInv ==
  stage = "connect" =>
    /\ \E p \in Programs :
         /\ code = p.code
         /\ class = [v \in Free |-> ClassIn(p, v)]
         /\ \A b \in DOMAIN code : liveout[b] \subseteq Free
    /\ block \in DOMAIN code
    /\ at \in 0 .. Len(code[block])
    /\ livenow \subseteq Free
    /\ pc = "order" /\ pass = "INT"

(* The allocator's own invariants hold all along: the walk only adds edges *)
(* before anything has a place.                                            *)
AllInv ==
  /\ IInv
  /\ SpilledInv
  /\ SlotsInv
  /\ ig \subseteq LegalEdges
  /\ WalkInv

LEMMA InitAllInvariant == InitAll => AllInv
<1> SUFFICES ASSUME InitAll PROVE AllInv
  OBVIOUS
<1>1. PICK p \in Programs : InitProgram(p)
  BY DEF InitAll
<1>2. IsProgram(p)
  BY ProgramAssumption
<1>3. class = [v \in Free |-> ClassIn(p, v)] /\ class \in [Free -> Classes]
  BY <1>1 DEF InitProgram, ClassIn, Classes
<1>4. \A v \in Free : ~Placed(v) /\ ~Spilled(v)
  BY RegisterNumbering DEF InitAll, Placed, Spilled
<1>5. ig = {} /\ block \in DOMAIN code /\ at = 0 /\ livenow = {}
  BY DEF InitAll, Graph!InitGraph
<1>6. InputsOK
  <2>1. cost \in [Free -> Int]
    <3>1. {b \in DOMAIN p.code : b \in p.succ[b]} \subseteq DOMAIN p.code
      OBVIOUS
    <3> QED BY <1>1, <3>1, CostsAreNumbers DEF InitProgram
  <2>2. \A v \in Free : preferred[v] # 0 => preferred[v] \in ReservedOf(class[v])
    BY <1>1, <1>3, PreferenceIsOfItsClass DEF InitProgram
  <2>3. preferred \in [Free -> 0 .. Reserved]
    <3>1. preferred = [v \in Free |-> Preference(p.code, v)]
      BY <1>1 DEF InitProgram
    <3>2. ASSUME NEW v \in Free PROVE preferred[v] \in 0 .. Reserved
      <4>1. class[v] \in Classes /\ Reserved \in Nat
        BY <1>3, RegisterNumbering
      <4>2. preferred[v] = 0 \/ preferred[v] \in 1 .. Reserved
        BY <2>2, <4>1, RegisterNumbering
      <4> QED BY <4>1, <4>2
    <3> QED BY <3>1, <3>2
  <2>4. origStack \in [Free -> Nat] /\ (\A v \in Free : origStack[v] = 0) /\ locals = 0
    BY DEF InitAll
  <2> QED BY <1>3, <1>5, <2>1, <2>2, <2>3, <2>4 DEF InputsOK
<1>7. StateOK
  BY RegisterNumbering DEF StateOK, InitAll, Classes
<1>8. ReservedInv /\ RangeInv /\ NoSharedRegister
  BY <1>4 DEF ReservedInv, RangeInv, NoSharedRegister, InitAll, Placed
<1>9. PlaceInv
  <2>1. ASSUME NEW v \in Free PROVE Waiting(v)
    <3>1. class[v] \in {"INT", "SSE"}
      BY <1>3 DEF Classes
    <3> QED BY <3>1 DEF Waiting, InitAll
  <2> QED BY <1>4, <2>1 DEF PlaceInv, InitAll
<1>10. SpilledInv
  BY <1>4 DEF SpilledInv, OrderInv, UnconstrainedNeverSpill, NoNeedlessSpill, InitAll
<1>11. SlotsInv
  <2>1. stackCount >= locals
    BY DEF InitAll
  <2> QED BY <1>4, <2>1 DEF SlotsInv, SpillSlotsDistinct
<1>12. WalkInv
  <2>1. \A b \in DOMAIN p.code : UeVar(p.code, b) \subseteq Free /\ p.succ[b] \subseteq DOMAIN p.code
    BY <1>2 DEF IsProgram, UeVar, Operands, IsTac
  <2>2. \A b \in DOMAIN p.code : LiveOut(p.code, p.succ)[b] \subseteq Free
    <3>1. LiveOut(p.code, p.succ) \in [DOMAIN p.code -> SUBSET Free]
      BY <1>2, <2>1, LiveOutIsRead DEF IsProgram
    <3> QED BY <3>1
  <2>3. at \in 0 .. Len(code[block])
    BY <1>1, <1>2, <1>5 DEF InitProgram, IsProgram
  <2> QED BY <1>1, <1>3, <1>5, <2>2, <2>3 DEF WalkInv, InitProgram, InitAll
<1> QED BY <1>5, <1>6, <1>7, <1>8, <1>9, <1>10, <1>11, <1>12 DEF AllInv, IInv

(* A step of the walk adds legal edges, and what lives on is a vreg. *)
LEMMA ConnectAddsLegalEdges ==
  ASSUME AllInv, Connect
  PROVE  /\ ig' \subseteq LegalEdges
         /\ WalkInv'
<1>1. stage = "connect" /\ UNCHANGED <<code, liveout, class, pc, pass>>
  BY DEF Connect, Graph!ConnectNext, Graph!EnterBlock, Graph!ConnectTac, Graph!program, allocator
<1>2. PICK p \in Programs : /\ code = p.code
                            /\ class = [v \in Free |-> ClassIn(p, v)]
                            /\ \A b \in DOMAIN code : liveout[b] \subseteq Free
  BY <1>1 DEF AllInv, WalkInv
<1>3. /\ block \in DOMAIN code /\ at \in 0 .. Len(code[block]) /\ livenow \subseteq Free
      /\ pc = "order" /\ pass = "INT" /\ ig \subseteq LegalEdges
  BY <1>1 DEF AllInv, WalkInv
<1>4. /\ Cardinality(DOMAIN code) \in Nat
      /\ DOMAIN code = 0 .. Cardinality(DOMAIN code) - 1
      /\ \A b \in DOMAIN code : /\ Len(code[b]) \in Nat \ {0}
                                /\ \A i \in 1 .. Len(code[b]) : IsTac(p, code[b][i])
  BY <1>2, ProgramAssumption, FS_CardinalityType DEF IsProgram
<1>5. CASE Graph!EnterBlock
  <2>1. at' = Len(code[block]) /\ livenow' = liveout[block] /\ UNCHANGED <<ig, block>>
    BY <1>5 DEF Graph!EnterBlock
  <2>2. at' \in 0 .. Len(code[block])
    BY <1>3, <1>4, <2>1
  <2> QED BY <1>1, <1>2, <1>3, <2>1, <2>2 DEF WalkInv
<1>6. CASE Graph!ConnectTac
  <2> DEFINE tac == code[block][at]
             prev == IF Graph!HasPrev(block, at) THEN Graph!Prev(block, at) ELSE tac
  <2>1. /\ ig' = ig \cup Graph!ForcedEdges(tac) \cup Graph!CallEdges(tac)
                    \cup Graph!ClobberEdges(tac, prev) \cup Graph!DstEdges(tac)
                    \cup Graph!ConstraintEdges(tac)
        /\ livenow' = (livenow \ Graph!Dst(tac)) \cup Operands(tac)
        /\ at > 0 /\ block >= 0 /\ at' = at - 1
        /\ block' = IF at = 1 THEN block - 1 ELSE block
        /\ stage' = IF block' = -1 THEN "allocate" ELSE stage
    BY <1>6 DEF Connect, Graph!ConnectTac, Graph!Connecting, Graph!Operands, Operands
  <2>2. at \in 1 .. Len(code[block]) /\ block \in Int /\ at \in Int /\ Len(code[block]) \in Nat
    BY <1>3, <1>4, <2>1
  <2>3. IsTac(p, tac)
    BY <1>3, <1>4, <2>2
  <2>4. IsTac(p, prev)
    <3>1. CASE at > 1
      <4>1. at - 1 \in 1 .. Len(code[block])
        BY <2>2, <3>1
      <4>2. prev = code[block][at - 1]
        BY <3>1 DEF Graph!HasPrev, Graph!Prev
      <4> QED BY <1>3, <1>4, <4>1, <4>2
    <3>2. CASE ~(at > 1) /\ block > 0
      <4>1. block - 1 \in DOMAIN code
        BY <1>3, <1>4, <2>2, <3>2
      <4>2. Len(code[block - 1]) \in 1 .. Len(code[block - 1])
        BY <1>4, <4>1
      <4>3. prev = code[block - 1][Len(code[block - 1])]
        BY <3>2 DEF Graph!HasPrev, Graph!Prev
      <4> QED BY <1>4, <4>1, <4>2, <4>3
    <3>3. CASE ~(at > 1) /\ ~(block > 0)
      BY <2>3, <3>3 DEF Graph!HasPrev
    <3> QED BY <3>1, <3>2, <3>3
  <2>5. ig' \subseteq LegalEdges
    <3> HIDE DEF tac, prev
    <3> QED BY <1>2, <1>3, <2>1, <2>3, <2>4, TacAddsLegalEdges
  <2>6. livenow' \subseteq Free
    <3>1. Operands(tac) \subseteq Free
      BY <2>3 DEF IsTac, Operands
    <3> QED BY <1>3, <2>1, <3>1
  <2>7. ASSUME stage' = "connect"
        PROVE  block' \in DOMAIN code /\ at' \in 0 .. Len(code[block'])
    <3>1. CASE at = 1
      <4>1. block' = block - 1 /\ block' # -1 /\ at' = 0
        BY <2>1, <2>7, <3>1
      <4>2. block' \in DOMAIN code
        BY <1>3, <1>4, <2>2, <4>1
      <4> QED BY <1>4, <4>1, <4>2
    <3>2. CASE at # 1
      BY <1>3, <2>1, <2>2, <3>2
    <3> QED BY <3>1, <3>2
  <2> QED BY <1>1, <1>2, <1>3, <2>5, <2>6, <2>7 DEF WalkInv
<1> QED BY <1>5, <1>6 DEF Connect, Graph!ConnectNext

(* An edge that is added before anything has a place keeps what the        *)
(* allocator relies on.                                                    *)
LEMMA ConnectKeepsInvariant ==
  ASSUME AllInv, Connect
  PROVE  AllInv'
<1>1. ig' \subseteq LegalEdges /\ WalkInv'
  BY ConnectAddsLegalEdges
<1>2. /\ UNCHANGED <<class, cost, preferred, origStack, locals>>
      /\ UNCHANGED <<preg, stackIndex, stackCount, pass, todo, pc>>
  BY DEF Connect, allocator, Graph!ConnectNext, Graph!EnterBlock, Graph!ConnectTac, Graph!program
<1>3. pc = "order" /\ pass = "INT"
  BY DEF Connect, AllInv, WalkInv
<1>4. /\ \A v \in Vregs : ~Placed(v)'
      /\ \A v \in Free : ~Spilled(v)'
  <2>1. \A v \in Vregs : preg[v] = -1
    BY <1>3 DEF AllInv, IInv, ReservedInv
  <2>2. ASSUME NEW v \in Free PROVE ~Spilled(v)
    <3>1. class[v] \in {"INT", "SSE"}
      BY DEF AllInv, IInv, InputsOK, Classes
    <3>2. Waiting(v)
      BY <1>3, <3>1 DEF Waiting
    <3> QED BY <3>2 DEF AllInv, IInv, PlaceInv
  <2> QED BY <1>2, <2>1, <2>2 DEF Placed, Spilled
<1>5. InputsOK'
  <2>1. \A e \in ig' : /\ e \in Vregs \X Vregs /\ e[1] <= e[2]
                       /\ e[1] <= Reserved \/ class[e[1]] = class[e[2]]
    BY <1>1, RegisterNumbering DEF LegalEdges
  <2> QED BY <1>2, <2>1 DEF InputsOK, AllInv, IInv
<1>6. StateOK' /\ ReservedInv' /\ RangeInv'
  BY <1>2, <1>4, RegisterNumbering
  DEF StateOK, ReservedInv, RangeInv, Placed, AllInv, IInv
<1>7. PlaceInv'
  BY <1>2 DEF PlaceInv, Waiting, Placed, Spilled, AllInv, IInv
<1>8. NoSharedRegister'
  BY <1>4 DEF NoSharedRegister
<1>9. SpilledInv'
  BY <1>2, <1>3, <1>4 DEF SpilledInv, OrderInv, UnconstrainedNeverSpill, NoNeedlessSpill
<1>10. SlotsInv'
  BY <1>2 DEF SlotsInv, SpillSlotsDistinct, Spilled, AllInv
<1>11. LegalEdges' = LegalEdges
  BY <1>2 DEF LegalEdges
<1> QED BY <1>1, <1>5, <1>6, <1>7, <1>8, <1>9, <1>10, <1>11 DEF AllInv, IInv

(* No other step changes what the allocator is handed, and the ones that   *)
(* change its state are its own.                                           *)
LEMMA StepAllInvariant == AllInv /\ [NextAll]_allVars => AllInv'
<1> SUFFICES ASSUME AllInv, [NextAll]_allVars PROVE AllInv'
  OBVIOUS
<1>1. CASE Connect
  BY <1>1, ConnectKeepsInvariant
<1>2. CASE ~Connect
  <2>1. [Next]_vars
    <3>1. todo \subseteq Free
      BY DEF AllInv, IInv, StateOK
    <3>2. CASE AllocateStep
      BY <3>1, <3>2 DEF AllocateStep, Next
    <3>3. CASE ~AllocateStep
      <4>1. UNCHANGED vars
        BY <1>2, <3>3 DEF NextAll, allVars, AssignVregLocations, AddSpillCode, Run, Stopped
      <4> QED BY <4>1
    <3> QED BY <3>2, <3>3
  <2>2. IInv'
    BY <2>1, StepInvariant DEF AllInv
  <2>3. SpilledInv' /\ SlotsInv'
    BY <2>1, SpilledKept, SlotsKept DEF AllInv
  <2>4. UNCHANGED <<ig, class>>
    BY <2>1 DEF Next, vars, inputs, ColorVreg, SpillVreg, OrderNodes, TakePreferred, TakeFirstFree,
                NextPass, RemapPregs, Done
  <2>5. LegalEdges' = LegalEdges
    BY <2>4 DEF LegalEdges
  <2>6. WalkInv'
    <3>1. CASE UNCHANGED allVars
      BY <3>1 DEF allVars, vars, inputs, walk, program, machine, WalkInv, AllInv
    <3>2. CASE NextAll
      <4>1. stage' # "connect" \/ UNCHANGED allVars
        BY <1>2, <3>2 DEF NextAll, AllocateStep, machine, AssignVregLocations, AddSpillCode, Run,
                          Stopped
      <4> QED BY <3>1, <4>1 DEF WalkInv
    <3> QED BY <3>1, <3>2
  <2> QED BY <2>2, <2>3, <2>4, <2>5, <2>6 DEF AllInv
<1> QED BY <1>1, <1>2

LEMMA AllInvariance == SpecAll => []AllInv
<1> QED BY InitAllInvariant, StepAllInvariant, PTL DEF SpecAll

-----------------------------------------------------------------------------
(* Whatever the program, the walk over its code ends with a graph, classes *)
(* and preferences of the kind the allocator expects.                      *)
THEOREM InputIsLegal == SpecAll => []HandsOverLegalInput
<1>1. AllInv => HandsOverLegalInput
  BY DEF AllInv, IInv, InputsOK, LegalEdges, HandsOverLegalInput
<1> QED BY <1>1, AllInvariance, PTL

(* So the registers and slots that the code runs on are what the allocator *)
(* promises: no two live ranges that interfere share a register, no two    *)
(* vregs a slot, a vreg is only spilled when costlier ones hold all the    *)
(* registers of its class, and each has one place in the end.              *)
THEOREM CodeIsAllocated ==
  SpecAll => [](/\ NoSharedRegister
                /\ SpillSlotsDistinct
                /\ UnconstrainedNeverSpill
                /\ NoNeedlessSpill
                /\ EveryVregPlaced)
<1>1. AllInv => NoSharedRegister /\ SpillSlotsDistinct
  BY DEF AllInv, IInv, SlotsInv
<1>2. AllInv => UnconstrainedNeverSpill /\ NoNeedlessSpill
  BY DEF AllInv, SpilledInv
<1>3. AllInv => EveryVregPlaced
  BY PlacedInTheEnd DEF AllInv
<1> QED BY <1>1, <1>2, <1>3, AllInvariance, PTL
-----------------------------------------------------------------------------
(* What the graph knows of a program.                                      *)

(* The vregs that are live after the tac i of a block, or where the block  *)
(* begins.                                                                 *)
Live(p, b, i) == {v \in Free : LiveAfter(p.code, LiveOut(p.code, p.succ), b, i, v)}

(* The edges of a tac that the code relies on when it runs. *)
Covered(p, b, i) ==
  LET tac == p.code[b][i]
      prev == p.code[b][i - 1]
  IN /\ \A f \in tac.forced :
          /\ \A u \in Live(p, b, i) \ {f[1]} : Graph!Edge(f[2], u) \in ig
          /\ \A r \in Graph!RegistersOf(class[f[1]]) \ {f[2]} : Graph!Edge(f[1], r) \in ig
     /\ tac.op = "X_CALL" =>
          \A r \in Graph!CalleeMayChange(tac) : \A u \in Live(p, b, i) : Graph!Edge(r, u) \in ig
     /\ tac.dst # 0 =>
          \A u \in Live(p, b, i) \ Graph!Copied(tac) :
            u # tac.dst /\ class[u] = class[tac.dst] => Graph!Edge(tac.dst, u) \in ig
     /\ i > 1 =>
          /\ \A r \in Graph!UsedRegisters(tac, prev) :
               \A u \in Live(p, b, i) \cup Operands(tac) : Graph!Edge(r, u) \in ig
          /\ Graph!ShiftsMovedValue(tac, prev) =>
               Graph!Edge(RCX, prev.dst) \in ig /\ Graph!Edge(RCX, prev.src1) \in ig


LEMMA ProgramIsLegal ==
  ASSUME NEW p \in Programs
  PROVE  /\ IsFiniteSet(DOMAIN p.code)
         /\ DOMAIN p.code \subseteq Nat
         /\ \A b \in DOMAIN p.code : \A e \in Nat : e <= b => e \in DOMAIN p.code
         /\ \A b \in DOMAIN p.code :
              /\ Len(p.code[b]) \in Nat \ {0}
              /\ p.succ[b] \subseteq DOMAIN p.code
              /\ \A i \in 1 .. Len(p.code[b]) :
                   /\ IsTac(p, p.code[b][i])
                   /\ IsFed(p, p.code[b], i)
                   /\ IsKnown(p.code[b], i)
<1>1. IsProgram(p)
  BY ProgramAssumption
<1>2. Cardinality(DOMAIN p.code) \in Nat /\ DOMAIN p.code = 0 .. Cardinality(DOMAIN p.code) - 1
  BY <1>1, FS_CardinalityType DEF IsProgram
<1> QED BY <1>1, <1>2 DEF IsProgram

(* What is live before a tac is what it reads, and what is live after it   *)
(* and not written.                                                        *)
LEMMA LiveBefore ==
  ASSUME NEW p \in Programs, NEW b \in DOMAIN p.code, NEW i \in 1 .. Len(p.code[b])
  PROVE  /\ Operands(p.code[b][i]) \subseteq Live(p, b, i - 1)
         /\ Live(p, b, i) \ {p.code[b][i].dst} \subseteq Live(p, b, i - 1)
         /\ Live(p, b, i - 1) \subseteq (Live(p, b, i) \ {p.code[b][i].dst}) \cup Operands(p.code[b][i])
<1> DEFINE tac == p.code[b][i]
           lo == LiveOut(p.code, p.succ)
<1>1. Len(p.code[b]) \in Nat /\ IsTac(p, tac)
  BY ProgramIsLegal
<1>2. Operands(tac) \subseteq Free
  BY <1>1 DEF IsTac, Operands
<1> HIDE DEF lo
<1>3. \A v : LiveAfter(p.code, lo, b, i - 1, v) <=>
               v \in Operands(tac) \/ (tac.dst # v /\ LiveAfter(p.code, lo, b, i, v))
  BY <1>1, LiveBeforeTac
<1> QED BY <1>2, <1>3 DEF Live, lo

(* What is live where a block begins is live where a block before it ends. *)
LEMMA LiveAcross ==
  ASSUME NEW p \in Programs, NEW b \in DOMAIN p.code, NEW d \in p.succ[b]
  PROVE  Live(p, d, 0) \subseteq Live(p, b, Len(p.code[b]))
<1> SUFFICES ASSUME NEW v \in Live(p, d, 0) PROVE v \in Live(p, b, Len(p.code[b]))
  OBVIOUS
<1> DEFINE lo == LiveOut(p.code, p.succ)
<1>1. /\ IsFiniteSet(DOMAIN p.code)
      /\ \A e \in DOMAIN p.code : p.succ[e] \subseteq DOMAIN p.code /\ Len(p.code[e]) \in Nat
  BY ProgramIsLegal
<1>2. v \in Free /\ v # 0 /\ LiveAfter(p.code, lo, d, 0, v)
  BY CountAssumption DEF Live, Free, Reserved
<1>3. v \in lo[b]
  BY <1>1, <1>2, LiveAtTheBegin
<1>4. LiveAfter(p.code, lo, b, Len(p.code[b]), v)
  BY <1>1, <1>3, LiveAtTheEnd
<1> QED BY <1>2, <1>4 DEF Live

(* The tacs the walk has been at. *)
Visited(b, i) == b > block \/ (b = block /\ at # 0 /\ i > at)

GraphInv(p) ==
  /\ liveout = LiveOut(p.code, p.succ)
  /\ succ = p.succ
  /\ class = [v \in Free |-> ClassIn(p, v)]
  /\ 0 \in DOMAIN p.code
  /\ stage = "connect" =>
       /\ block \in DOMAIN p.code
       /\ at \in 0 .. Len(p.code[block])
       /\ at # 0 => Live(p, block, at) \subseteq livenow
  /\ \A b \in DOMAIN p.code : \A i \in 1 .. Len(p.code[b]) :
       stage # "connect" \/ Visited(b, i) => Covered(p, b, i)


LEMMA InitGraphInv ==
  ASSUME NEW p \in Programs, InitProgram(p), InitAll
  PROVE  GraphInv(p)
<1>1. /\ liveout = LiveOut(p.code, p.succ) /\ succ = p.succ /\ code = p.code
      /\ class = [v \in Free |-> ClassIn(p, v)]
  BY DEF InitProgram
<1>2. block \in DOMAIN p.code /\ (\A b \in DOMAIN p.code : b <= block) /\ at = 0
  BY <1>1 DEF InitAll, Graph!InitGraph
<1>3. /\ DOMAIN p.code \subseteq Nat /\ Len(p.code[block]) \in Nat
      /\ 0 \in DOMAIN p.code
  BY <1>2, ProgramIsLegal
<1>4. at \in 0 .. Len(p.code[block])
  BY <1>2, <1>3
<1>5. \A b \in DOMAIN p.code : \A i : ~Visited(b, i)
  BY <1>2, <1>3 DEF Visited
<1>6. stage = "connect"
  BY DEF InitAll
<1> QED BY <1>1, <1>2, <1>3, <1>4, <1>5, <1>6 DEF GraphInv

(* The tac that the walk is at adds all its edges. *)
LEMMA TacIsCovered ==
  ASSUME NEW p \in Programs, GraphInv(p), code = p.code, stage = "connect", Graph!ConnectTac,
         NEW b, NEW i, b = block, i = at
  PROVE  /\ i \in 1 .. Len(p.code[b])
         /\ Covered(p, b, i)'
         /\ Live(p, b, i - 1) \subseteq livenow'
<1> DEFINE tac == p.code[b][i]
           prev == IF Graph!HasPrev(b, i) THEN Graph!Prev(b, i) ELSE tac
           L == Live(p, b, i)
<1>1. /\ ig' = ig \cup Graph!ForcedEdges(tac) \cup Graph!CallEdges(tac)
                  \cup Graph!ClobberEdges(tac, prev) \cup Graph!DstEdges(tac)
                  \cup Graph!ConstraintEdges(tac)
      /\ livenow' = (livenow \ Graph!Dst(tac)) \cup Operands(tac)
      /\ i > 0 /\ class' = class
  BY DEF Graph!ConnectTac, Graph!Connecting, Graph!Operands, Operands, Graph!program
<1>2. /\ b \in DOMAIN p.code /\ i \in 1 .. Len(p.code[b]) /\ L \subseteq livenow
  <2>1. b \in DOMAIN p.code /\ i \in 0 .. Len(p.code[b]) /\ L \subseteq livenow
    BY <1>1 DEF GraphInv
  <2> QED BY <1>1, <2>1, ProgramIsLegal
<1>3. IsTac(p, tac)
  BY <1>2, ProgramIsLegal
<1>4. ASSUME NEW f \in tac.forced
      PROVE  /\ \A u \in L \ {f[1]} : Graph!Edge(f[2], u) \in ig'
             /\ \A r \in Graph!RegistersOf(class[f[1]]) \ {f[2]} : Graph!Edge(f[1], r) \in ig'
  <2>1. /\ Graph!EdgesBetween({f[2]}, livenow \ {f[1]}) \subseteq ig'
        /\ Graph!EdgesBetween({f[1]}, Graph!RegistersOf(class[f[1]]) \ {f[2]}) \subseteq ig'
    <3> HIDE DEF tac, prev
    <3>1. Graph!EdgesBetween({f[2]}, livenow \ {f[1]})
            \cup Graph!EdgesBetween({f[1]}, Graph!RegistersOf(class[f[1]]) \ {f[2]})
          \in {Graph!EdgesBetween({g[2]}, livenow \ {g[1]})
                  \cup Graph!EdgesBetween({g[1]}, Graph!RegistersOf(class[g[1]]) \ {g[2]}) :
                g \in tac.forced}
      BY <1>4
    <3>2. Graph!ForcedEdges(tac) \subseteq ig'
      BY <1>1
    <3> QED BY <3>1, <3>2 DEF Graph!ForcedEdges
  <2> QED BY <1>2, <2>1 DEF Graph!EdgesBetween
<1>5. ASSUME tac.op = "X_CALL", NEW r \in Graph!CalleeMayChange(tac), NEW u \in L
      PROVE  Graph!Edge(r, u) \in ig'
  <2>1. Graph!EdgesBetween(Graph!CalleeMayChange(tac), livenow) \subseteq ig'
    <3> HIDE DEF tac, prev
    <3> QED BY <1>1, <1>5 DEF Graph!CallEdges, Graph!IsCall
  <2> QED BY <1>2, <2>1 DEF Graph!EdgesBetween
<1>6. ASSUME tac.dst # 0, NEW u \in L \ Graph!Copied(tac), u # tac.dst, class[u] = class[tac.dst]
      PROVE  Graph!Edge(tac.dst, u) \in ig'
  <2>1. Graph!Edge(tac.dst, u) \in Graph!DstEdges(tac)
    BY <1>2, <1>6 DEF Graph!DstEdges
  <2> HIDE DEF tac, prev
  <2> QED BY <1>1, <2>1
<1>7. ASSUME i > 1
      PROVE  /\ prev = p.code[b][i - 1]
             /\ \A r \in Graph!UsedRegisters(tac, prev) :
                  \A u \in L \cup Operands(tac) : Graph!Edge(r, u) \in ig'
             /\ Graph!ShiftsMovedValue(tac, prev) =>
                  Graph!Edge(RCX, prev.dst) \in ig' /\ Graph!Edge(RCX, prev.src1) \in ig'
  <2>1. prev = p.code[b][i - 1]
    BY <1>7 DEF Graph!HasPrev, Graph!Prev
  <2>2. Operands(tac) \subseteq Graph!Values(tac)
    BY DEF Graph!Values, Graph!Operands, Operands
  <2> HIDE DEF tac, prev
  <2>3. /\ Graph!EdgesBetween(Graph!UsedRegisters(tac, prev), livenow \cup Graph!Values(tac)) \subseteq ig'
        /\ Graph!ShiftsMovedValue(tac, prev) =>
             Graph!EdgesBetween({RCX}, {prev.dst, prev.src1}) \subseteq ig'
    BY <1>1 DEF Graph!ClobberEdges
  <2> QED BY <1>2, <2>1, <2>2, <2>3 DEF Graph!EdgesBetween
<1>8. Covered(p, b, i)'
  <2> HIDE DEF tac, prev, L
  <2>1. tac = p.code[b][i] /\ L = Live(p, b, i)
    BY DEF tac, L
  <2> QED BY <1>1, <1>4, <1>5, <1>6, <1>7, <2>1 DEF Covered
<1>9. Live(p, b, i - 1) \subseteq livenow'
  <2>1. Live(p, b, i - 1) \subseteq (L \ {tac.dst}) \cup Operands(tac)
    BY <1>2, LiveBefore
  <2> QED BY <1>1, <1>2, <2>1 DEF Graph!Dst
<1> QED BY <1>2, <1>8, <1>9

(* An edge that is there stays. *)
LEMMA CoveredStays ==
  ASSUME NEW p, NEW b, NEW i, Covered(p, b, i), ig \subseteq ig', class' = class
  PROVE  Covered(p, b, i)'
BY DEF Covered

(* The walk covers one tac after the other, and at its end all of them. *)
LEMMA ConnectKeepsGraphInv ==
  ASSUME NEW p \in Programs, GraphInv(p), code = p.code, Connect
  PROVE  GraphInv(p)'
<1>1. /\ stage = "connect" /\ UNCHANGED <<code, liveout, succ, class>>
      /\ Graph!Connecting
      /\ stage' = IF block' = -1 THEN "allocate" ELSE stage
  BY DEF Connect, Graph!ConnectNext, Graph!EnterBlock, Graph!ConnectTac, Graph!program
<1>2. /\ liveout = LiveOut(p.code, p.succ) /\ succ = p.succ /\ 0 \in DOMAIN p.code
      /\ class = [v \in Free |-> ClassIn(p, v)]
      /\ block \in DOMAIN p.code
      /\ at \in 0 .. Len(p.code[block])
      /\ \A b \in DOMAIN p.code : \A i \in 1 .. Len(p.code[b]) : Visited(b, i) => Covered(p, b, i)
  BY <1>1 DEF GraphInv
<1>3. /\ DOMAIN p.code \subseteq Nat
      /\ \A b \in DOMAIN p.code : /\ Len(p.code[b]) \in Nat \ {0}
                                  /\ \A e \in Nat : e <= b => e \in DOMAIN p.code
  BY ProgramIsLegal
<1>4. CASE Graph!EnterBlock
  <2>1. at = 0 /\ at' = Len(p.code[block]) /\ livenow' = liveout[block] /\ ig' = ig /\ block' = block
    BY <1>4 DEF Graph!EnterBlock
  <2>2. \A b \in DOMAIN p.code : \A i \in 1 .. Len(p.code[b]) : Visited(b, i)' => Visited(b, i)
    BY <1>2, <1>3, <2>1 DEF Visited
  <2>3. Live(p, block, Len(p.code[block])) \subseteq livenow'
    <3>1. \A v : LiveAfter(p.code, liveout, block, Len(p.code[block]), v) => v \in liveout[block]
      BY <1>2, <1>3, LiveAtTheEnd
    <3> QED BY <1>2, <2>1, <3>1 DEF Live
  <2>4. \A b \in DOMAIN p.code : \A i \in 1 .. Len(p.code[b]) : Visited(b, i)' => Covered(p, b, i)'
    BY <1>1, <1>2, <2>1, <2>2, CoveredStays
  <2>5. stage' = "connect" /\ at' \in 0 .. Len(p.code[block]) /\ block' \in DOMAIN p.code
    BY <1>1, <1>2, <1>3, <2>1
  <2> QED BY <1>1, <1>2, <2>1, <2>3, <2>4, <2>5 DEF GraphInv
<1>5. CASE Graph!ConnectTac
  <2>1. /\ at' = at - 1 /\ block' = IF at = 1 THEN block - 1 ELSE block
        /\ ig \subseteq ig' /\ at > 0
    BY <1>5 DEF Graph!ConnectTac
  <2>2. \A b, i : b = block /\ i = at =>
          i \in 1 .. Len(p.code[b]) /\ Covered(p, b, i)' /\ Live(p, b, i - 1) \subseteq livenow'
    BY <1>1, <1>5, TacIsCovered
  <2>3. ASSUME NEW b \in DOMAIN p.code, NEW i \in 1 .. Len(p.code[b]), Visited(b, i)'
        PROVE  Visited(b, i) \/ (b = block /\ i = at)
    BY <1>2, <1>3, <2>1, <2>3 DEF Visited
  <2>4. \A b \in DOMAIN p.code : \A i \in 1 .. Len(p.code[b]) : Visited(b, i)' => Covered(p, b, i)'
    <3> SUFFICES ASSUME NEW b \in DOMAIN p.code, NEW i \in 1 .. Len(p.code[b]), Visited(b, i)'
                 PROVE  Covered(p, b, i)'
      OBVIOUS
    <3> QED BY <1>1, <1>2, <2>1, <2>2, <2>3, CoveredStays
  <2>5. ASSUME stage' = "connect"
        PROVE  /\ block' \in DOMAIN p.code
               /\ at' \in 0 .. Len(p.code[block'])
               /\ at' # 0 => Live(p, block', at') \subseteq livenow'
    <3>1. CASE at = 1
      <4>1. block' = block - 1 /\ block' # -1 /\ at' = 0
        BY <1>1, <2>1, <2>5, <3>1
      <4>2. block \in Nat /\ block - 1 \in Nat /\ block - 1 <= block
        BY <1>2, <1>3, <4>1
      <4>3. block' \in DOMAIN p.code
        BY <1>2, <1>3, <4>1, <4>2
      <4> QED BY <1>3, <4>1, <4>3
    <3>2. CASE at # 1
      <4>1. block' = block /\ at' = at - 1
        BY <2>1, <3>2
      <4> QED BY <1>2, <1>3, <2>1, <2>2, <3>2, <4>1
    <3> QED BY <3>1, <3>2
  <2>6. ASSUME stage' # "connect", NEW b \in DOMAIN p.code, NEW i \in 1 .. Len(p.code[b])
        PROVE  Visited(b, i)'
    BY <1>1, <1>3, <2>6 DEF Visited
  <2> QED BY <1>1, <1>2, <2>4, <2>5, <2>6 DEF GraphInv
<1> QED BY <1>4, <1>5 DEF Connect, Graph!ConnectNext

LEMMA StepGraphInv ==
  ASSUME NEW p \in Programs, GraphInv(p), stage = "connect" => code = p.code, [NextAll]_allVars
  PROVE  GraphInv(p)'
<1>1. CASE Connect
  BY <1>1, ConnectKeepsGraphInv DEF Connect
<1>2. CASE ~Connect
  <2>1. UNCHANGED <<liveout, succ, class, ig, block, at, livenow>>
    <3>1. CASE AllocateStep
      BY <3>1 DEF AllocateStep, walk, program, inputs, OrderNodes, ColorVreg, SpillVreg, TakePreferred,
                  TakeFirstFree, NextPass, RemapPregs
    <3> QED BY <1>2, <3>1 DEF NextAll, allVars, vars, inputs, walk, program,
                              AssignVregLocations, AddSpillCode, Run, Stopped
  <2>2. stage' = "connect" => stage = "connect"
    BY <1>2 DEF NextAll, allVars, machine, AllocateStep, AssignVregLocations, AddSpillCode, Run, Stopped
  <2>3. stage = "connect" => stage' = "connect"
    BY <1>2 DEF NextAll, allVars, machine, AllocateStep, AssignVregLocations, AddSpillCode, Run, Stopped
  <2>4. \A b, i : Visited(b, i)' <=> Visited(b, i)
    BY <2>1 DEF Visited
  <2>5. \A b, i : Covered(p, b, i)' <=> Covered(p, b, i)
    BY <2>1 DEF Covered
  <2> QED BY <2>1, <2>2, <2>3, <2>4, <2>5 DEF GraphInv
<1> QED BY <1>1, <1>2

-----------------------------------------------------------------------------
(* The code that runs.                                                     *)

WithAllSpillCode(c) == [b \in DOMAIN c |-> [i \in 1 .. Len(c[b]) |-> WithSpillCode(c[b][i])]]

CodeInv(p) ==
  /\ stage \in {"connect", "allocate", "spill"} =>
       /\ code = p.code
       /\ ip = <<0, 1, 1>>
       /\ holds = {<<Register(a[1]), a[2]>> : a \in p.arrives}
  /\ stage \in {"run", "exit"} => code = WithAllSpillCode(p.code)
  /\ stage \in {"spill", "run", "exit"} =>
       /\ pc = "done"
       /\ \A f \in ForcedIn(p.code) : ~Spilled(f[1])
  /\ stage \in {"connect", "allocate", "spill", "run", "exit", "panic"}


(* Spill code depends on the places, and these are given. *)
LEMMA SpillCodeStays ==
  ASSUME UNCHANGED <<preg, stackIndex, class>>, NEW tac
  PROVE  WithSpillCode(tac)' = WithSpillCode(tac)
<1>1. \A v : Place(v)' = Place(v) /\ OnStack(v)' = OnStack(v)
  BY DEF Place, OnStack, Spilled
<1>2. \A v, n : /\ SpillRegister(v, n)' = SpillRegister(v, n)
                /\ Operand(v, n)' = Operand(v, n)
                /\ Load(v, n)' = Load(v, n) /\ Store(v, n)' = Store(v, n)
  BY <1>1 DEF SpillRegister, Operand, Load, Store
<1>3. NeedsNoSpillCode(tac)' = NeedsNoSpillCode(tac)
  BY <1>1 DEF NeedsNoSpillCode, Spilled
<1> QED BY <1>1, <1>2, <1>3 DEF WithSpillCode

LEMMA InitCodeInv ==
  ASSUME NEW p \in Programs, InitProgram(p), InitAll
  PROVE  CodeInv(p)
BY DEF InitProgram, InitAll, CodeInv

LEMMA StepCodeInv ==
  ASSUME NEW p \in Programs, CodeInv(p), [NextAll]_allVars
  PROVE  CodeInv(p)'
<1>1. CASE Connect
  BY <1>1 DEF Connect, CodeInv, Graph!ConnectNext, Graph!EnterBlock, Graph!ConnectTac, Graph!program
<1>2. CASE AllocateStep
  BY <1>2 DEF AllocateStep, CodeInv, program, machine
<1>3. CASE AssignVregLocations
  BY <1>3 DEF AssignVregLocations, CodeInv, program, ForcedToStack, vars, Spilled
<1>4. CASE AddSpillCode
  <2>1. code' = WithAllSpillCode(code) /\ stage = "spill" /\ stage' = "run"
        /\ UNCHANGED <<pc, preg, stackIndex, class>>
    BY <1>4 DEF AddSpillCode, WithAllSpillCode, vars, inputs
  <2>2. \A c : WithAllSpillCode(c)' = WithAllSpillCode(c)
    BY <2>1, SpillCodeStays DEF WithAllSpillCode
  <2> QED BY <2>1, <2>2 DEF CodeInv, Spilled
<1>5. CASE Run \/ UNCHANGED allVars
  <2>1. UNCHANGED <<code, pc, preg, stackIndex, class>>
    BY <1>5 DEF Run, vars, inputs, program, allVars
  <2>2. \A c : WithAllSpillCode(c)' = WithAllSpillCode(c)
    BY <2>1, SpillCodeStays DEF WithAllSpillCode
  <2>3. (stage = "run" /\ stage' \in {"run", "exit"}) \/ UNCHANGED <<stage, ip, holds>>
    BY <1>5 DEF Run, allVars, machine
  <2> QED BY <2>1, <2>2, <2>3 DEF CodeInv, Spilled
<1> QED BY <1>1, <1>2, <1>3, <1>4, <1>5 DEF NextAll, Stopped

-----------------------------------------------------------------------------
(* Where values are when the code runs.                                    *)

(* In the end a reserved vreg is the register it stands for. *)
DoneInv == pc = "done" => \A r \in 1 .. Reserved : preg[r] = PregMap[r - 1]

LEMMA StepDoneInv == AllInv /\ DoneInv /\ [NextAll]_allVars => DoneInv'
<1> SUFFICES ASSUME AllInv, DoneInv, [NextAll]_allVars, pc' = "done"
             PROVE  \A r \in 1 .. Reserved : preg'[r] = PregMap[r - 1]
  BY DEF DoneInv
<1>1. CASE RemapPregs
  <2>1. pc = "remap" /\ preg' = [v \in Vregs |-> IF preg[v] # -1 THEN PregMap[preg[v]] ELSE -1]
    BY <1>1 DEF RemapPregs
  <2>2. \A r \in 1 .. Reserved : preg[r] = r - 1
    BY <2>1 DEF AllInv, IInv, ReservedInv
  <2>3. ASSUME NEW r \in 1 .. Reserved PROVE preg'[r] = PregMap[r - 1]
    <3>1. r \in Vregs /\ r - 1 # -1 /\ preg[r] = r - 1
      BY <2>2, <2>3, RegisterNumbering
    <3> QED BY <2>1, <3>1
  <2> QED BY <2>3
<1>2. CASE ~RemapPregs
  <2>1. UNCHANGED <<pc, preg>>
    <3>1. CASE AllocateStep
      BY <1>2, <3>1 DEF AllocateStep, OrderNodes, ColorVreg, SpillVreg, TakePreferred, TakeFirstFree,
                        NextPass
    <3>2. CASE Connect
      BY <3>2 DEF Connect, allocator
    <3> QED BY <3>1, <3>2 DEF NextAll, allVars, vars, AssignVregLocations, AddSpillCode, Run, Stopped
  <2> QED BY <2>1 DEF DoneInv
<1> QED BY <1>1, <1>2

(* Places that may not be the same are not. *)
PlacesApart(p) ==
  /\ \A u, v \in Free : u # v /\ Place(u) = Place(v) =>
       /\ class[u] = class[v] /\ Graph!Edge(u, v) \notin ig
       /\ ~Spilled(u) /\ ~Spilled(v)
  /\ \A r \in 1 .. Reserved : \A v \in Free :
       Graph!Edge(r, v) \in ig \/ Graph!Edge(v, r) \in ig => Place(v) # Register(r)
  /\ \A f \in ForcedIn(p.code) : Place(f[1]) = Register(f[2]) /\ ~Spilled(f[1])
  /\ \A r, s \in 1 .. Reserved : Register(r) = Register(s) => r = s
  /\ \A v, n, u : Place(u) # SpillRegister(v, n)
  /\ \A v, n, r : Register(r) # SpillRegister(v, n)
  /\ \A v, r : Spilled(v) => Place(v) # Register(r)

LEMMA PlacesAreApart ==
  ASSUME NEW p \in Programs, AllInv, DoneInv, GraphInv(p), CodeInv(p), stage = "run"
  PROVE  PlacesApart(p)
<1>1. /\ pc = "done"
      /\ \A f \in ForcedIn(p.code) : ~Spilled(f[1])
  BY DEF CodeInv
<1>2. /\ \A r \in 1 .. Reserved : preg[r] = PregMap[r - 1]
      /\ EveryVregPlaced
      /\ NoSharedRegister
      /\ SpillSlotsDistinct
  BY <1>1, PlacedInTheEnd DEF DoneInv, AllInv, IInv, SlotsInv
<1>3. \A v \in Free :
        /\ class[v] \in Classes
        /\ ~Spilled(v) => Placed(v) /\ \E q \in PregsOf(class[v]) : preg[v] = PregMap[q]
  BY <1>1, <1>2 DEF EveryVregPlaced, AllInv, IInv, InputsOK
<1>4. \A q \in Pregs : PregMap[q] \in Nat /\ PregMap[q] # -1
  BY PregMapAssumption
<1>5. \A r \in 1 .. Reserved : r \in Vregs /\ r - 1 \in Pregs /\ Placed(r) /\ r <= Reserved
  <2>1. \A r \in 1 .. Reserved : r \in Vregs /\ r - 1 \in Pregs /\ r <= Reserved
    BY RegisterNumbering DEF Pregs
  <2> QED BY <1>2, <1>4, <2>1 DEF Placed
<1>6. \A v \in Free : v \in Vregs /\ ~(v <= Reserved)
  BY RegisterNumbering
<1>7. \A u, v : Graph!Edge(u, v) \in ig => Interferes(u, v)
  BY DEF Graph!Edge, Interferes
<1>8. ASSUME NEW u \in Free, NEW v \in Free, u # v, Place(u) = Place(v)
      PROVE  /\ class[u] = class[v] /\ Graph!Edge(u, v) \notin ig
             /\ ~Spilled(u) /\ ~Spilled(v)
  <2>1. ~Spilled(u) /\ ~Spilled(v)
    <3>1. CASE Spilled(u) /\ Spilled(v)
      <4>1. stackIndex[u] = stackIndex[v]
        BY <1>8, <3>1 DEF Place
      <4> QED BY <1>2, <1>8, <3>1, <4>1 DEF SpillSlotsDistinct
    <3>2. CASE Spilled(u) /\ ~Spilled(v)
      BY <1>8, <3>2 DEF Place
    <3>3. CASE ~Spilled(u) /\ Spilled(v)
      BY <1>8, <3>3 DEF Place
    <3> QED BY <3>1, <3>2, <3>3
  <2>2. preg[u] = preg[v] /\ Placed(u) /\ Placed(v)
    BY <1>3, <1>8, <2>1 DEF Place
  <2>3. Graph!Edge(u, v) \notin ig
    BY <1>2, <1>6, <1>7, <1>8, <2>2 DEF NoSharedRegister
  <2>4. class[u] = class[v]
    <3>1. PICK q \in PregsOf(class[u]), s \in PregsOf(class[v]) :
            preg[u] = PregMap[q] /\ preg[v] = PregMap[s]
      BY <1>3, <2>1
    <3>2. q \in Pregs /\ s \in Pregs
      BY <1>3, <3>1, RegisterNumbering
    <3>3. q = s
      BY <2>2, <3>1, <3>2, PregMapAssumption
    <3>4. class[u] \in {"INT", "SSE"} /\ class[v] \in {"INT", "SSE"}
      BY <1>3 DEF Classes
    <3> QED BY <3>1, <3>3, <3>4, CountAssumption DEF PregsOf, LiveRangeStart, RegisterCount
  <2> QED BY <2>1, <2>3, <2>4
<1>9. ASSUME NEW r \in 1 .. Reserved, NEW v \in Free,
             Graph!Edge(r, v) \in ig \/ Graph!Edge(v, r) \in ig, Place(v) = Register(r)
      PROVE  FALSE
  <2>1. ~Spilled(v) /\ preg[v] = preg[r]
    BY <1>2, <1>9 DEF Place, Register
  <2>2. Interferes(r, v)
    BY <1>7, <1>9 DEF Interferes
  <2>3. r # v /\ Placed(r) /\ Placed(v)
    BY <1>3, <1>5, <1>6, <2>1
  <2> QED BY <1>2, <1>5, <1>6, <2>1, <2>2, <2>3 DEF NoSharedRegister
<1>10. ASSUME NEW f \in ForcedIn(p.code) PROVE Place(f[1]) = Register(f[2])
  <2>1. PICK b \in DOMAIN p.code : \E i \in 1 .. Len(p.code[b]) : f \in p.code[b][i].forced
    BY DEF ForcedIn
  <2>0. PICK i \in 1 .. Len(p.code[b]) : f \in p.code[b][i].forced
    BY <2>1
  <2>2. f[1] \in Free /\ f[2] \in ReservedOf(ClassIn(p, f[1]))
    BY <2>0, ProgramIsLegal DEF IsTac
  <2>3. class[f[1]] = ClassIn(p, f[1])
    BY <2>2 DEF GraphInv
  <2>4. PICK q \in PregsOf(class[f[1]]) : preg[f[1]] = PregMap[q]
    BY <1>1, <1>3, <2>2
  <2>5. class[f[1]] \in {"INT", "SSE"} /\ class[f[1]] \in Classes
    BY <1>3, <2>2 DEF Classes
  <2>6. q + 1 \in Graph!RegistersOf(class[f[1]]) /\ q + 1 \in 1 .. Reserved /\ (q + 1) - 1 = q
    <3>1. CASE class[f[1]] = "INT"
      <4>1. q \in 0 .. NumInt - 1
        BY <3>1, CountAssumption DEF PregsOf, LiveRangeStart, RegisterCount
      <4> QED BY <3>1, <4>1, CountAssumption DEF Reserved, Graph!RegistersOf
    <3>2. CASE class[f[1]] = "SSE"
      <4>1. q \in NumInt .. NumInt + NumSse - 1
        BY <3>2, CountAssumption DEF PregsOf, LiveRangeStart, RegisterCount
      <4> QED BY <3>2, <4>1, CountAssumption DEF Reserved, Graph!RegistersOf, Graph!SseRegisters
    <3> QED BY <2>5, <3>1, <3>2
  <2>7. CASE q + 1 = f[2]
    <3>1. Place(f[1]) = <<"reg", preg[f[1]]>>
      BY <1>1 DEF Place
    <3> QED BY <2>4, <2>6, <2>7, <3>1 DEF Register
  <2>8. CASE q + 1 # f[2]
    <3>1. Covered(p, b, i)
      BY DEF GraphInv
    <3>2. Graph!Edge(f[1], q + 1) \in ig
      BY <2>0, <2>6, <2>8, <3>1 DEF Covered
    <3>3. Place(f[1]) # Register(q + 1)
      BY <1>9, <2>2, <2>6, <3>2
    <3>4. Place(f[1]) = Register(q + 1)
      <4>1. Place(f[1]) = <<"reg", preg[f[1]]>>
        BY <1>1 DEF Place
      <4> QED BY <2>4, <2>6, <4>1 DEF Register
    <3> QED BY <3>3, <3>4
  <2> QED BY <2>7, <2>8
<1>11. ASSUME NEW r \in 1 .. Reserved, NEW s \in 1 .. Reserved, Register(r) = Register(s)
       PROVE  r = s
  <2>1. PregMap[r - 1] = PregMap[s - 1]
    BY <1>11 DEF Register
  <2>2. r - 1 = s - 1
    BY <1>5, <2>1, PregMapAssumption
  <2> QED BY <2>2
<1>12. /\ \A v, n, u : Place(u) # SpillRegister(v, n)
       /\ \A v, n, r : Register(r) # SpillRegister(v, n)
       /\ \A v, r : Spilled(v) => Place(v) # Register(r)
  BY DEF Place, Register, SpillRegister
<1> QED BY <1>1, <1>8, <1>9, <1>10, <1>11, <1>12 DEF PlacesApart

-----------------------------------------------------------------------------
(* The instructions of a tac: loads, its operation and stores. *)

TwoStores(tac) == ~NeedsNoSpillCode(tac) /\ tac.dst = tac.src1 /\ OnStack(tac.dst)
Loads1(tac) == IF ~NeedsNoSpillCode(tac) /\ OnStack(tac.src1) THEN 1 ELSE 0
Loads2(tac) == IF ~NeedsNoSpillCode(tac) /\ ~TwoStores(tac) /\ OnStack(tac.src2) THEN 1 ELSE 0
Stores(tac) ==
  IF NeedsNoSpillCode(tac) \/ ~OnStack(tac.dst) THEN 0 ELSE IF TwoStores(tac) THEN 2 ELSE 1
OpAt(tac) == Loads1(tac) + Loads2(tac) + 1
LengthOf(tac) == OpAt(tac) + Stores(tac)

(* Where the operation reads and writes, and where the result is on its    *)
(* way to the stack.                                                       *)
FirstPlace(tac) == IF Loads1(tac) = 1 THEN SpillRegister(tac.src1, 1) ELSE Place(tac.src1)
SecondPlace(tac) == IF Loads2(tac) = 1 THEN SpillRegister(tac.src2, 2) ELSE Place(tac.src2)
CarriedIn(tac, n) ==
  IF n = LengthOf(tac) + 1 THEN Place(tac.dst)
  ELSE SpillRegister(tac.dst, IF n = LengthOf(tac) THEN 2 ELSE 1)

IsOp(tac, I) ==
  /\ I.op = tac.op
  /\ \A o \in I.reads :
       \/ tac.src1 # 0 /\ o = <<FirstPlace(tac), tac.src1>>
       \/ tac.src2 # 0 /\ o = <<SecondPlace(tac), tac.src2>>
       \/ \E r \in tac.ins : o = <<Register(r[1]), r[2]>>
  /\ I.writes = {<<CarriedIn(tac, OpAt(tac) + 1), v>> : v \in Graph!Dst(tac) \ {o[2] : o \in tac.outs}}
                   \cup {<<Register(o[1]), o[2]>> : o \in tac.outs}
  /\ I.to = IF tac.op \in Graph!Moves THEN {w[1] : w \in I.writes} ELSE {}
  /\ tac.op \in Graph!Moves /\ tac.src1 # 0 => FirstPlace(tac) \in I.from

IsSpillCode(tac, S) ==
  /\ Len(S) = LengthOf(tac)
  /\ Loads1(tac) = 1 => S[1] = Copy(Place(tac.src1), SpillRegister(tac.src1, 1)) /\ OnStack(tac.src1)
  /\ Loads2(tac) = 1 =>
       /\ S[Loads1(tac) + 1] = Copy(Place(tac.src2), SpillRegister(tac.src2, 2))
       /\ OnStack(tac.src2)
  /\ IsOp(tac, S[OpAt(tac)])
  /\ \A n \in OpAt(tac) + 1 .. LengthOf(tac) :
       S[n] = Copy(CarriedIn(tac, n), CarriedIn(tac, n + 1)) /\ OnStack(tac.dst)

LEMMA Concatenated ==
  ASSUME NEW S, NEW s \in Seq(S), NEW t \in Seq(S)
  PROVE  /\ s \o t \in Seq(S) /\ Len(s \o t) = Len(s) + Len(t)
         /\ \A i \in 1 .. Len(s) : (s \o t)[i] = s[i]
         /\ \A i \in 1 .. Len(t) : (s \o t)[Len(s) + i] = t[i]
OBVIOUS

(* What an operation with its operands in these places does. *)
LEMMA OperationIsOp ==
  ASSUME NEW p, NEW tac, IsTac(p, tac), NEW p1, NEW p2, NEW d,
         tac.src1 # 0 => p1 = FirstPlace(tac),
         tac.src2 # 0 => p2 = SecondPlace(tac),
         tac.dst # 0 => d = CarriedIn(tac, OpAt(tac) + 1),
         tac.dst # 0 /\ tac.src2 = tac.dst => p2 = d
  PROVE  IsOp(tac, In(tac, p1, p2, d))
<1> DEFINE I == In(tac, p1, p2, d)
           written == IF tac.dst # 0 /\ tac.src2 = tac.dst THEN p2 ELSE d
           reads == {o \in {<<p1, tac.src1>>, <<p2, tac.src2>>} : o[2] # 0}
                      \cup {<<Register(r[1]), r[2]>> : r \in tac.ins}
           writes == {<<written, v>> : v \in Graph!Dst(tac) \ {r[2] : r \in tac.outs}}
                       \cup {<<Register(r[1]), r[2]>> : r \in tac.outs}
<1>1. /\ I.op = tac.op /\ I.reads = reads /\ I.writes = writes
      /\ I.from = (IF tac.op \in Graph!Moves THEN {r[1] : r \in reads} ELSE {})
      /\ I.to = IF tac.op \in Graph!Moves THEN {w[1] : w \in writes} ELSE {}
  BY DEF In
<1> HIDE DEF I
<1>2. \A v \in Graph!Dst(tac) : written = CarriedIn(tac, OpAt(tac) + 1)
  BY DEF Graph!Dst
<1>3. writes = {<<CarriedIn(tac, OpAt(tac) + 1), v>> : v \in Graph!Dst(tac) \ {o[2] : o \in tac.outs}}
                 \cup {<<Register(o[1]), o[2]>> : o \in tac.outs}
  BY <1>2
<1>4. \A o \in reads :
        \/ tac.src1 # 0 /\ o = <<FirstPlace(tac), tac.src1>>
        \/ tac.src2 # 0 /\ o = <<SecondPlace(tac), tac.src2>>
        \/ \E r \in tac.ins : o = <<Register(r[1]), r[2]>>
  OBVIOUS
<1>5. ASSUME tac.op \in Graph!Moves, tac.src1 # 0 PROVE FirstPlace(tac) \in I.from
  <2>1. <<p1, tac.src1>> \in reads /\ <<p1, tac.src1>>[1] = p1
    BY <1>5
  <2> QED BY <1>1, <1>5, <2>1
<1> HIDE DEF reads, writes
<1> QED BY <1>1, <1>3, <1>4, <1>5 DEF IsOp, I

LEMMA WithoutSpillCode ==
  ASSUME NEW p, NEW tac, IsTac(p, tac), NeedsNoSpillCode(tac)
  PROVE  IsSpillCode(tac, WithSpillCode(tac))
<1>1. /\ Loads1(tac) = 0 /\ Loads2(tac) = 0 /\ Stores(tac) = 0 /\ OpAt(tac) = 1 /\ LengthOf(tac) = 1
  BY DEF Loads1, Loads2, Stores, OpAt, LengthOf
<1>2. tac.src2 = 0 /\ tac.dst # 0
  BY DEF NeedsNoSpillCode, IsTac, Graph!Moves
<1>3. WithSpillCode(tac) = <<In(tac, Place(tac.src1), <<>>, Place(tac.dst))>>
  BY DEF WithSpillCode
<1>4. IsOp(tac, In(tac, Place(tac.src1), <<>>, Place(tac.dst)))
  <2>1. Place(tac.src1) = FirstPlace(tac) /\ Place(tac.dst) = CarriedIn(tac, OpAt(tac) + 1)
    BY <1>1 DEF FirstPlace, CarriedIn
  <2> QED BY <1>2, <2>1, OperationIsOp
<1> QED BY <1>1, <1>3, <1>4 DEF IsSpillCode

LEMMA WithTwoStores ==
  ASSUME NEW p, NEW tac, IsTac(p, tac), TwoStores(tac)
  PROVE  IsSpillCode(tac, WithSpillCode(tac))
<1> DEFINE v == tac.dst
           c1 == Copy(Place(v), SpillRegister(v, 1))
           p2 == IF tac.src2 = 0 THEN <<>> ELSE Place(tac.src2)
           op == In(tac, SpillRegister(v, 1), p2, SpillRegister(v, 1))
           c3 == Copy(SpillRegister(v, 1), SpillRegister(v, 2))
           c4 == Copy(SpillRegister(v, 2), Place(v))
           S == {c1, op, c3, c4}
<1>1. v = tac.src1 /\ OnStack(v) /\ v # 0 /\ ~NeedsNoSpillCode(tac)
  BY DEF TwoStores, OnStack
<1>2. /\ Loads1(tac) = 1 /\ Loads2(tac) = 0 /\ Stores(tac) = 2 /\ OpAt(tac) = 2 /\ LengthOf(tac) = 4
  BY <1>1 DEF Loads1, Loads2, Stores, OpAt, LengthOf
<1>3. WithSpillCode(tac) = <<c1>> \o <<op, c3>> \o <<c4>>
  BY <1>1 DEF WithSpillCode, Load, Store, Operand
<1>4. IsOp(tac, op)
  <2>1. SpillRegister(v, 1) = FirstPlace(tac) /\ SpillRegister(v, 1) = CarriedIn(tac, OpAt(tac) + 1)
    BY <1>1, <1>2 DEF FirstPlace, CarriedIn
  <2>2. tac.src2 # 0 => p2 = SecondPlace(tac)
    BY <1>2 DEF SecondPlace
  <2>3. ~(tac.src2 = tac.dst)
    BY <1>1 DEF IsTac
  <2> HIDE DEF p2
  <2> QED BY <2>1, <2>2, <2>3, OperationIsOp
<1>5. /\ CarriedIn(tac, 3) = SpillRegister(v, 1) /\ CarriedIn(tac, 4) = SpillRegister(v, 2)
      /\ CarriedIn(tac, 5) = Place(v)
  BY <1>2 DEF CarriedIn
<1>6. /\ Len(WithSpillCode(tac)) = 4
      /\ WithSpillCode(tac)[1] = c1 /\ WithSpillCode(tac)[2] = op
      /\ WithSpillCode(tac)[3] = c3 /\ WithSpillCode(tac)[4] = c4
  <2> HIDE DEF c1, op, c3, c4
  <2>1. <<c1>> \in Seq(S) /\ <<op, c3>> \in Seq(S) /\ <<c4>> \in Seq(S)
    OBVIOUS
  <2>2. /\ <<c1>> \o <<op, c3>> \in Seq(S)
        /\ Len(<<c1>> \o <<op, c3>>) = 3
        /\ (<<c1>> \o <<op, c3>>)[1] = c1
        /\ (<<c1>> \o <<op, c3>>)[2] = op
        /\ (<<c1>> \o <<op, c3>>)[3] = c3
    BY <2>1
  <2> DEFINE s == <<c1>> \o <<op, c3>>
  <2> HIDE DEF s, S
  <2>3. /\ Len(s \o <<c4>>) = 4
        /\ (s \o <<c4>>)[1] = c1 /\ (s \o <<c4>>)[2] = op /\ (s \o <<c4>>)[3] = c3 /\ (s \o <<c4>>)[4] = c4
    BY <2>1, <2>2 DEF s
  <2> QED BY <1>3, <2>3 DEF s
<1> HIDE DEF c1, op, c3, c4
<1>7. /\ WithSpillCode(tac)[1] = Copy(Place(tac.src1), SpillRegister(tac.src1, 1)) /\ OnStack(tac.src1)
      /\ \A n \in 3 .. 4 : WithSpillCode(tac)[n] = Copy(CarriedIn(tac, n), CarriedIn(tac, n + 1)) /\ OnStack(tac.dst)
  BY <1>1, <1>5, <1>6 DEF c1, c3, c4
<1> QED BY <1>2, <1>4, <1>6, <1>7 DEF IsSpillCode

LEMMA WithLoadsAndStore ==
  ASSUME NEW p, NEW tac, IsTac(p, tac), ~NeedsNoSpillCode(tac), ~TwoStores(tac)
  PROVE  IsSpillCode(tac, WithSpillCode(tac))
<1> DEFINE l1 == Load(tac.src1, 1)
           l2 == Load(tac.src2, 2)
           op == In(tac, Operand(tac.src1, 1), Operand(tac.src2, 2), Operand(tac.dst, 2))
           st == Store(tac.dst, 2)
           c1 == Copy(Place(tac.src1), SpillRegister(tac.src1, 1))
           c2 == Copy(Place(tac.src2), SpillRegister(tac.src2, 2))
           c3 == Copy(SpillRegister(tac.dst, 2), Place(tac.dst))
           S == {c1, c2, op, c3}
           W == WithSpillCode(tac)
<1>1. W = ((l1 \o l2) \o <<op>>) \o st
  BY DEF WithSpillCode, TwoStores
<1>2. /\ l1 = IF Loads1(tac) = 1 THEN <<c1>> ELSE <<>>
      /\ l2 = IF Loads2(tac) = 1 THEN <<c2>> ELSE <<>>
      /\ st = IF Stores(tac) = 1 THEN <<c3>> ELSE <<>>
      /\ Loads1(tac) \in {0, 1} /\ Loads2(tac) \in {0, 1} /\ Stores(tac) \in {0, 1}
      /\ Loads1(tac) = 1 <=> OnStack(tac.src1)
      /\ Loads2(tac) = 1 <=> OnStack(tac.src2)
      /\ Stores(tac) = 1 <=> OnStack(tac.dst)
  BY DEF Load, Store, Loads1, Loads2, Stores, TwoStores
<1>3. IsOp(tac, op)
  <2>1. tac.src1 # 0 => Operand(tac.src1, 1) = FirstPlace(tac)
    BY <1>2 DEF Operand, FirstPlace
  <2>2. tac.src2 # 0 => Operand(tac.src2, 2) = SecondPlace(tac)
    BY <1>2 DEF Operand, SecondPlace
  <2>3. tac.dst # 0 => Operand(tac.dst, 2) = CarriedIn(tac, OpAt(tac) + 1)
    <3>1. OpAt(tac) \in Nat
      BY <1>2 DEF OpAt
    <3>2. CASE Stores(tac) = 1
      <4>1. OpAt(tac) + 1 = LengthOf(tac) /\ LengthOf(tac) # LengthOf(tac) + 1
        BY <3>1, <3>2 DEF LengthOf
      <4> QED BY <1>2, <3>2, <4>1 DEF Operand, CarriedIn
    <3>3. CASE Stores(tac) = 0
      <4>1. LengthOf(tac) = OpAt(tac)
        BY <3>1, <3>3 DEF LengthOf
      <4> QED BY <1>2, <3>3, <4>1 DEF Operand, CarriedIn
    <3> QED BY <1>2, <3>2, <3>3
  <2>4. tac.src2 = tac.dst => Operand(tac.src2, 2) = Operand(tac.dst, 2)
    OBVIOUS
  <2> QED BY <2>1, <2>2, <2>3, <2>4, OperationIsOp
<1> HIDE DEF l1, l2, op, st, c1, c2, c3, W
<1>4. l1 \in Seq(S) /\ l2 \in Seq(S) /\ <<op>> \in Seq(S) /\ st \in Seq(S)
      /\ Len(l1) = Loads1(tac) /\ Len(l2) = Loads2(tac) /\ Len(<<op>>) = 1 /\ Len(st) = Stores(tac)
  <2>1. <<c1>> \in Seq(S) /\ <<c2>> \in Seq(S) /\ <<c3>> \in Seq(S) /\ <<op>> \in Seq(S) /\ <<>> \in Seq(S)
    OBVIOUS
  <2> QED BY <1>2, <2>1
<1> HIDE DEF S
<1> DEFINE a == l1 \o l2
           b == a \o <<op>>
<1>5. /\ a \in Seq(S) /\ Len(a) = Loads1(tac) + Loads2(tac)
      /\ \A i \in 1 .. Len(l1) : a[i] = l1[i]
      /\ \A i \in 1 .. Len(l2) : a[Len(l1) + i] = l2[i]
  <2>1. /\ l1 \o l2 \in Seq(S) /\ Len(l1 \o l2) = Len(l1) + Len(l2)
        /\ \A i \in 1 .. Len(l1) : (l1 \o l2)[i] = l1[i]
        /\ \A i \in 1 .. Len(l2) : (l1 \o l2)[Len(l1) + i] = l2[i]
    <3>1. l1 \in Seq(S) /\ l2 \in Seq(S)
      BY <1>4
    <3> QED BY <3>1, Concatenated
  <2> QED BY <1>4, <2>1
<1> HIDE DEF a
<1>6. /\ b \in Seq(S) /\ Len(b) = OpAt(tac)
      /\ \A i \in 1 .. Len(a) : b[i] = a[i]
      /\ b[OpAt(tac)] = op
  <2>1. /\ b \in Seq(S) /\ Len(b) = Len(a) + 1
        /\ \A i \in 1 .. Len(a) : b[i] = a[i]
        /\ \A i \in 1 .. 1 : b[Len(a) + i] = <<op>>[i]
    BY <1>4, <1>5, Concatenated
  <2>2. OpAt(tac) = Len(a) + 1
    BY <1>2, <1>5 DEF OpAt
  <2> QED BY <2>1, <2>2
<1> HIDE DEF b
<1>7. /\ Len(W) = LengthOf(tac)
      /\ \A i \in 1 .. OpAt(tac) : W[i] = b[i]
      /\ Stores(tac) = 1 => W[OpAt(tac) + 1] = c3
  <2>1. /\ b \o st \in Seq(S) /\ Len(b \o st) = Len(b) + Len(st)
        /\ \A i \in 1 .. Len(b) : (b \o st)[i] = b[i]
        /\ \A i \in 1 .. Len(st) : (b \o st)[Len(b) + i] = st[i]
    <3>1. b \in Seq(S) /\ st \in Seq(S)
      BY <1>4, <1>6
    <3> QED BY <3>1, Concatenated
  <2>2. W = b \o st
    BY <1>1 DEF a, b
  <2>3. Stores(tac) = 1 => st[1] = c3
    BY <1>2
  <2> QED BY <1>2, <1>4, <1>6, <2>1, <2>2, <2>3 DEF LengthOf
<1>8. Loads1(tac) = 1 => W[1] = c1
  <2> SUFFICES ASSUME Loads1(tac) = 1 PROVE W[1] = c1
    OBVIOUS
  <2>1. 1 \in 1 .. Len(l1) /\ 1 \in 1 .. Len(a) /\ 1 \in 1 .. OpAt(tac)
    BY <1>2, <1>4, <1>5 DEF OpAt
  <2> QED BY <1>2, <1>5, <1>6, <1>7, <2>1
<1>9. Loads2(tac) = 1 => W[Loads1(tac) + 1] = c2
  <2> SUFFICES ASSUME Loads2(tac) = 1 PROVE W[Loads1(tac) + 1] = c2
    OBVIOUS
  <2>1. 1 \in 1 .. Len(l2) /\ Loads1(tac) + 1 \in 1 .. Len(a) /\ Loads1(tac) + 1 \in 1 .. OpAt(tac)
    BY <1>2, <1>4, <1>5 DEF OpAt
  <2>2. a[Loads1(tac) + 1] = l2[1]
    BY <1>4, <1>5, <2>1
  <2> QED BY <1>2, <1>6, <1>7, <2>1, <2>2
<1>10. IsOp(tac, W[OpAt(tac)])
  <2>1. OpAt(tac) \in 1 .. OpAt(tac)
    BY <1>2 DEF OpAt
  <2> QED BY <1>3, <1>6, <1>7, <2>1
<1>11. ASSUME NEW n \in OpAt(tac) + 1 .. LengthOf(tac)
       PROVE  W[n] = Copy(CarriedIn(tac, n), CarriedIn(tac, n + 1)) /\ OnStack(tac.dst)
  <2>1. OpAt(tac) \in Nat /\ Stores(tac) = 1 /\ n = OpAt(tac) + 1 /\ n = LengthOf(tac) /\ n # n + 1
    BY <1>2 DEF OpAt, LengthOf
  <2> QED BY <1>2, <1>7, <2>1 DEF c3, CarriedIn
<1> QED BY <1>2, <1>7, <1>8, <1>9, <1>10, <1>11 DEF IsSpillCode, c1, c2, W

LEMMA SpillCodeOf ==
  ASSUME NEW p, NEW tac, IsTac(p, tac)
  PROVE  /\ IsSpillCode(tac, WithSpillCode(tac))
         /\ Loads1(tac) \in {0, 1} /\ Loads2(tac) \in {0, 1} /\ Stores(tac) \in {0, 1, 2}
         /\ OpAt(tac) \in Nat \ {0} /\ LengthOf(tac) \in Nat /\ OpAt(tac) <= LengthOf(tac)
         /\ Stores(tac) # 0 => OnStack(tac.dst)
<1>1. IsSpillCode(tac, WithSpillCode(tac))
  BY WithoutSpillCode, WithTwoStores, WithLoadsAndStore DEF TwoStores
<1>2. Loads1(tac) \in {0, 1} /\ Loads2(tac) \in {0, 1} /\ Stores(tac) \in {0, 1, 2}
  BY DEF Loads1, Loads2, Stores
<1> QED BY <1>1, <1>2 DEF OpAt, LengthOf, Stores

-----------------------------------------------------------------------------
(* What a tac leaves of the values that others need. *)

(* A call spares what is live after it: its result is in the only          *)
(* registers that the graph lets live vregs have in spite of the call.     *)
LEMMA LiveSurvivesCall ==
  ASSUME NEW p \in Programs, GraphInv(p), stage = "run", PlacesApart(p),
         NEW b \in DOMAIN p.code, NEW i \in 1 .. Len(p.code[b]), p.code[b][i].op = "X_CALL",
         NEW u \in Live(p, b, i) \ {p.code[b][i].dst}, NEW c \in CallerSaved
  PROVE  Place(u) # Register(c)
<1> DEFINE tac == p.code[b][i]
<1>1. Covered(p, b, i) /\ IsTac(p, tac)
  BY ProgramIsLegal DEF GraphInv
<1>2. u \in Free /\ c \in 1 .. Reserved
  <2>1. c \in ArgRegisters \cup {RAX, RDX} \cup Graph!SseRegisters /\ ArgRegisters \subseteq 1 .. Reserved
    BY RegisterAssumption
  <2>2. Graph!SseRegisters = Graph!RegistersOf("SSE")
    BY DEF Graph!RegistersOf
  <2> QED BY <2>1, <2>2, RegistersAreReserved DEF Live
<1>3. CASE c \in Graph!CalleeMayChange(tac)
  <2>1. Graph!Edge(c, u) \in ig
    BY <1>1, <1>3 DEF Covered
  <2> QED BY <1>2, <2>1 DEF PlacesApart
<1>4. CASE c \notin Graph!CalleeMayChange(tac)
  <2>1. c \in tac.results
    BY <1>4, RegisterAssumption DEF Graph!CalleeMayChange
  <2>2. <<tac.dst, c>> \in tac.forced
    BY <1>1, <2>1 DEF IsTac
  <2>3. \A x \in Live(p, b, i) \ {<<tac.dst, c>>[1]} : Graph!Edge(<<tac.dst, c>>[2], x) \in ig
    BY <1>1, <2>2 DEF Covered
  <2>4. Graph!Edge(c, u) \in ig
    BY <2>3
  <2> QED BY <1>2, <2>4 DEF PlacesApart
<1> QED BY <1>3, <1>4

(* Tacs that neither read nor write vregs leave what is live as it is. *)
LEMMA LiveThrough ==
  ASSUME NEW p \in Programs, NEW b \in DOMAIN p.code, NEW i \in 1 .. Len(p.code[b]),
         NEW q \in i .. Len(p.code[b]),
         \A k \in i + 1 .. q : p.code[b][k].dst = 0 /\ Operands(p.code[b][k]) = {}
  PROVE  Live(p, b, i) \subseteq Live(p, b, q)
<1> DEFINE lo == LiveOut(p.code, p.succ)
           t == p.code[b]
<1>1. Len(t) \in Nat
  BY ProgramIsLegal
<1> SUFFICES ASSUME NEW v \in Free, LiveAfter(p.code, lo, b, i, v) PROVE LiveAfter(p.code, lo, b, q, v)
  BY DEF Live
<1> HIDE DEF lo
<1>2. CASE \E j \in i + 1 .. Len(t) : v \in Operands(t[j]) /\ \A k \in i + 1 .. j - 1 : t[k].dst # v
  <2>1. PICK j \in i + 1 .. Len(t) : v \in Operands(t[j]) /\ \A k \in i + 1 .. j - 1 : t[k].dst # v
    BY <1>2
  <2>2. j \notin i + 1 .. q
    BY <2>1
  <2>3. j \in q + 1 .. Len(t) /\ \A k \in q + 1 .. j - 1 : k \in i + 1 .. j - 1
    BY <1>1, <2>2
  <2> QED BY <2>1, <2>3 DEF LiveAfter
<1>3. CASE v \in lo[b] /\ \A k \in i + 1 .. Len(t) : t[k].dst # v
  <2>1. \A k \in q + 1 .. Len(t) : k \in i + 1 .. Len(t)
    BY <1>1
  <2> QED BY <1>3, <2>1 DEF LiveAfter
<1> QED BY <1>2, <1>3 DEF LiveAfter

(* A register that an instruction uses on its own holds nothing that is    *)
(* live after it.                                                          *)
LEMMA OwnRegisterIsFree ==
  ASSUME NEW p \in Programs, GraphInv(p), stage = "run", PlacesApart(p),
         NEW b \in DOMAIN p.code, NEW i \in 1 .. Len(p.code[b]),
         NEW o \in p.code[b][i].outs, o[1] = o[2],
         NEW u \in Live(p, b, i)
  PROVE  Place(u) # Register(o[1])
<1> DEFINE t == p.code[b]
           r == o[1]
<1>1. PICK m \in i .. Len(t) :
        /\ m > 1 /\ r \in Graph!UsedRegisters(t[m], t[m - 1])
        /\ \A k \in i + 1 .. m - 1 :
             \/ t[k].dst = 0 /\ Operands(t[k]) = {}
             \/ r = RCX /\ k = m - 1 /\ t[k].src2 = 0 /\ Graph!ShiftsMovedValue(t[m], t[k])
  <2>1. IsKnown(t, i)
    BY ProgramIsLegal
  <2> QED BY <2>1 DEF IsKnown
<1>2. Len(t) \in Nat /\ m \in 1 .. Len(t) /\ m \in Int /\ i \in Int
  BY ProgramIsLegal
<1>3. Covered(p, b, m)
  BY <1>2 DEF GraphInv
<1>4. u \in Free /\ r \in 1 .. Reserved
  BY <1>1, RegistersAreReserved DEF Live
<1>5. ASSUME u \in Live(p, b, m) \cup Operands(t[m]) PROVE Place(u) # Register(r)
  <2>1. Graph!Edge(r, u) \in ig
    BY <1>1, <1>3, <1>5 DEF Covered
  <2> QED BY <1>4, <2>1 DEF PlacesApart
<1>6. ASSUME u \in Live(p, b, m - 1) PROVE Place(u) # Register(r)
  <2>1. u \in Live(p, b, m) \cup Operands(t[m])
    BY <1>2, <1>6, LiveBefore
  <2> QED BY <1>5, <2>1
<1>7. CASE m = i
  BY <1>5, <1>7
<1>8. CASE m # i /\ \A k \in i + 1 .. m - 1 : t[k].dst = 0 /\ Operands(t[k]) = {}
  <2>1. m - 1 \in i .. Len(t)
    BY <1>2, <1>8
  <2>2. u \in Live(p, b, m - 1)
    BY <1>8, <2>1, LiveThrough
  <2> QED BY <1>6, <2>2
<1>9. CASE m # i /\ ~(\A k \in i + 1 .. m - 1 : t[k].dst = 0 /\ Operands(t[k]) = {})
  <2>1. /\ r = RCX /\ m - 1 \in i + 1 .. m - 1 /\ t[m - 1].src2 = 0
        /\ Graph!ShiftsMovedValue(t[m], t[m - 1])
    BY <1>1, <1>2, <1>9
  <2>2. \A k \in i + 1 .. m - 2 : k \in i + 1 .. m - 1 /\ k # m - 1
    BY <1>2
  <2>3. \A k \in i + 1 .. m - 2 : t[k].dst = 0 /\ Operands(t[k]) = {}
    BY <1>1, <2>2
  <2>4. m - 2 \in i .. Len(t) /\ m - 1 \in 1 .. Len(t) /\ (m - 1) - 1 = m - 2
    BY <1>2, <2>1
  <2>5. u \in Live(p, b, m - 2)
    BY <2>3, <2>4, LiveThrough
  <2>6. u \in Live(p, b, m - 1) \/ u \in Operands(t[m - 1])
    BY <2>4, <2>5, LiveBefore
  <2>7. CASE u \in Operands(t[m - 1])
    <3>1. u = t[m - 1].src1
      BY <2>1, <2>7 DEF Operands
    <3>2. Graph!Edge(RCX, t[m - 1].src1) \in ig
      BY <1>1, <1>3, <2>1 DEF Covered
    <3> QED BY <1>4, <2>1, <3>1, <3>2 DEF PlacesApart
  <2> QED BY <1>6, <2>6, <2>7
<1> QED BY <1>7, <1>8, <1>9

-----------------------------------------------------------------------------
(* The values that are in place when an instruction runs. *)

(* What the tac k reads from a register is there after the tac a.  The     *)
(* value of a vreg that the next tac reads is there, too.                  *)
Awaited(p, t, k, r, a) ==
  \E j \in 1 .. k - 1 :
    \/ r \in t[j].outs /\ r[1] = r[2] /\ j <= a /\ Untouched(t, r[1], j, k)
    \/ /\ <<r[2], r[1]>> \in ForcedIn(p.code)
       /\ \/ r[2] = t[j].dst /\ j <= a /\ Untouched(t, r[1], j, k)
          \/ r[2] \in Operands(t[j]) /\ j - 1 <= a /\ Untouched(t, r[1], j - 1, k)

AwaitedHeld(p, b, a) ==
  \A k \in a + 1 .. Len(p.code[b]) : \A r \in p.code[b][k].ins :
    Awaited(p, p.code[b], k, r, a) => <<Register(r[1]), r[2]>> \in holds

(* Every vreg but those in V that is live after the tac a is in its place. *)
LiveHeld(p, b, a, V) == \A v \in Live(p, b, a) \ V : <<Place(v), v>> \in holds

(* Before the instruction n of a tac; the last n is behind all of them. *)
HeldAt(p, b, i, n) ==
  LET tac == p.code[b][i]
  IN /\ n <= OpAt(tac) =>
          /\ LiveHeld(p, b, i - 1, {})
          /\ AwaitedHeld(p, b, i - 1)
          /\ Loads1(tac) = 1 /\ n > 1 => <<SpillRegister(tac.src1, 1), tac.src1>> \in holds
          /\ Loads2(tac) = 1 /\ n > Loads1(tac) + 1 =>
               <<SpillRegister(tac.src2, 2), tac.src2>> \in holds
     /\ n > OpAt(tac) =>
          /\ LiveHeld(p, b, i, {tac.dst})
          /\ AwaitedHeld(p, b, i)
          /\ tac.dst # 0 => <<CarriedIn(tac, n), tac.dst>> \in holds

RunInv(p) ==
  stage = "run" =>
    \E b \in DOMAIN p.code : \E i \in 1 .. Len(p.code[b]) : \E n \in 1 .. LengthOf(p.code[b][i]) :
      ip = <<b, i, n>> /\ HeldAt(p, b, i, n)

(* What an instruction does to the places. *)
LEMMA InstructionRuns ==
  ASSUME Run, NEW I, I = Now
  PROVE  /\ \A h \in holds :
              h[2] \notin {w[2] : w \in I.writes} /\ h[1] \notin {w[1] : w \in I.writes} \cup I.to \cup Lost(I)
                => h \in holds'
         /\ I.writes \subseteq holds'
         /\ \A q \in I.to : \A h \in holds :
              h[1] \in I.from /\ h[2] \notin {w[2] : w \in I.writes} => <<q, h[2]>> \in holds'
<1>1. holds' = {h \in holds : h[2] \notin {w[2] : w \in I.writes}
                              /\ h[1] \notin ({w[1] : w \in I.writes} \cup I.to) \cup Lost(I)}
                 \cup I.writes \cup (I.to \X (Moved(I) \ {w[2] : w \in I.writes}))
  BY DEF Run
<1>2. \A h \in holds : h[1] \in I.from => h[2] \in Moved(I)
  BY DEF Moved
<1> QED BY <1>1, <1>2

LEMMA CopyRuns ==
  ASSUME Run, NEW from, NEW to, Now = Copy(from, to)
  PROVE  /\ \A h \in holds : h[1] # to => h \in holds'
         /\ \A v : <<from, v>> \in holds => <<to, v>> \in holds'
<1> DEFINE I == Copy(from, to)
<1>1. I.writes = {} /\ I.to = {to} /\ I.from = {from} /\ I.op = "X_MOV"
  BY DEF Copy
<1>2. Lost(I) = {}
  BY <1>1 DEF Lost
<1> HIDE DEF I
<1>3. /\ \A h \in holds :
           h[2] \notin {w[2] : w \in I.writes} /\ h[1] \notin {w[1] : w \in I.writes} \cup I.to \cup Lost(I)
             => h \in holds'
      /\ \A q \in I.to : \A h \in holds :
           h[1] \in I.from /\ h[2] \notin {w[2] : w \in I.writes} => <<q, h[2]>> \in holds'
  <2>1. I = Now
    BY DEF I
  <2> QED BY <2>1, InstructionRuns
<1>4. ASSUME NEW v, <<from, v>> \in holds PROVE <<to, v>> \in holds'
  <2>1. <<from, v>>[1] = from /\ <<from, v>>[2] = v
    OBVIOUS
  <2> QED BY <1>1, <1>3, <1>4, <2>1
<1> QED BY <1>1, <1>2, <1>3, <1>4

(* What the allocator gave out decides where everything is. *)
LEMMA PlacesStay ==
  ASSUME UNCHANGED <<preg, stackIndex, class>>
  PROVE  /\ \A v : Place(v)' = Place(v)
         /\ \A v, n : SpillRegister(v, n)' = SpillRegister(v, n)
         /\ \A tac : /\ Loads1(tac)' = Loads1(tac) /\ Loads2(tac)' = Loads2(tac)
                     /\ OpAt(tac)' = OpAt(tac) /\ LengthOf(tac)' = LengthOf(tac)
         /\ \A tac, n : CarriedIn(tac, n)' = CarriedIn(tac, n)
<1>1. /\ \A v : Place(v)' = Place(v) /\ OnStack(v)' = OnStack(v) /\ Spilled(v)' = Spilled(v)
      /\ \A v, n : SpillRegister(v, n)' = SpillRegister(v, n)
  BY DEF Place, SpillRegister, OnStack, Spilled
<1>2. \A tac : NeedsNoSpillCode(tac)' = NeedsNoSpillCode(tac)
  BY <1>1 DEF NeedsNoSpillCode
<1>3. \A tac : TwoStores(tac)' = TwoStores(tac)
  BY <1>1, <1>2 DEF TwoStores
<1>4. \A tac : /\ Loads1(tac)' = Loads1(tac) /\ Loads2(tac)' = Loads2(tac)
               /\ Stores(tac)' = Stores(tac)
  BY <1>1, <1>2, <1>3 DEF Loads1, Loads2, Stores
<1>5. \A tac : OpAt(tac)' = OpAt(tac) /\ LengthOf(tac)' = LengthOf(tac)
  BY <1>4 DEF OpAt, LengthOf
<1>6. \A tac, n : CarriedIn(tac, n)' = CarriedIn(tac, n)
  BY <1>1, <1>5 DEF CarriedIn
<1> QED BY <1>1, <1>4, <1>5, <1>6

(* An instruction that runs changes none of it. *)
LEMMA RunKeepsPlaces ==
  ASSUME Run
  PROVE  /\ UNCHANGED <<ig, class, preg, stackIndex, pc, code, succ>>
         /\ \A v : Place(v)' = Place(v)
         /\ \A v, n : SpillRegister(v, n)' = SpillRegister(v, n)
         /\ \A tac : /\ Loads1(tac)' = Loads1(tac) /\ Loads2(tac)' = Loads2(tac)
                     /\ OpAt(tac)' = OpAt(tac) /\ LengthOf(tac)' = LengthOf(tac)
         /\ \A tac, n : CarriedIn(tac, n)' = CarriedIn(tac, n)
<1>1. UNCHANGED <<ig, class, preg, stackIndex, pc, code, succ>>
  BY DEF Run, vars, inputs, program
<1> QED BY <1>1, PlacesStay

(* A load brings an operand to a spill register, and nothing else moves. *)
LEMMA LoadKeepsHeld ==
  ASSUME NEW p \in Programs, PlacesApart(p), Run,
         NEW b \in DOMAIN p.code, NEW i \in 1 .. Len(p.code[b]), NEW n \in 1 .. OpAt(p.code[b][i]) - 1,
         Now = WithSpillCode(p.code[b][i])[n],
         HeldAt(p, b, i, n)
  PROVE  HeldAt(p, b, i, n + 1)'
<1> DEFINE tac == p.code[b][i]
           sp1 == SpillRegister(tac.src1, 1)
           sp2 == SpillRegister(tac.src2, 2)
<1>1. /\ IsSpillCode(tac, WithSpillCode(tac))
      /\ Loads1(tac) \in {0, 1} /\ Loads2(tac) \in {0, 1}
      /\ OpAt(tac) = Loads1(tac) + Loads2(tac) + 1
  BY ProgramIsLegal, SpillCodeOf DEF OpAt
<1>2. /\ LiveHeld(p, b, i - 1, {}) /\ AwaitedHeld(p, b, i - 1)
      /\ Loads1(tac) = 1 /\ n > 1 => <<sp1, tac.src1>> \in holds
      /\ n \in Nat /\ n + 1 <= OpAt(tac) /\ ~(n + 1 > OpAt(tac))
  BY <1>1 DEF HeldAt
<1>3. sp1 # sp2
  BY DEF SpillRegister
<1>4. \A v \in Operands(tac) : <<Place(v), v>> \in holds
  BY <1>2, LiveBefore DEF LiveHeld
<1>5. /\ OnStack(tac.src1) => tac.src1 \in Operands(tac)
      /\ OnStack(tac.src2) => tac.src2 \in Operands(tac)
  BY DEF OnStack, Operands
<1>6. CASE n = 1 /\ Loads1(tac) = 1
  <2>1. Now = Copy(Place(tac.src1), sp1) /\ OnStack(tac.src1)
    BY <1>1, <1>6 DEF IsSpillCode
  <2> HIDE DEF sp1, sp2
  <2>2. <<Place(tac.src1), tac.src1>> \in holds
    BY <1>4, <1>5, <2>1
  <2>3. <<sp1, tac.src1>> \in holds' /\ \A h \in holds : h[1] # sp1 => h \in holds'
    BY <2>1, <2>2, CopyRuns
  <2>4. LiveHeld(p, b, i - 1, {})' /\ AwaitedHeld(p, b, i - 1)'
    BY <1>2, <2>3, RunKeepsPlaces DEF LiveHeld, AwaitedHeld, PlacesApart, sp1
  <2>5. ~(n + 1 > Loads1(tac) + 1)
    BY <1>6
  <2> QED BY <1>2, <2>3, <2>4, <2>5, RunKeepsPlaces DEF HeldAt, sp1, sp2
<1>7. CASE ~(n = 1 /\ Loads1(tac) = 1)
  <2>1. Loads2(tac) = 1 /\ n = Loads1(tac) + 1
    BY <1>1, <1>2, <1>7
  <2>2. Now = Copy(Place(tac.src2), sp2) /\ OnStack(tac.src2)
    BY <1>1, <2>1 DEF IsSpillCode
  <2> HIDE DEF sp1, sp2
  <2>3. <<Place(tac.src2), tac.src2>> \in holds
    BY <1>4, <1>5, <2>2
  <2>4. <<sp2, tac.src2>> \in holds' /\ \A h \in holds : h[1] # sp2 => h \in holds'
    BY <2>2, <2>3, CopyRuns
  <2>5. LiveHeld(p, b, i - 1, {})' /\ AwaitedHeld(p, b, i - 1)'
    BY <1>2, <2>4, RunKeepsPlaces DEF LiveHeld, AwaitedHeld, PlacesApart, sp2
  <2>6. Loads1(tac) = 1 => <<sp1, tac.src1>> \in holds'
    <3>1. Loads1(tac) = 1 => n > 1
      BY <1>2, <1>7
    <3> QED BY <1>2, <1>3, <2>4, <3>1
  <2> QED BY <1>2, <2>4, <2>5, <2>6, RunKeepsPlaces DEF HeldAt, sp1, sp2
<1> QED BY <1>6, <1>7

(* A store brings the result nearer to its slot. *)
LEMMA StoreKeepsHeld ==
  ASSUME NEW p \in Programs, PlacesApart(p), Run,
         NEW b \in DOMAIN p.code, NEW i \in 1 .. Len(p.code[b]),
         NEW n \in OpAt(p.code[b][i]) + 1 .. LengthOf(p.code[b][i]),
         Now = WithSpillCode(p.code[b][i])[n],
         HeldAt(p, b, i, n)
  PROVE  HeldAt(p, b, i, n + 1)'
<1> DEFINE tac == p.code[b][i]
           from == CarriedIn(tac, n)
           to == CarriedIn(tac, n + 1)
<1>1. /\ IsTac(p, tac)
      /\ IsSpillCode(tac, WithSpillCode(tac))
      /\ OpAt(tac) \in Nat /\ LengthOf(tac) \in Nat
  BY ProgramIsLegal, SpillCodeOf
<1>2. Now = Copy(from, to) /\ OnStack(tac.dst)
  BY <1>1 DEF IsSpillCode
<1>3. /\ LiveHeld(p, b, i, {tac.dst}) /\ AwaitedHeld(p, b, i)
      /\ <<from, tac.dst>> \in holds
      /\ n + 1 > OpAt(tac) /\ ~(n + 1 <= OpAt(tac))
  BY <1>1, <1>2 DEF HeldAt, OnStack
<1>4. tac.dst \in Free /\ Spilled(tac.dst)
  BY <1>1, <1>2 DEF OnStack, IsTac
<1>5. to = Place(tac.dst) \/ \E k : to = SpillRegister(tac.dst, k)
  BY DEF CarriedIn
<1>6. \A u \in Free : u # tac.dst => Place(u) # to
  BY <1>4, <1>5 DEF PlacesApart
<1>7. \A r : Register(r) # to
  BY <1>4, <1>5 DEF PlacesApart
<1> HIDE DEF from, to
<1>8. <<to, tac.dst>> \in holds' /\ \A h \in holds : h[1] # to => h \in holds'
  BY <1>2, <1>3, CopyRuns
<1>9. LiveHeld(p, b, i, {tac.dst})'
  <2>1. \A u \in Live(p, b, i) : u \in Free
    BY DEF Live
  <2> QED BY <1>3, <1>6, <1>8, <2>1, RunKeepsPlaces DEF LiveHeld
<1>10. AwaitedHeld(p, b, i)'
  BY <1>3, <1>7, <1>8 DEF AwaitedHeld
<1> QED BY <1>3, <1>8, <1>9, <1>10, RunKeepsPlaces DEF HeldAt, to

(* The values an operation reads are in place. *)
LEMMA OperandsAreHeld ==
  ASSUME NEW p \in Programs,
         NEW b \in DOMAIN p.code, NEW i \in 1 .. Len(p.code[b]),
         HeldAt(p, b, i, OpAt(p.code[b][i])),
         NEW I, IsOp(p.code[b][i], I)
  PROVE  /\ I.reads \subseteq holds
         /\ p.code[b][i].src1 # 0 => <<FirstPlace(p.code[b][i]), p.code[b][i].src1>> \in holds
<1> DEFINE tac == p.code[b][i]
           t == p.code[b]
<1>1. /\ Loads1(tac) \in {0, 1} /\ Loads2(tac) \in {0, 1} /\ OpAt(tac) = Loads1(tac) + Loads2(tac) + 1
      /\ IsFed(p, t, i) /\ Len(t) \in Nat
  BY ProgramIsLegal DEF Loads1, Loads2, OpAt
<1>2. /\ LiveHeld(p, b, i - 1, {}) /\ AwaitedHeld(p, b, i - 1)
      /\ Loads1(tac) = 1 => <<SpillRegister(tac.src1, 1), tac.src1>> \in holds
      /\ Loads2(tac) = 1 => <<SpillRegister(tac.src2, 2), tac.src2>> \in holds
  BY <1>1 DEF HeldAt
<1>3. \A v \in Operands(tac) : <<Place(v), v>> \in holds
  BY <1>2, LiveBefore DEF LiveHeld
<1>4. tac.src1 # 0 => <<FirstPlace(tac), tac.src1>> \in holds
  BY <1>2, <1>3 DEF FirstPlace, Operands
<1>5. tac.src2 # 0 => <<SecondPlace(tac), tac.src2>> \in holds
  BY <1>2, <1>3 DEF SecondPlace, Operands
<1>6. ASSUME NEW r \in tac.ins PROVE <<Register(r[1]), r[2]>> \in holds
  <2>1. Awaited(p, t, i, r, i - 1)
    <3>1. \E j \in 1 .. i - 1 :
             \/ r \in t[j].outs /\ r[1] = r[2] /\ Untouched(t, r[1], j, i)
             \/ /\ <<r[2], r[1]>> \in ForcedIn(p.code)
                /\ \/ r[2] = t[j].dst /\ Untouched(t, r[1], j, i)
                   \/ r[2] \in Operands(t[j]) /\ Untouched(t, r[1], j - 1, i)
      BY <1>1 DEF IsFed
    <3>2. \A j \in 1 .. i - 1 : j <= i - 1 /\ j - 1 <= i - 1
      OBVIOUS
    <3> QED BY <3>1, <3>2 DEF Awaited
  <2>2. i \in (i - 1) + 1 .. Len(t)
    BY <1>1
  <2> QED BY <1>2, <2>1, <2>2 DEF AwaitedHeld
<1> QED BY <1>4, <1>5, <1>6 DEF IsOp

(* What an operation writes: its dst where that is expected, or registers  *)
(* that it uses on its own.                                                *)
Writes(tac, I) ==
  LET d == CarriedIn(tac, OpAt(tac) + 1)
  IN /\ tac.dst # 0 => I.writes = {<<d, tac.dst>>}
     /\ tac.dst = 0 => I.writes = {<<Register(o[1]), o[1]>> : o \in tac.outs}
     /\ \A o \in tac.outs : o[1] \in 1 .. Reserved /\ (tac.dst = 0 => o[2] = o[1])
     /\ \A o \in tac.outs : <<Register(o[1]), o[2]>> \in I.writes
     /\ tac.dst # 0 /\ ~Spilled(tac.dst) => d = Place(tac.dst)

LEMMA OperationWrites ==
  ASSUME NEW p \in Programs, PlacesApart(p),
         NEW b \in DOMAIN p.code, NEW i \in 1 .. Len(p.code[b]),
         NEW I, IsOp(p.code[b][i], I)
  PROVE  Writes(p.code[b][i], I)
<1> DEFINE tac == p.code[b][i]
           d == CarriedIn(tac, OpAt(tac) + 1)
<1>1. /\ IsTac(p, tac) /\ OpAt(tac) \in Nat
  BY ProgramIsLegal, SpillCodeOf
<1>2. I.writes = {<<d, v>> : v \in Graph!Dst(tac) \ {o[2] : o \in tac.outs}}
                   \cup {<<Register(o[1]), o[2]>> : o \in tac.outs}
  BY DEF IsOp
<1>3. \A o \in tac.outs :
        /\ o[1] \in 1 .. Reserved
        /\ IF tac.dst = 0 THEN o[2] = o[1] ELSE o[2] = tac.dst /\ <<tac.dst, o[1]>> \in tac.forced
  BY <1>1 DEF IsTac
<1>4. ASSUME ~Spilled(tac.dst) PROVE d = Place(tac.dst)
  <2>1. Stores(tac) = 0
    BY <1>4 DEF Stores, OnStack
  <2>2. LengthOf(tac) = OpAt(tac)
    BY <1>1, <2>1 DEF LengthOf
  <2> QED BY <2>2 DEF CarriedIn
<1>5. ASSUME tac.dst # 0, NEW o \in tac.outs PROVE o[2] = tac.dst /\ Register(o[1]) = d
  <2>1. o[2] = tac.dst /\ <<tac.dst, o[1]>> \in tac.forced
    BY <1>3, <1>5
  <2>2. <<tac.dst, o[1]>> \in ForcedIn(p.code)
    BY <2>1 DEF ForcedIn
  <2>3. Place(<<tac.dst, o[1]>>[1]) = Register(<<tac.dst, o[1]>>[2]) /\ ~Spilled(<<tac.dst, o[1]>>[1])
    BY <2>2 DEF PlacesApart
  <2> QED BY <1>4, <2>1, <2>3
<1> HIDE DEF d
<1>6. ASSUME tac.dst # 0 PROVE I.writes = {<<d, tac.dst>>}
  <2>1. Graph!Dst(tac) = {tac.dst}
    BY <1>6 DEF Graph!Dst
  <2>2. CASE tac.outs = {}
    BY <1>2, <2>1, <2>2
  <2>3. CASE tac.outs # {}
    <3>1. {o[2] : o \in tac.outs} = {tac.dst}
      BY <1>5, <1>6, <2>3
    <3>2. {<<Register(o[1]), o[2]>> : o \in tac.outs} = {<<d, tac.dst>>}
      BY <1>5, <1>6, <2>3
    <3> QED BY <1>2, <2>1, <3>1, <3>2
  <2> QED BY <2>2, <2>3
<1>7. ASSUME tac.dst = 0 PROVE I.writes = {<<Register(o[1]), o[1]>> : o \in tac.outs}
  <2>1. Graph!Dst(tac) = {}
    BY <1>7 DEF Graph!Dst
  <2>2. {<<Register(o[1]), o[2]>> : o \in tac.outs} = {<<Register(o[1]), o[1]>> : o \in tac.outs}
    BY <1>3, <1>7
  <2> QED BY <1>2, <2>1, <2>2
<1>8. \A o \in tac.outs : <<Register(o[1]), o[2]>> \in I.writes
  BY <1>2
<1> QED BY <1>3, <1>4, <1>6, <1>7, <1>8 DEF d, Writes

(* An operation leaves what lives on in place. *)
LEMMA OperationKeepsLive ==
  ASSUME NEW p \in Programs, GraphInv(p), stage = "run", PlacesApart(p), Run,
         NEW b \in DOMAIN p.code, NEW i \in 1 .. Len(p.code[b]),
         NEW I, I = Now, IsOp(p.code[b][i], I),
         HeldAt(p, b, i, OpAt(p.code[b][i])),
         NEW u \in Live(p, b, i) \ {p.code[b][i].dst}
  PROVE  <<Place(u), u>> \in holds'
<1> DEFINE tac == p.code[b][i]
           d == CarriedIn(tac, OpAt(tac) + 1)
           h == <<Place(u), u>>
<1>1. /\ IsTac(p, tac) /\ Covered(p, b, i) /\ OpAt(tac) \in Nat
      /\ u \in Free
  BY ProgramIsLegal, SpillCodeOf DEF GraphInv, Live
<1>2. h \in holds
  <2>1. LiveHeld(p, b, i - 1, {})
    BY <1>1 DEF HeldAt
  <2>2. u \in Live(p, b, i - 1)
    BY LiveBefore
  <2> QED BY <2>1, <2>2 DEF LiveHeld
<1>3. /\ \A g \in holds :
           g[2] \notin {w[2] : w \in I.writes} /\ g[1] \notin {w[1] : w \in I.writes} \cup I.to \cup Lost(I)
             => g \in holds'
      /\ \A q \in I.to : \A g \in holds :
           g[1] \in I.from /\ g[2] \notin {w[2] : w \in I.writes} => <<q, g[2]>> \in holds'
  BY InstructionRuns
<1>4. Place(u) \notin Lost(I)
  <2>1. CASE I.op = "X_CALL"
    <3>1. tac.op = "X_CALL"
      BY <2>1 DEF IsOp
    <3> QED BY <2>1, <3>1, LiveSurvivesCall DEF Lost
  <2>2. CASE I.op # "X_CALL"
    BY <2>2 DEF Lost
  <2> QED BY <2>1, <2>2
<1>5. I.to \subseteq {w[1] : w \in I.writes}
  BY DEF IsOp
<1>6. /\ tac.dst # 0 => I.writes = {<<d, tac.dst>>}
      /\ tac.dst = 0 => I.writes = {<<Register(o[1]), o[1]>> : o \in tac.outs}
      /\ \A o \in tac.outs : o[1] \in 1 .. Reserved /\ (tac.dst = 0 => o[2] = o[1])
  <2>1. Writes(tac, I)
    BY OperationWrites
  <2> QED BY <2>1 DEF Writes
<1> HIDE DEF d
<1>7. CASE tac.dst # 0
  <2>1. {w[2] : w \in I.writes} = {tac.dst} /\ {w[1] : w \in I.writes} = {d}
    <3>1. I.writes = {<<d, tac.dst>>}
      BY <1>6, <1>7
    <3>2. {w[2] : w \in {<<d, tac.dst>>}} = {tac.dst} /\ {w[1] : w \in {<<d, tac.dst>>}} = {d}
      OBVIOUS
    <3> QED BY <3>1, <3>2
  <2>2. CASE Place(u) # d
    BY <1>2, <1>3, <1>4, <1>5, <2>1, <2>2
  <2>3. CASE Place(u) = d
    <3>1. d = Place(tac.dst)
      BY <2>3 DEF CarriedIn, PlacesApart, d
    <3>2. tac.dst \in Free
      BY <1>1, <1>7 DEF IsTac
    <3>3. class[u] = class[tac.dst] /\ Graph!Edge(tac.dst, u) \notin ig
      BY <1>1, <2>3, <3>1, <3>2 DEF PlacesApart
    <3>4. u \in Graph!Copied(tac)
      BY <1>1, <1>7, <3>3 DEF Covered
    <3>5. tac.op \in Graph!Moves /\ u = tac.src1 /\ u # 0
      <4>1. u # 0
        BY <1>1, CountAssumption DEF Free, Reserved
      <4> QED BY <3>4, <4>1 DEF Graph!Copied
    <3>6. I.to = {d} /\ FirstPlace(tac) \in I.from
      BY <2>1, <3>5 DEF IsOp
    <3>7. <<FirstPlace(tac), u>> \in holds
      BY <3>5, OperandsAreHeld
    <3>8. <<d, u>> \in holds'
      <4>0. d \in I.to
        BY <3>6
      <4> DEFINE g == <<FirstPlace(tac), u>>
      <4>1. g[1] = FirstPlace(tac) /\ g[2] = u /\ u # tac.dst
        OBVIOUS
      <4> HIDE DEF g
      <4> QED BY <1>3, <2>1, <3>6, <3>7, <4>0, <4>1 DEF g
    <3> QED BY <2>3, <3>8
  <2> QED BY <2>2, <2>3
<1>8. CASE tac.dst = 0
  <2>1. u \notin {w[2] : w \in I.writes}
    <3>1. \A w \in I.writes : w[2] \in 1 .. Reserved
      BY <1>6, <1>8
    <3> QED BY <1>1, <3>1, CountAssumption DEF Free, Reserved
  <2>2. Place(u) \notin {w[1] : w \in I.writes}
    <3>1. \A o \in tac.outs : Place(u) # Register(o[1])
      BY <1>6, <1>8, OwnRegisterIsFree
    <3> QED BY <1>6, <1>8, <3>1
  <2> QED BY <1>2, <1>3, <1>4, <1>5, <2>1, <2>2
<1> QED BY <1>7, <1>8

(* And what it wrote is where it is expected. *)
LEMMA OperationDelivers ==
  ASSUME NEW p \in Programs, PlacesApart(p), Run,
         NEW b \in DOMAIN p.code, NEW i \in 1 .. Len(p.code[b]),
         NEW I, I = Now, IsOp(p.code[b][i], I)
  PROVE  LET tac == p.code[b][i]
         IN /\ tac.dst # 0 => <<CarriedIn(tac, OpAt(tac) + 1), tac.dst>> \in holds'
            /\ tac.dst # 0 /\ ~Spilled(tac.dst) => <<Place(tac.dst), tac.dst>> \in holds'
            /\ \A o \in tac.outs : <<Register(o[1]), o[2]>> \in holds'
<1>1. I.writes \subseteq holds'
  BY InstructionRuns
<1>2. Writes(p.code[b][i], I)
  BY OperationWrites
<1> QED BY <1>1, <1>2 DEF Writes

(* What is awaited behind a tac was already awaited before it and is not   *)
(* touched by it, or the tac puts it where it is awaited, or it is the     *)
(* value of a vreg that the next tac reads.                                *)
LEMMA AwaitedSince ==
  ASSUME NEW p, NEW t, NEW k \in Nat, NEW i \in Nat \ {0}, i < k, NEW r, Awaited(p, t, k, r, i)
  PROVE  \/ /\ Awaited(p, t, k, r, i - 1)
            /\ t[i].op # "X_CALL"
            /\ r[1] \notin {o[1] : o \in t[i].outs}
            /\ t[i].dst # 0 => r[1] = RCX /\ Graph!ShiftsMovedValue(t[i + 1], t[i])
            /\ r[1] = r[2] \/ <<r[2], r[1]>> \in ForcedIn(p.code)
         \/ r \in t[i].outs
         \/ <<r[2], r[1]>> \in ForcedIn(p.code) /\ r[2] = t[i].dst
         \/ <<r[2], r[1]>> \in ForcedIn(p.code) /\ r[2] \in Operands(t[i + 1])
<1>1. PICK j \in 1 .. k - 1 :
        \/ r \in t[j].outs /\ r[1] = r[2] /\ j <= i /\ Untouched(t, r[1], j, k)
        \/ <<r[2], r[1]>> \in ForcedIn(p.code) /\ r[2] = t[j].dst /\ j <= i /\ Untouched(t, r[1], j, k)
        \/ /\ <<r[2], r[1]>> \in ForcedIn(p.code)
           /\ r[2] \in Operands(t[j]) /\ j - 1 <= i /\ Untouched(t, r[1], j - 1, k)
  BY DEF Awaited
<1>2. ASSUME NEW s \in Int, s < i, Untouched(t, r[1], s, k)
      PROVE  /\ t[i].op # "X_CALL"
             /\ r[1] \notin {o[1] : o \in t[i].outs}
             /\ t[i].dst # 0 => r[1] = RCX /\ Graph!ShiftsMovedValue(t[i + 1], t[i])
  <2>1. i \in s + 1 .. k - 1
    BY <1>2
  <2> QED BY <1>2, <2>1 DEF Untouched
<1>3. CASE r \in t[j].outs /\ r[1] = r[2] /\ j <= i /\ Untouched(t, r[1], j, k)
  <2>1. CASE j = i
    BY <1>3, <2>1
  <2>2. CASE j # i
    <3>1. j < i /\ j <= i - 1
      BY <1>3, <2>2
    <3> QED BY <1>2, <1>3, <3>1 DEF Awaited
  <2> QED BY <2>1, <2>2
<1>4. CASE <<r[2], r[1]>> \in ForcedIn(p.code) /\ r[2] = t[j].dst /\ j <= i /\ Untouched(t, r[1], j, k)
  <2>1. CASE j = i
    BY <1>4, <2>1
  <2>2. CASE j # i
    <3>1. j < i /\ j <= i - 1
      BY <1>4, <2>2
    <3> QED BY <1>2, <1>4, <3>1 DEF Awaited
  <2> QED BY <2>1, <2>2
<1>5. CASE /\ <<r[2], r[1]>> \in ForcedIn(p.code)
           /\ r[2] \in Operands(t[j]) /\ j - 1 <= i /\ Untouched(t, r[1], j - 1, k)
  <2>1. CASE j - 1 = i
    <3>1. j = i + 1
      BY <2>1
    <3> QED BY <1>5, <3>1
  <2>2. CASE j - 1 # i
    <3>1. j - 1 < i /\ j - 1 <= i - 1 /\ j - 1 \in Int
      BY <1>5, <2>2
    <3> QED BY <1>2, <1>5, <3>1 DEF Awaited
  <2> QED BY <2>1, <2>2
<1> QED BY <1>1, <1>3, <1>4, <1>5

LEMMA OperationKeepsAwaited ==
  ASSUME NEW p \in Programs, GraphInv(p), stage = "run", PlacesApart(p), Run,
         NEW b \in DOMAIN p.code, NEW i \in 1 .. Len(p.code[b]),
         NEW I, I = Now, IsOp(p.code[b][i], I),
         HeldAt(p, b, i, OpAt(p.code[b][i])),
         NEW k \in i + 1 .. Len(p.code[b]), NEW r \in p.code[b][k].ins,
         Awaited(p, p.code[b], k, r, i)
  PROVE  <<Register(r[1]), r[2]>> \in holds'
<1> DEFINE tac == p.code[b][i]
           t == p.code[b]
           d == CarriedIn(tac, OpAt(tac) + 1)
           h == <<Register(r[1]), r[2]>>
<1>1. /\ Len(t) \in Nat /\ OpAt(tac) \in Nat /\ IsTac(p, tac)
      /\ k \in 1 .. Len(t) /\ k \in Nat /\ i \in Nat \ {0} /\ i < k /\ i + 1 \in 1 .. Len(t)
  BY ProgramIsLegal, SpillCodeOf
<1>2. r[1] \in 1 .. Reserved
  <2>1. IsFed(p, t, k)
    BY <1>1, ProgramIsLegal
  <2> QED BY <2>1 DEF IsFed
<1>3. ASSUME <<r[2], r[1]>> \in ForcedIn(p.code)
      PROVE  Place(r[2]) = Register(r[1]) /\ ~Spilled(r[2]) /\ r[2] \in Free
  <2>1. Place(<<r[2], r[1]>>[1]) = Register(<<r[2], r[1]>>[2]) /\ ~Spilled(<<r[2], r[1]>>[1])
    BY <1>3 DEF PlacesApart
  <2>2. PICK e \in DOMAIN p.code : \E m \in 1 .. Len(p.code[e]) : <<r[2], r[1]>> \in p.code[e][m].forced
    BY <1>3 DEF ForcedIn
  <2>3. <<r[2], r[1]>>[1] \in Free
    BY <2>2, ProgramIsLegal DEF IsTac
  <2> QED BY <2>1, <2>3
<1>4. CASE r \in tac.outs
  BY <1>4, OperationDelivers
<1>5. CASE <<r[2], r[1]>> \in ForcedIn(p.code) /\ r[2] = tac.dst
  <2>1. tac.dst # 0
    BY <1>3, <1>5, CountAssumption DEF Free, Reserved
  <2> QED BY <1>3, <1>5, <2>1, OperationDelivers
<1>6. CASE <<r[2], r[1]>> \in ForcedIn(p.code) /\ r[2] \in Operands(t[i + 1]) /\ r[2] # tac.dst
  <2>1. Operands(t[i + 1]) \subseteq Live(p, b, (i + 1) - 1) /\ (i + 1) - 1 = i
    BY <1>1, LiveBefore
  <2>2. r[2] \in Live(p, b, i) \ {tac.dst}
    BY <1>6, <2>1
  <2>3. <<Place(r[2]), r[2]>> \in holds'
    BY <2>2, OperationKeepsLive
  <2> QED BY <1>3, <1>6, <2>3
<1>7. CASE /\ Awaited(p, t, k, r, i - 1)
           /\ tac.op # "X_CALL"
           /\ r[1] \notin {o[1] : o \in tac.outs}
           /\ tac.dst # 0 => r[1] = RCX /\ Graph!ShiftsMovedValue(t[i + 1], tac)
           /\ r[1] = r[2] \/ <<r[2], r[1]>> \in ForcedIn(p.code)
  <2>1. h \in holds
    <3>1. AwaitedHeld(p, b, i - 1)
      BY <1>1 DEF HeldAt
    <3>2. k \in (i - 1) + 1 .. Len(t)
      BY <1>1
    <3> QED BY <1>7, <3>1, <3>2 DEF AwaitedHeld
  <2>2. /\ \A g \in holds :
             g[2] \notin {w[2] : w \in I.writes} /\ g[1] \notin {w[1] : w \in I.writes} \cup I.to \cup Lost(I)
               => g \in holds'
    BY InstructionRuns
  <2>3. I.to \subseteq {w[1] : w \in I.writes} /\ Lost(I) = {}
    BY <1>7 DEF IsOp, Lost
  <2>4. /\ tac.dst # 0 => I.writes = {<<d, tac.dst>>}
        /\ tac.dst = 0 => I.writes = {<<Register(o[1]), o[1]>> : o \in tac.outs}
        /\ \A o \in tac.outs : o[1] \in 1 .. Reserved
        /\ d = Place(tac.dst) \/ \E n : d = SpillRegister(tac.dst, n)
    <3>1. d = Place(tac.dst) \/ \E n : d = SpillRegister(tac.dst, n)
      BY DEF CarriedIn
    <3>2. Writes(tac, I)
      BY OperationWrites
    <3> QED BY <3>1, <3>2 DEF Writes
  <2>5. ASSUME tac.dst # 0 PROVE Register(r[1]) # d /\ r[2] # tac.dst
    <3>1. Covered(p, b, i + 1) /\ (i + 1) - 1 = i /\ i + 1 > 1
      BY <1>1 DEF GraphInv
    <3>2. Graph!Edge(RCX, tac.dst) \in ig
      BY <1>7, <2>5, <3>1 DEF Covered
    <3>3. tac.dst \in Free
      BY <1>1, <2>5 DEF IsTac
    <3>4. Place(tac.dst) # Register(r[1])
      BY <1>2, <1>7, <2>5, <3>2, <3>3 DEF PlacesApart
    <3>5. Register(r[1]) # d
      BY <2>4, <3>4 DEF PlacesApart
    <3>6. CASE r[1] = r[2]
      BY <1>2, <3>3, <3>5, <3>6, CountAssumption DEF Free, Reserved
    <3>7. CASE <<r[2], r[1]>> \in ForcedIn(p.code)
      BY <1>3, <3>4, <3>5, <3>7
    <3> QED BY <1>7, <3>6, <3>7
  <2>6. ASSUME tac.dst = 0, NEW o \in tac.outs PROVE Register(r[1]) # Register(o[1]) /\ r[2] # o[1]
    <3>1. o[1] # r[1] /\ o[1] \in 1 .. Reserved
      BY <1>7, <2>4
    <3>2. Register(r[1]) # Register(o[1])
      BY <1>2, <3>1 DEF PlacesApart
    <3>3. r[2] # o[1]
      <4>1. r[2] \in Free => r[2] # o[1]
        BY <3>1, CountAssumption DEF Free, Reserved
      <4> QED BY <1>3, <1>7, <3>1, <4>1
    <3> QED BY <3>2, <3>3
  <2> HIDE DEF d
  <2>7. r[2] \notin {w[2] : w \in I.writes} /\ Register(r[1]) \notin {w[1] : w \in I.writes}
    <3>1. CASE tac.dst # 0
      <4>1. \A w \in I.writes : w = <<d, tac.dst>>
        BY <2>4, <3>1
      <4> QED BY <2>5, <3>1, <4>1
    <3>2. CASE tac.dst = 0
      <4>1. \A w \in I.writes : \E o \in tac.outs : w = <<Register(o[1]), o[1]>>
        BY <2>4, <3>2
      <4> QED BY <2>6, <3>2, <4>1
    <3> QED BY <3>1, <3>2
  <2>8. h[1] = Register(r[1]) /\ h[2] = r[2]
    OBVIOUS
  <2> HIDE DEF h
  <2>9. h \in holds'
    BY <2>1, <2>2, <2>3, <2>7, <2>8
  <2> QED BY <2>9 DEF h
<1>8. \/ /\ Awaited(p, t, k, r, i - 1)
         /\ tac.op # "X_CALL"
         /\ r[1] \notin {o[1] : o \in tac.outs}
         /\ tac.dst # 0 => r[1] = RCX /\ Graph!ShiftsMovedValue(t[i + 1], tac)
         /\ r[1] = r[2] \/ <<r[2], r[1]>> \in ForcedIn(p.code)
      \/ r \in tac.outs
      \/ <<r[2], r[1]>> \in ForcedIn(p.code) /\ r[2] = tac.dst
      \/ <<r[2], r[1]>> \in ForcedIn(p.code) /\ r[2] \in Operands(t[i + 1])
  BY <1>1, AwaitedSince
<1> QED BY <1>4, <1>5, <1>6, <1>7, <1>8

LEMMA OperationKeepsHeld ==
  ASSUME NEW p \in Programs, GraphInv(p), stage = "run", PlacesApart(p), Run,
         NEW b \in DOMAIN p.code, NEW i \in 1 .. Len(p.code[b]),
         Now = WithSpillCode(p.code[b][i])[OpAt(p.code[b][i])],
         HeldAt(p, b, i, OpAt(p.code[b][i]))
  PROVE  LET n == OpAt(p.code[b][i]) + 1
         IN  \A m : m = n => HeldAt(p, b, i, m)'
<1> DEFINE tac == p.code[b][i]
           I == Now
<1> SUFFICES ASSUME NEW m, m = OpAt(tac) + 1 PROVE HeldAt(p, b, i, m)'
  OBVIOUS
<1>1. IsTac(p, tac) /\ OpAt(tac) \in Nat /\ IsOp(tac, I)
  BY ProgramIsLegal, SpillCodeOf DEF IsSpillCode
<1> HIDE DEF I
<1>2. \A u \in Live(p, b, i) \ {tac.dst} : <<Place(u), u>> \in holds'
  <2> SUFFICES ASSUME NEW u \in Live(p, b, i) \ {tac.dst} PROVE <<Place(u), u>> \in holds'
    OBVIOUS
  <2> QED BY <1>1, OperationKeepsLive DEF I
<1>3. \A k \in i + 1 .. Len(p.code[b]) : \A r \in p.code[b][k].ins :
         Awaited(p, p.code[b], k, r, i) => <<Register(r[1]), r[2]>> \in holds'
  <2> SUFFICES ASSUME NEW k \in i + 1 .. Len(p.code[b]), NEW r \in p.code[b][k].ins,
                      Awaited(p, p.code[b], k, r, i)
               PROVE  <<Register(r[1]), r[2]>> \in holds'
    OBVIOUS
  <2> QED BY <1>1, OperationKeepsAwaited DEF I
<1>4. tac.dst # 0 => <<CarriedIn(tac, m), tac.dst>> \in holds'
  BY <1>1, OperationDelivers DEF I
<1>5. LiveHeld(p, b, i, {tac.dst})' /\ AwaitedHeld(p, b, i)'
  BY <1>2, <1>3, RunKeepsPlaces DEF LiveHeld, AwaitedHeld
<1>6. m > OpAt(tac) /\ ~(m <= OpAt(tac))
  BY <1>1
<1> QED BY <1>4, <1>5, <1>6, RunKeepsPlaces DEF HeldAt

LEMMA InstructionKeepsHeld ==
  ASSUME NEW p \in Programs, GraphInv(p), stage = "run", PlacesApart(p), Run,
         NEW b \in DOMAIN p.code, NEW i \in 1 .. Len(p.code[b]),
         NEW n \in 1 .. LengthOf(p.code[b][i]),
         Now = WithSpillCode(p.code[b][i])[n],
         HeldAt(p, b, i, n)
  PROVE  HeldAt(p, b, i, n + 1)'
<1> DEFINE tac == p.code[b][i]
<1>1. OpAt(tac) \in Nat /\ LengthOf(tac) \in Nat
  BY ProgramIsLegal, SpillCodeOf
<1>2. CASE n < OpAt(tac)
  <2>1. n \in 1 .. OpAt(tac) - 1
    BY <1>1, <1>2
  <2> QED BY <2>1, LoadKeepsHeld
<1>3. CASE n = OpAt(tac)
  <2>1. \A m : m = OpAt(tac) + 1 => HeldAt(p, b, i, m)'
    BY <1>3, OperationKeepsHeld
  <2> QED BY <1>3, <2>1
<1>4. CASE n > OpAt(tac)
  <2>1. n \in OpAt(tac) + 1 .. LengthOf(tac)
    BY <1>1, <1>4
  <2> QED BY <2>1, StoreKeepsHeld
<1> QED BY <1>1, <1>2, <1>3, <1>4

(* Behind the last instruction of a tac, all that is live is in its place. *)
LEMMA HeldBehind ==
  ASSUME NEW p \in Programs,
         NEW b \in DOMAIN p.code, NEW i \in 1 .. Len(p.code[b]),
         HeldAt(p, b, i, LengthOf(p.code[b][i]) + 1)
  PROVE  LiveHeld(p, b, i, {}) /\ AwaitedHeld(p, b, i)
<1> DEFINE tac == p.code[b][i]
<1>1. OpAt(tac) \in Nat /\ LengthOf(tac) \in Nat /\ OpAt(tac) <= LengthOf(tac)
  BY ProgramIsLegal, SpillCodeOf
<1>2. /\ LiveHeld(p, b, i, {tac.dst}) /\ AwaitedHeld(p, b, i)
      /\ tac.dst # 0 => <<CarriedIn(tac, LengthOf(tac) + 1), tac.dst>> \in holds
  BY <1>1 DEF HeldAt
<1>3. CarriedIn(tac, LengthOf(tac) + 1) = Place(tac.dst)
  BY DEF CarriedIn
<1>4. 0 \notin Live(p, b, i)
  BY CountAssumption DEF Live, Free, Reserved
<1> QED BY <1>2, <1>3, <1>4 DEF LiveHeld

(* Where a block begins nothing is awaited but the values of vregs that    *)
(* its first tac reads.                                                    *)
LEMMA AwaitedAtBegin ==
  ASSUME NEW p \in Programs, PlacesApart(p), NEW b \in DOMAIN p.code, LiveHeld(p, b, 0, {})
  PROVE  AwaitedHeld(p, b, 0)
<1> SUFFICES ASSUME NEW k \in 0 + 1 .. Len(p.code[b]), NEW r \in p.code[b][k].ins,
                    Awaited(p, p.code[b], k, r, 0)
             PROVE  <<Register(r[1]), r[2]>> \in holds
  BY DEF AwaitedHeld
<1>1. PICK j \in 1 .. k - 1 : /\ <<r[2], r[1]>> \in ForcedIn(p.code)
                              /\ r[2] \in Operands(p.code[b][j]) /\ j - 1 <= 0
  BY DEF Awaited
<1>2. j = 1 /\ 1 \in 1 .. Len(p.code[b]) /\ 1 - 1 = 0
  BY <1>1, ProgramIsLegal
<1>3. r[2] \in Live(p, b, 0)
  BY <1>1, <1>2, LiveBefore
<1>4. Place(<<r[2], r[1]>>[1]) = Register(<<r[2], r[1]>>[2])
  BY <1>1 DEF PlacesApart
<1> QED BY <1>3, <1>4 DEF LiveHeld

LEMMA HeldAtBegin ==
  ASSUME NEW p \in Programs,
         NEW b \in DOMAIN p.code, NEW i \in 1 .. Len(p.code[b]),
         LiveHeld(p, b, i - 1, {}), AwaitedHeld(p, b, i - 1)
  PROVE  HeldAt(p, b, i, 1)
<1> DEFINE tac == p.code[b][i]
<1>1. /\ OpAt(tac) \in Nat \ {0} /\ LengthOf(tac) \in Nat /\ OpAt(tac) <= LengthOf(tac)
      /\ Loads1(tac) \in {0, 1}
  BY ProgramIsLegal, SpillCodeOf
<1> QED BY <1>1 DEF HeldAt

(* The program counter is at the instruction of a tac. *)
LEMMA NowIsSpillCode ==
  ASSUME NEW p \in Programs, CodeInv(p), stage = "run",
         NEW b \in DOMAIN p.code, NEW i \in 1 .. Len(p.code[b]), NEW n, ip = <<b, i, n>>
  PROVE  /\ Now = WithSpillCode(p.code[b][i])[n]
         /\ Len(code[b]) = Len(p.code[b])
         /\ Len(code[b][i]) = LengthOf(p.code[b][i])
<1>1. code = WithAllSpillCode(p.code)
  BY DEF CodeInv
<1>2. code[b] = [j \in 1 .. Len(p.code[b]) |-> WithSpillCode(p.code[b][j])]
  BY <1>1 DEF WithAllSpillCode
<1>3. Len(p.code[b]) \in Nat
  BY ProgramIsLegal
<1>4. code[b][i] = WithSpillCode(p.code[b][i])
  BY <1>2
<1>5. Len(WithSpillCode(p.code[b][i])) = LengthOf(p.code[b][i])
  BY ProgramIsLegal, SpillCodeOf DEF IsSpillCode
<1>6. Len(code[b]) = Len(p.code[b])
  BY <1>2, <1>3
<1> QED BY <1>4, <1>5, <1>6 DEF Now

(* What holds of the places in any state, this one or the next. *)
PlaceFacts ==
  \A p \in Programs :
    /\ AllInv /\ DoneInv /\ GraphInv(p) /\ CodeInv(p) /\ stage = "run" => PlacesApart(p)
    /\ \A b \in DOMAIN p.code :
         /\ PlacesApart(p) /\ LiveHeld(p, b, 0, {}) => AwaitedHeld(p, b, 0)
         /\ \A i \in 1 .. Len(p.code[b]) :
              /\ HeldAt(p, b, i, LengthOf(p.code[b][i]) + 1) =>
                   LiveHeld(p, b, i, {}) /\ AwaitedHeld(p, b, i)
              /\ LiveHeld(p, b, i - 1, {}) /\ AwaitedHeld(p, b, i - 1) => HeldAt(p, b, i, 1)

LEMMA PlaceFactsHold == PlaceFacts
<1> SUFFICES ASSUME NEW p \in Programs
             PROVE  /\ AllInv /\ DoneInv /\ GraphInv(p) /\ CodeInv(p) /\ stage = "run" => PlacesApart(p)
                    /\ \A b \in DOMAIN p.code :
                         /\ PlacesApart(p) /\ LiveHeld(p, b, 0, {}) => AwaitedHeld(p, b, 0)
                         /\ \A i \in 1 .. Len(p.code[b]) :
                              /\ HeldAt(p, b, i, LengthOf(p.code[b][i]) + 1) =>
                                   LiveHeld(p, b, i, {}) /\ AwaitedHeld(p, b, i)
                              /\ LiveHeld(p, b, i - 1, {}) /\ AwaitedHeld(p, b, i - 1)
                                   => HeldAt(p, b, i, 1)
  BY DEF PlaceFacts
<1>1. AllInv /\ DoneInv /\ GraphInv(p) /\ CodeInv(p) /\ stage = "run" => PlacesApart(p)
  BY PlacesAreApart
<1>2. ASSUME NEW b \in DOMAIN p.code, PlacesApart(p), LiveHeld(p, b, 0, {})
      PROVE  AwaitedHeld(p, b, 0)
  BY <1>2, AwaitedAtBegin
<1>3. ASSUME NEW b \in DOMAIN p.code, NEW i \in 1 .. Len(p.code[b]),
             HeldAt(p, b, i, LengthOf(p.code[b][i]) + 1)
      PROVE  LiveHeld(p, b, i, {}) /\ AwaitedHeld(p, b, i)
  BY <1>3, HeldBehind
<1>4. ASSUME NEW b \in DOMAIN p.code, NEW i \in 1 .. Len(p.code[b]),
             LiveHeld(p, b, i - 1, {}), AwaitedHeld(p, b, i - 1)
      PROVE  HeldAt(p, b, i, 1)
  BY <1>4, HeldAtBegin
<1> QED BY <1>1, <1>2, <1>3, <1>4

LEMMA PlaceFactsHoldNext == PlaceFacts'
<1> QED BY PlaceFactsHold, PTL

(* A block begins with everything in place: what is live there was so at   *)
(* the end of the block before.                                            *)
LEMMA NextBlockIsHeld ==
  ASSUME NEW p \in Programs, PlacesApart(p)', Run,
         NEW b \in DOMAIN p.code, NEW d \in p.succ[b],
         LiveHeld(p, b, Len(p.code[b]), {})'
  PROVE  d \in DOMAIN p.code /\ 1 \in 1 .. Len(p.code[d]) /\ HeldAt(p, d, 1, 1)'
<1>1. d \in DOMAIN p.code /\ 1 \in 1 .. Len(p.code[d]) /\ 1 - 1 = 0
  BY ProgramIsLegal
<1>2. LiveHeld(p, d, 0, {})'
  BY LiveAcross DEF LiveHeld
<1>3. AwaitedHeld(p, d, 0)'
  BY <1>1, <1>2, PlaceFactsHoldNext DEF PlaceFacts
<1>4. LiveHeld(p, d, 1 - 1, {})' /\ AwaitedHeld(p, d, 1 - 1)'
  BY <1>1, <1>2, <1>3
<1> QED BY <1>1, <1>4, PlaceFactsHoldNext DEF PlaceFacts

(* The code is held to what it promises by each instruction that runs. *)
LEMMA RunKeepsRunInv ==
  ASSUME NEW p \in Programs, GraphInv(p), CodeInv(p), RunInv(p), PlacesApart(p),
         Run, stage' = "run", PlacesApart(p)'
  PROVE  RunInv(p)'
<1> SUFFICES ASSUME NEW b \in DOMAIN p.code, NEW i \in 1 .. Len(p.code[b]),
                    NEW n \in 1 .. LengthOf(p.code[b][i]), ip = <<b, i, n>>, HeldAt(p, b, i, n)
             PROVE  RunInv(p)'
  BY DEF Run, RunInv
<1> DEFINE tac == p.code[b][i]
<1>1. stage = "run" /\ ip[1] = b /\ ip[2] = i /\ ip[3] = n
  BY DEF Run
<1>2. /\ Now = WithSpillCode(tac)[n]
      /\ Len(code[b]) = Len(p.code[b]) /\ Len(code[b][i]) = LengthOf(tac)
  BY <1>1, NowIsSpillCode
<1>3. /\ Len(p.code[b]) \in Nat /\ IsTac(p, tac)
      /\ \A d \in p.succ[b] : d \in DOMAIN p.code
      /\ DOMAIN p.code \subseteq Nat
  BY <1>1, ProgramIsLegal
<1>4. \A c \in DOMAIN p.code : \A j \in 1 .. Len(p.code[c]) :
        LengthOf(p.code[c][j]) \in Nat /\ 1 \in 1 .. LengthOf(p.code[c][j])
        /\ LengthOf(p.code[c][j])' = LengthOf(p.code[c][j])
  <2> SUFFICES ASSUME NEW c \in DOMAIN p.code, NEW j \in 1 .. Len(p.code[c])
               PROVE  LengthOf(p.code[c][j]) \in Nat /\ 1 \in 1 .. LengthOf(p.code[c][j])
                      /\ LengthOf(p.code[c][j])' = LengthOf(p.code[c][j])
    OBVIOUS
  <2>1. IsTac(p, p.code[c][j])
    BY ProgramIsLegal
  <2>2. /\ OpAt(p.code[c][j]) \in Nat \ {0} /\ LengthOf(p.code[c][j]) \in Nat
        /\ OpAt(p.code[c][j]) <= LengthOf(p.code[c][j])
    BY <2>1, SpillCodeOf
  <2> QED BY <2>2, RunKeepsPlaces
<1>5. \A m : m = n + 1 => HeldAt(p, b, i, m)'
  <2>1. HeldAt(p, b, i, n + 1)'
    BY <1>1, <1>2, InstructionKeepsHeld
  <2> QED BY <2>1
<1>6. ip' \in After(ip)
  BY DEF Run
<1>7. \A d \in succ[b] : d \in p.succ[b]
  BY DEF GraphInv
<1>8. SUFFICES ASSUME NEW c \in DOMAIN p.code, NEW j \in 1 .. Len(p.code[c]),
                      NEW m \in 1 .. LengthOf(p.code[c][j]),
                      ip' = <<c, j, m>>, HeldAt(p, c, j, m)'
               PROVE  RunInv(p)'
  <2>1. CASE n < LengthOf(tac)
    <3>1. ip' = <<b, i, n + 1>> /\ n + 1 \in 1 .. LengthOf(tac)
      BY <1>1, <1>2, <1>4, <1>6, <2>1 DEF After
    <3> QED BY <1>1, <1>5, <1>8, <3>1
  <2>2. CASE ~(n < LengthOf(tac))
    <3>1. n + 1 = LengthOf(tac) + 1
      BY <1>1, <1>4, <2>2
    <3>2. HeldAt(p, b, i, LengthOf(tac) + 1)'
      <4>1. \A m : m = LengthOf(tac)' + 1 => HeldAt(p, b, i, m)'
        BY <1>1, <1>4, <1>5, <3>1
      <4> QED BY <4>1
    <3>3. LiveHeld(p, b, i, {})' /\ AwaitedHeld(p, b, i)'
      BY <1>1, <3>2, PlaceFactsHoldNext DEF PlaceFacts
    <3>4. CASE i < Len(p.code[b])
      <4>1. ip' = <<b, i + 1, 1>> /\ i + 1 \in 1 .. Len(p.code[b]) /\ (i + 1) - 1 = i
        BY <1>1, <1>2, <1>3, <1>6, <2>2, <3>4 DEF After
      <4>2. HeldAt(p, b, i + 1, 1)'
        BY <1>1, <3>3, <4>1, PlaceFactsHoldNext DEF PlaceFacts
      <4> QED BY <1>1, <1>4, <1>8, <4>1, <4>2
    <3>5. CASE ~(i < Len(p.code[b]))
      <4>1. PICK d \in succ[b] : ip' = <<d, 1, 1>>
        BY <1>2, <1>6, <2>2, <3>5 DEF After
      <4>2. i = Len(p.code[b])
        BY <1>1, <1>3, <3>5
      <4>3. LiveHeld(p, b, Len(p.code[b]), {})'
        BY <3>3, <4>2
      <4>4. d \in DOMAIN p.code /\ 1 \in 1 .. Len(p.code[d]) /\ HeldAt(p, d, 1, 1)'
        BY <1>1, <1>7, <4>1, <4>3, NextBlockIsHeld
      <4> QED BY <1>4, <1>8, <4>1, <4>4
    <3> QED BY <3>4, <3>5
  <2> QED BY <2>1, <2>2
<1>9. m \in 1 .. LengthOf(p.code[c][j])'
  BY <1>4
<1> QED BY <1>8, <1>9 DEF RunInv

(* Nothing moves when nothing runs. *)
LEMMA HeldStays ==
  ASSUME NEW p, NEW b, NEW i, NEW n, UNCHANGED <<holds, preg, stackIndex, class>>
  PROVE  /\ HeldAt(p, b, i, n)' <=> HeldAt(p, b, i, n)
         /\ LengthOf(p.code[b][i])' = LengthOf(p.code[b][i])
<1>1. \A a, V : /\ LiveHeld(p, b, a, V)' <=> LiveHeld(p, b, a, V)
                /\ AwaitedHeld(p, b, a)' <=> AwaitedHeld(p, b, a)
  BY PlacesStay DEF LiveHeld, AwaitedHeld
<1> QED BY <1>1, PlacesStay DEF HeldAt

(* The function begins with its parameters where it wants them. *)
LEMMA EntryIsHeld ==
  ASSUME NEW p \in Programs, GraphInv(p), CodeInv(p), AddSpillCode, PlacesApart(p)'
  PROVE  RunInv(p)'
<1>1. /\ ip' = <<0, 1, 1>>
      /\ holds' = {<<Register(a[1]), a[2]>> : a \in p.arrives}
      /\ 0 \in DOMAIN p.code
  BY DEF AddSpillCode, CodeInv, GraphInv
<1>2. 1 \in 1 .. Len(p.code[0]) /\ IsTac(p, p.code[0][1]) /\ 1 - 1 = 0
  BY <1>1, ProgramIsLegal
<1>3. 1 \in 1 .. LengthOf(p.code[0][1])'
  <2>1. OpAt(p.code[0][1]) \in Nat \ {0} /\ LengthOf(p.code[0][1]) \in Nat
        /\ OpAt(p.code[0][1]) <= LengthOf(p.code[0][1])
    BY <1>2, SpillCodeOf
  <2>2. UNCHANGED <<preg, stackIndex, class>>
    BY DEF AddSpillCode, vars, inputs
  <2> QED BY <2>1, <2>2, PlacesStay
<1>4. LiveHeld(p, 0, 0, {})'
  <2> SUFFICES ASSUME NEW v \in Live(p, 0, 0) PROVE <<Place(v)', v>> \in holds'
    BY DEF LiveHeld
  <2>1. PICK a \in p.arrives : a[2] = v /\ <<v, a[1]>> \in ForcedIn(p.code)
    BY ProgramAssumption DEF Live, IsProgram
  <2>2. Place(v)' = Register(a[1])
    <3>1. \A f \in ForcedIn(p.code) : Place(f[1])' = Register(f[2])
      BY DEF PlacesApart
    <3> QED BY <2>1, <3>1
  <2> QED BY <1>1, <2>1, <2>2
<1>5. LiveHeld(p, 0, 1 - 1, {})' /\ AwaitedHeld(p, 0, 1 - 1)'
  BY <1>1, <1>2, <1>4, PlaceFactsHoldNext DEF PlaceFacts
<1>6. HeldAt(p, 0, 1, 1)'
  BY <1>1, <1>2, <1>5, PlaceFactsHoldNext DEF PlaceFacts
<1> QED BY <1>1, <1>2, <1>3, <1>6 DEF RunInv

-----------------------------------------------------------------------------
(* The program that runs, from the walk over its code to its last          *)
(* instruction.                                                            *)
CodeRunInv ==
  /\ DoneInv
  /\ \E p \in Programs :
       /\ GraphInv(p)
       /\ CodeInv(p)
       /\ stage = "connect" => code = p.code
       /\ RunInv(p)

LEMMA InitCodeRunInv == InitAll => CodeRunInv
<1> SUFFICES ASSUME InitAll PROVE CodeRunInv
  OBVIOUS
<1>1. PICK p \in Programs : InitProgram(p)
  BY DEF InitAll
<1>2. GraphInv(p) /\ CodeInv(p) /\ code = p.code
  BY <1>1, InitGraphInv, InitCodeInv DEF InitProgram
<1>3. DoneInv /\ RunInv(p)
  BY DEF InitAll, DoneInv, RunInv
<1> QED BY <1>2, <1>3 DEF CodeRunInv

LEMMA StepCodeRunInv == AllInv /\ AllInv' /\ CodeRunInv /\ [NextAll]_allVars => CodeRunInv'
<1> SUFFICES ASSUME AllInv, AllInv', CodeRunInv, [NextAll]_allVars PROVE CodeRunInv'
  OBVIOUS
<1>1. PICK p \in Programs : /\ GraphInv(p) /\ CodeInv(p) /\ RunInv(p)
                            /\ stage = "connect" => code = p.code
  BY DEF CodeRunInv
<1>2. DoneInv'
  BY StepDoneInv DEF CodeRunInv
<1>3. GraphInv(p)' /\ CodeInv(p)'
  BY <1>1, StepGraphInv, StepCodeInv
<1>4. stage' = "connect" => code' = p.code
  BY <1>3 DEF CodeInv
<1>5. stage' = "run" => PlacesApart(p)'
  BY <1>2, <1>3, PlaceFactsHoldNext DEF PlaceFacts
<1>6. RunInv(p)'
  <2>1. CASE Run
    <3>1. CASE stage' = "run"
      <4>1. PlacesApart(p)
        BY <1>1, <2>1, PlacesAreApart DEF CodeRunInv, Run
      <4> QED BY <1>1, <1>5, <2>1, <3>1, <4>1, RunKeepsRunInv
    <3> QED BY <3>1 DEF RunInv
  <2>2. CASE AddSpillCode
    BY <1>1, <1>5, <2>2, EntryIsHeld DEF AddSpillCode
  <2>3. CASE UNCHANGED allVars
    <3>1. UNCHANGED <<stage, ip, holds, preg, stackIndex, class>>
      BY <2>3 DEF allVars, vars, inputs, machine
    <3> QED BY <1>1, <3>1, HeldStays DEF RunInv
  <2>4. CASE Connect \/ AllocateStep \/ AssignVregLocations
    <3>1. stage' # "run"
      BY <2>4 DEF Connect, AllocateStep, AssignVregLocations, machine
    <3> QED BY <3>1 DEF RunInv
  <2> QED BY <2>1, <2>2, <2>3, <2>4 DEF NextAll, Stopped
<1> QED BY <1>1, <1>2, <1>3, <1>4, <1>6 DEF CodeRunInv

(* A load or store reads no vreg: only the operation of the tac does, and  *)
(* its operands are where it reads them.                                   *)
LEMMA HeldIsRead == AllInv /\ CodeRunInv => ReadsFindTheirValues
<1> SUFFICES ASSUME CodeRunInv, stage = "run" PROVE Now.reads \subseteq holds
  BY DEF ReadsFindTheirValues
<1>1. PICK p \in Programs : CodeInv(p) /\ RunInv(p)
  BY DEF CodeRunInv
<1>2. PICK b \in DOMAIN p.code : \E i \in 1 .. Len(p.code[b]) : \E n \in 1 .. LengthOf(p.code[b][i]) :
        ip = <<b, i, n>> /\ HeldAt(p, b, i, n)
  BY <1>1 DEF RunInv
<1>3. PICK i \in 1 .. Len(p.code[b]) : \E n \in 1 .. LengthOf(p.code[b][i]) :
        ip = <<b, i, n>> /\ HeldAt(p, b, i, n)
  BY <1>2
<1> DEFINE tac == p.code[b][i]
<1>4. PICK n \in 1 .. LengthOf(tac) : ip = <<b, i, n>> /\ HeldAt(p, b, i, n)
  BY <1>3
<1>5. Now = WithSpillCode(tac)[n]
  BY <1>1, <1>4, NowIsSpillCode
<1>6. /\ IsSpillCode(tac, WithSpillCode(tac))
      /\ OpAt(tac) = Loads1(tac) + Loads2(tac) + 1
      /\ Loads1(tac) \in {0, 1} /\ Loads2(tac) \in {0, 1} /\ LengthOf(tac) \in Nat
  BY ProgramIsLegal, SpillCodeOf DEF OpAt
<1>7. CASE n = OpAt(tac)
  BY <1>4, <1>5, <1>6, <1>7, OperandsAreHeld DEF IsSpillCode
<1>8. CASE n # OpAt(tac)
  <2>1. \E from, to : Now = Copy(from, to)
    <3>1. CASE n > OpAt(tac)
      <4>1. n \in OpAt(tac) + 1 .. LengthOf(tac)
        BY <1>6, <3>1
      <4> QED BY <1>5, <1>6, <4>1 DEF IsSpillCode
    <3>2. CASE n < OpAt(tac)
      <4>1. (n = 1 /\ Loads1(tac) = 1) \/ (n = Loads1(tac) + 1 /\ Loads2(tac) = 1)
        BY <1>6, <3>2
      <4> QED BY <1>5, <1>6, <4>1 DEF IsSpillCode
    <3> QED BY <1>6, <1>8, <3>1, <3>2
  <2> QED BY <2>1 DEF Copy
<1> QED BY <1>7, <1>8

(* Whatever the function, every instruction of its code finds the values   *)
(* it reads: the graph has an edge wherever two values would meet in a     *)
(* register, the allocator keeps what has an edge apart, and spill code    *)
(* brings to the operation what the stack has.                             *)
THEOREM ReadsFindValues == SpecAll => []ReadsFindTheirValues
<1>1. SpecAll => []CodeRunInv
  BY InitCodeRunInv, StepCodeRunInv, AllInvariance, PTL DEF SpecAll
<1> QED BY <1>1, HeldIsRead, AllInvariance, PTL

=============================================================================
