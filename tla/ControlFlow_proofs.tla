------------------------- MODULE ControlFlow_proofs -------------------------
(***************************************************************************)
(* Proofs about the control flow graph and the dominance between its       *)
(* blocks, for any code a function can have.                               *)
(***************************************************************************)
EXTENDS ControlFlow, CodeFacts_proofs

-----------------------------------------------------------------------------
(* The graph make_block_dominance works on: the numbered blocks, of which  *)
(* 0 is the entry, and edges between them, none of them back to the entry. *)
FlowGraph ==
  /\ IsFiniteSet(Blocks) /\ Blocks \subseteq Nat
  /\ 0 \in Blocks
  /\ edges \in Seq(Range(edges))
  /\ \A e \in Range(edges) : e[1] \in Blocks /\ e[2] \in Blocks /\ e[2] # 0

(* The blocks that are near come by going on along edges, within the graph. *)
LEMMA NearIsReached ==
  ASSUME FlowGraph, NEW a
  PROVE  /\ Near(a)[0] = {0} \ {a}
         /\ \A n \in Nat : Near(a)[n + 1] = Further(Near(a)[n], a)
         /\ \A n \in Nat : Near(a)[n] \in SUBSET Blocks
<1> DEFINE F == [p \in Nat \X SUBSET Blocks |-> Further(p[2], a)]
           x == {0} \ {a}
           IsNear(R) == R = [n \in Nat |-> IF n = 0 THEN {0} \ {a} ELSE Further(R[n - 1], a)]
<1>1. F \in [Nat \X SUBSET Blocks -> SUBSET Blocks] /\ x \in SUBSET Blocks
  BY DEF FlowGraph, Further
<1>2. PICK g \in [Nat -> SUBSET Blocks] : Recursion(g, F, x)
  <2> HIDE DEF F, x
  <2> QED BY <1>1, IterationExists
<1>3. IsNear(g)
  <2>1. \A n \in Nat \ {0} : F[<<n, g[n - 1]>>] = Further(g[n - 1], a)
    <3> SUFFICES ASSUME NEW n \in Nat \ {0} PROVE F[<<n, g[n - 1]>>] = Further(g[n - 1], a)
      OBVIOUS
    <3>1. <<n, g[n - 1]>> \in Nat \X SUBSET Blocks
      <4>1. n - 1 \in Nat
        OBVIOUS
      <4> QED BY <4>1
    <3> QED BY <3>1
  <2> HIDE DEF F
  <2> QED BY <1>2, <2>1 DEF Recursion
<1>4. IsNear(Near(a))
  <2>1. Near(a) = CHOOSE R : IsNear(R)
    BY DEF Near
  <2> HIDE DEF IsNear
  <2> QED BY <1>3, <2>1
<1> HIDE DEF F
<1>5. Near(a)[0] = x
  BY <1>4
<1>6. ASSUME NEW n \in Nat PROVE Near(a)[n + 1] = Further(Near(a)[n], a)
  <2>1. n + 1 \in Nat /\ n + 1 # 0 /\ (n + 1) - 1 = n
    OBVIOUS
  <2> QED BY <1>4, <2>1
<1> DEFINE T == {n \in Nat : Near(a)[n] \in SUBSET Blocks}
<1>7. ASSUME NEW n \in T PROVE n + 1 \in T
  BY <1>6 DEF FlowGraph, Further
<1>8. T = Nat
  <2> HIDE DEF T
  <2>1. T \in SUBSET Nat
    BY DEF T
  <2>2. 0 \in T
    BY <1>1, <1>5 DEF T
  <2> QED BY <1>7, <2>1, <2>2, AllNaturals
<1> QED BY <1>5, <1>6, <1>8

(* What is near stays near.                                                *)
LEMMA NearGrows ==
  ASSUME FlowGraph, NEW a, NEW n \in Nat, NEW b \in Near(a)[0]
  PROVE  b \in Near(a)[n]
<1> DEFINE T == {k \in Nat : b \in Near(a)[k]}
<1>1. ASSUME NEW k \in T PROVE k + 1 \in T
  BY NearIsReached DEF Further
<1>2. T = Nat
  <2> HIDE DEF T
  <2>1. T \in SUBSET Nat /\ 0 \in T
    BY DEF T
  <2> QED BY <1>1, <2>1, AllNaturals
<1> QED BY <1>2

(* After as many rounds as there are blocks none is added any more: until  *)
(* then each round adds one.                                               *)
LEMMA ReachedIsClosed ==
  ASSUME FlowGraph, NEW a
  PROVE  /\ ReachedWithout(a) \in SUBSET Blocks
         /\ \A e \in Range(edges) : e[1] \in ReachedWithout(a) /\ e[2] # a => e[2] \in ReachedWithout(a)
<1> DEFINE N == Cardinality(Blocks)
           Closed(n) == Further(Near(a)[n], a) = Near(a)[n]
           T == {n \in Nat : Closed(n) \/ Cardinality(Near(a)[n]) >= n}
<1>1. N \in Nat
  BY FS_CardinalityType DEF FlowGraph
<1>2. \A n \in Nat : /\ Near(a)[n] \in SUBSET Blocks
                     /\ Near(a)[n + 1] = Further(Near(a)[n], a)
  BY NearIsReached
<1>3. \A n \in Nat : IsFiniteSet(Near(a)[n]) /\ Cardinality(Near(a)[n]) \in Nat
  BY <1>2, FS_Subset, FS_CardinalityType DEF FlowGraph
<1>4. 0 \in T
  BY <1>3
<1>5. ASSUME NEW n \in T PROVE n + 1 \in T
  <2>1. n \in Nat /\ n + 1 \in Nat
    OBVIOUS
  <2>2. CASE Closed(n)
    <3>1. Near(a)[n + 1] = Near(a)[n]
      BY <1>2, <2>1, <2>2
    <3>2. Closed(n + 1)
      BY <2>2, <3>1
    <3> QED BY <2>1, <3>2
  <2>3. CASE ~Closed(n)
    <3>1. Cardinality(Near(a)[n]) >= n
      BY <2>3
    <3>2. Near(a)[n] \in SUBSET Near(a)[n + 1] /\ Near(a)[n] # Near(a)[n + 1]
      BY <1>2, <2>1, <2>3 DEF Further
    <3>3. /\ Cardinality(Near(a)[n]) <= Cardinality(Near(a)[n + 1])
          /\ Cardinality(Near(a)[n]) # Cardinality(Near(a)[n + 1])
      BY <1>3, <2>1, <3>2, FS_Subset
    <3>4. Cardinality(Near(a)[n + 1]) \in Nat /\ Cardinality(Near(a)[n]) \in Nat
      BY <1>3, <2>1
    <3>5. Cardinality(Near(a)[n + 1]) >= n + 1
      BY <2>1, <3>1, <3>3, <3>4
    <3> QED BY <2>1, <3>5
  <2> QED BY <2>2, <2>3
<1>6. T = Nat
  <2> HIDE DEF T
  <2>1. T \in SUBSET Nat
    BY DEF T
  <2> QED BY <1>4, <1>5, <2>1, AllNaturals
<1>7. Closed(N)
  <2>1. CASE Cardinality(Near(a)[N]) >= N
    <3>1. Near(a)[N] \in SUBSET Blocks /\ Cardinality(Near(a)[N]) <= N /\ Cardinality(Near(a)[N]) \in Nat
      BY <1>1, <1>2, <1>3, FS_Subset DEF FlowGraph
    <3>2. Near(a)[N] = Blocks
      <4>1. Cardinality(Near(a)[N]) = N
        BY <1>1, <2>1, <3>1
      <4> QED BY <3>1, <4>1, FS_Subset DEF FlowGraph
    <3> QED BY <3>2 DEF Further, FlowGraph
  <2> QED BY <1>1, <1>6, <2>1
<1>8. ReachedWithout(a) \in SUBSET Blocks
  BY <1>1, <1>2 DEF ReachedWithout
<1> QED BY <1>7, <1>8 DEF Further, ReachedWithout

(* A block that is reached other than the entry is so by an edge.          *)
LEMMA ReachedByAnEdge ==
  ASSUME FlowGraph, NEW b \in Reached, b # 0
  PROVE  \E e \in Range(edges) : e[2] = b
<1> DEFINE T == {n \in Nat : b \in Near(-1)[n] => \E e \in Range(edges) : e[2] = b}
<1>1. 0 \in T
  BY NearIsReached
<1>2. ASSUME NEW n \in T PROVE n + 1 \in T
  BY NearIsReached DEF Further
<1>3. T = Nat
  <2> HIDE DEF T
  <2>1. T \in SUBSET Nat
    BY DEF T
  <2> QED BY <1>1, <1>2, <2>1, AllNaturals
<1>4. Cardinality(Blocks) \in Nat
  BY FS_CardinalityType DEF FlowGraph
<1> QED BY <1>3, <1>4 DEF Reached, ReachedWithout

-----------------------------------------------------------------------------
(* The dominators of a block that follows others are, but for itself,      *)
(* those of all of them, and the entry has itself only.                    *)
LEMMA DominatorsOfEntry ==
  ASSUME FlowGraph
  PROVE  Dominators(0) \subseteq {0}
<1> SUFFICES ASSUME NEW a \in Blocks, a # 0 PROVE 0 \in ReachedWithout(a)
  BY DEF Dominators
<1>1. 0 \in Near(a)[0]
  BY NearIsReached
<1>2. Cardinality(Blocks) \in Nat
  BY FS_CardinalityType DEF FlowGraph
<1> QED BY <1>1, <1>2, NearGrows DEF ReachedWithout

LEMMA GraphsAreReachedFromEntry ==
  FlowGraph => Dominators(0) \subseteq {0} /\ Reached \in SUBSET Blocks
BY DominatorsOfEntry, ReachedIsClosed DEF Reached

LEMMA DominatorsOfEdge ==
  ASSUME FlowGraph, NEW e \in Range(edges)
  PROVE  Dominators(e[2]) \subseteq {e[2]} \cup Dominators(e[1])
BY ReachedIsClosed DEF Dominators

-----------------------------------------------------------------------------
(* FlattenSeq appends the sequences one after the other.                   *)
Flattens(f, ss, N) == f = [i \in 1 .. N |-> IF i = 1 THEN ss[i] ELSE f[i - 1] \o ss[i]]

LEMMA FlattensSteps ==
  ASSUME NEW ss, NEW N \in Nat \ {0}, NEW f, Flattens(f, ss, N)
  PROVE  f[1] = ss[1] /\ \A i \in 2 .. N : f[i] = f[i - 1] \o ss[i]
<1>1. \A i \in 1 .. N : f[i] = IF i = 1 THEN ss[i] ELSE f[i - 1] \o ss[i]
  BY DEF Flattens
<1>2. 1 \in 1 .. N /\ \A i \in 2 .. N : i \in 1 .. N /\ i # 1
  OBVIOUS
<1> QED BY <1>1, <1>2

LEMMA FlatExists ==
  ASSUME NEW S, NEW N \in Nat \ {0}, NEW ss \in [1 .. N -> Seq(S)]
  PROVE  \E f \in [1 .. N -> Seq(S)] : Flattens(f, ss, N)
<1> DEFINE F == [p \in Nat \X Seq(S) |->
                   IF p[1] + 1 \in 1 .. N THEN p[2] \o ss[p[1] + 1] ELSE p[2]]
<1>1. F \in [Nat \X Seq(S) -> Seq(S)]
  <2> SUFFICES ASSUME NEW k \in Nat, NEW s \in Seq(S), k + 1 \in 1 .. N PROVE s \o ss[k + 1] \in Seq(S)
    OBVIOUS
  <2>1. ss[k + 1] \in Seq(S)
    OBVIOUS
  <2> QED BY <2>1
<1>2. 1 \in 1 .. N /\ ss[1] \in Seq(S)
  OBVIOUS
<1>3. PICK g \in [Nat -> Seq(S)] : Recursion(g, F, ss[1])
  <2> HIDE DEF F
  <2> QED BY <1>1, <1>2, IterationExists
<1>4. g[0] = ss[1]
  BY <1>3 DEF Recursion
<1>5. ASSUME NEW i \in 1 .. N, i # 1 PROVE g[i - 1] = g[(i - 1) - 1] \o ss[i]
  <2>1. i - 1 \in Nat /\ i - 1 # 0 /\ (i - 1) - 1 \in Nat /\ (i - 1) + 1 = i
    BY <1>5
  <2>2. g[i - 1] = F[<<i - 1, g[(i - 1) - 1]>>]
    <3> HIDE DEF F
    <3> QED BY <1>3, <2>1 DEF Recursion
  <2>3. <<i - 1, g[(i - 1) - 1]>> \in Nat \X Seq(S)
    BY <2>1
  <2> QED BY <2>1, <2>2, <2>3
<1> DEFINE h == [i \in 1 .. N |-> g[i - 1]]
<1>6. h \in [1 .. N -> Seq(S)]
  OBVIOUS
<1>7. ASSUME NEW i \in 1 .. N PROVE h[i] = IF i = 1 THEN ss[i] ELSE h[i - 1] \o ss[i]
  <2>1. CASE i = 1
    BY <1>4, <2>1
  <2>2. CASE i # 1
    <3>1. i - 1 \in 1 .. N
      BY <2>2
    <3>2. h[i] = g[i - 1] /\ h[i - 1] = g[(i - 1) - 1]
      BY <3>1
    <3> QED BY ONLY <1>5, <2>2, <3>2, i \in 1 .. N
  <2> QED BY <2>1, <2>2
<1>8. Flattens(h, ss, N)
  <2>1. h = [i \in 1 .. N |-> h[i]]
    OBVIOUS
  <2> HIDE DEF h
  <2> QED BY <1>7, <2>1 DEF Flattens
<1> QED BY <1>6, <1>8

LEMMA FlatsAreSequences ==
  ASSUME NEW S, NEW N \in Nat \ {0}, NEW ss \in [1 .. N -> Seq(S)], NEW f, Flattens(f, ss, N)
  PROVE  \A i \in 1 .. N : f[i] \in Seq(S)
<1> DEFINE T == {n \in Nat : n + 1 \in 1 .. N => f[n + 1] \in Seq(S)}
<1>1. f[1] = ss[1] /\ \A i \in 2 .. N : f[i] = f[i - 1] \o ss[i]
  BY FlattensSteps
<1>2. 0 \in T
  BY <1>1
<1>3. ASSUME NEW n \in T PROVE n + 1 \in T
  <2> SUFFICES ASSUME (n + 1) + 1 \in 1 .. N PROVE f[(n + 1) + 1] \in Seq(S)
    OBVIOUS
  <2>1. n \in Nat /\ n + 1 \in 1 .. N /\ (n + 1) + 1 \in 2 .. N /\ ((n + 1) + 1) - 1 = n + 1
    OBVIOUS
  <2>2. f[n + 1] \in Seq(S) /\ ss[(n + 1) + 1] \in Seq(S)
    BY <2>1
  <2>3. f[(n + 1) + 1] = f[n + 1] \o ss[(n + 1) + 1]
    BY <1>1, <2>1
  <2> QED BY <2>2, <2>3
<1>4. T = Nat
  <2> HIDE DEF T
  <2>1. T \in SUBSET Nat
    BY DEF T
  <2> QED BY <1>2, <1>3, <2>1, AllNaturals
<1> SUFFICES ASSUME NEW i \in 1 .. N PROVE f[i] \in Seq(S)
  OBVIOUS
<1>5. i - 1 \in T /\ (i - 1) + 1 = i
  <2> HIDE DEF T
  <2> QED BY <1>4
<1> QED BY <1>5

LEMMA ConcatHasBoth ==
  ASSUME NEW S, NEW s \in Seq(S), NEW u \in Seq(S)
  PROVE  /\ \A j \in 1 .. Len(s) : j \in 1 .. Len(s \o u) /\ (s \o u)[j] = s[j]
         /\ \A j \in 1 .. Len(u) : Len(s) + j \in 1 .. Len(s \o u) /\ (s \o u)[Len(s) + j] = u[j]
OBVIOUS

(* What f flattens up to n has what any of the sequences up to n has.      *)
LEMMA FlatsHaveAll ==
  ASSUME NEW S, NEW N \in Nat \ {0}, NEW ss \in [1 .. N -> Seq(S)], NEW f, Flattens(f, ss, N),
         NEW i \in 1 .. N, NEW k \in 1 .. Len(ss[i])
  PROVE  ss[i][k] \in Range(f[N])
<1> DEFINE has(n) == \E j \in 1 .. Len(f[n]) : f[n][j] = ss[i][k]
           T == {n \in Nat : i + n \in 1 .. N => has(i + n)}
<1>1. f[1] = ss[1] /\ \A j \in 2 .. N : f[j] = f[j - 1] \o ss[j]
  BY FlattensSteps
<1>2. \A j \in 1 .. N : f[j] \in Seq(S) /\ ss[j] \in Seq(S)
  BY FlatsAreSequences
<1>4. has(i)
  <2>1. CASE i = 1
    BY <1>1, <2>1
  <2>2. CASE i # 1
    <3>1. i \in 2 .. N /\ i - 1 \in 1 .. N
      BY <2>2
    <3>2. f[i] = f[i - 1] \o ss[i] /\ f[i - 1] \in Seq(S) /\ ss[i] \in Seq(S)
      BY <1>1, <1>2, <3>1
    <3>3. /\ Len(f[i - 1]) + k \in 1 .. Len(f[i - 1] \o ss[i])
          /\ (f[i - 1] \o ss[i])[Len(f[i - 1]) + k] = ss[i][k]
      BY ONLY <3>2, ConcatHasBoth, k \in 1 .. Len(ss[i])
    <3> QED BY ONLY <3>2, <3>3
  <2> QED BY <2>1, <2>2
<1>5. 0 \in T
  <2>1. i + 0 = i
    OBVIOUS
  <2> HIDE DEF has
  <2> QED BY <1>4, <2>1
<1>6. ASSUME NEW n \in T PROVE n + 1 \in T
  <2> SUFFICES ASSUME i + (n + 1) \in 1 .. N PROVE has(i + (n + 1))
    <3> HIDE DEF has
    <3> QED OBVIOUS
  <2>1. n \in Nat /\ i + (n + 1) \in 2 .. N /\ i + n \in 1 .. N /\ (i + (n + 1)) - 1 = i + n
    OBVIOUS
  <2>2. has(i + n)
    <3> HIDE DEF has
    <3> QED BY <2>1
  <2>3. f[i + (n + 1)] = f[i + n] \o ss[i + (n + 1)]
    BY <1>1, <2>1
  <2>4. f[i + n] \in Seq(S) /\ ss[i + (n + 1)] \in Seq(S)
    BY <1>2, <2>1
  <2>5. PICK j \in 1 .. Len(f[i + n]) : f[i + n][j] = ss[i][k]
    BY <2>2
  <2>6. /\ j \in 1 .. Len(f[i + n] \o ss[i + (n + 1)])
        /\ (f[i + n] \o ss[i + (n + 1)])[j] = f[i + n][j]
    <3>1. ASSUME NEW a \in Seq(S), NEW b \in Seq(S), j \in 1 .. Len(a)
          PROVE  j \in 1 .. Len(a \o b) /\ (a \o b)[j] = a[j]
      BY ONLY <3>1
    <3> QED BY <2>4, <3>1
  <2> QED BY ONLY <2>3, <2>5, <2>6
<1>7. T = Nat
  <2> HIDE DEF T
  <2>1. T \in SUBSET Nat
    BY DEF T
  <2> QED BY <1>5, <1>6, <2>1, AllNaturals
<1>8. N - i \in T /\ i + (N - i) = N
  <2> HIDE DEF T
  <2> QED BY <1>7
<1>9. has(N)
  <2> HIDE DEF has
  <2> QED BY <1>8
<1>10. f[N] \in Seq(S)
  BY <1>2
<1> QED BY <1>9, <1>10 DEF Range

(* So what FlattenSeq makes of sequences over S is a sequence over S that  *)
(* has what any of them has.                                               *)
LEMMA FlattenSeqHasAll ==
  ASSUME NEW S, NEW N \in Nat \ {0}, NEW ss \in [1 .. N -> Seq(S)]
  PROVE  /\ FlattenSeq(ss) \in Seq(S)
         /\ \A i \in 1 .. N : \A k \in 1 .. Len(ss[i]) : ss[i][k] \in Range(FlattenSeq(ss))
<1>1. Len(ss) = N
  <2>1. ss \in Seq(Seq(S))
    OBVIOUS
  <2> QED OBVIOUS
<1> DEFINE flat == CHOOSE f : Flattens(f, ss, N)
<1>2. Flattens(flat, ss, N)
  BY FlatExists
<1>3. FlattenSeq(ss) = flat[N]
  BY <1>1 DEF FlattenSeq, Flattens
<1> HIDE DEF flat
<1>4. flat[N] \in Seq(S)
  <2>1. N \in 1 .. N
    OBVIOUS
  <2> QED BY <1>2, <2>1, FlatsAreSequences
<1> QED BY <1>2, <1>3, <1>4, FlatsHaveAll

-----------------------------------------------------------------------------
(* Trimming keeps the labels, and the code is still code.                  *)
LEMMA TrimmedIsCode ==
  ASSUME NEW t, IsCode(t)
  PROVE  /\ IsCode(Trimmed(t))
         /\ Len(Trimmed(t)) = Len(t)
         /\ Len(t) \in Nat \ {0}
         /\ \A i \in 1 .. Len(t) : /\ Trimmed(t)[i].label = t[i].label
                                   /\ ~Dead(t, i) => Trimmed(t)[i] = t[i]
<1>1. t \in Seq(Range(t)) /\ Len(t) \in Nat \ {0} /\ DOMAIN t = 1 .. Len(t)
  BY DEF IsCode
<1> DEFINE u == Trimmed(t)
<1>2. DOMAIN u = 1 .. Len(t) /\ \A i \in 1 .. Len(t) : u[i] = IF Dead(t, i) THEN Nop(t[i]) ELSE t[i]
  BY DEF Trimmed
<1>3. \A i \in 1 .. Len(t) : /\ DOMAIN u[i] = DOMAIN t[i]
                             /\ u[i].label = t[i].label
                             /\ u[i].target = t[i].target
                             /\ u[i].op \in {t[i].op, "IR_NOP"}
                             /\ ~Dead(t, i) => u[i] = t[i]
  <2> SUFFICES ASSUME NEW i \in 1 .. Len(t), NEW r, r = t[i], {"op", "label", "target"} \subseteq DOMAIN r
               PROVE  /\ DOMAIN Nop(r) = DOMAIN r
                      /\ Nop(r).label = r.label
                      /\ Nop(r).target = r.target
                      /\ Nop(r).op = "IR_NOP"
    BY <1>2 DEF IsCode
  <2> QED BY DEF Nop
<1>4. u \in Seq(Range(u)) /\ Len(u) = Len(t)
  <2>1. \A i \in 1 .. Len(t) : u[i] \in Range(u)
    BY <1>2 DEF Range
  <2>2. u = [i \in 1 .. Len(t) |-> u[i]]
    BY DEF Trimmed
  <2>3. u \in [1 .. Len(t) -> Range(u)]
    <3> HIDE DEF u
    <3> QED BY <2>1, <2>2
  <2> HIDE DEF u
  <2> QED BY <1>1, <2>3
<1>5. IsCode(u)
  <2>1. u # <<>>
    BY <1>1, <1>4
  <2>2. "IR_NOP" \notin Jumps \cup ConditionalJumps
    BY DEF Jumps, ConditionalJumps
  <2>3. u[1].label = 0
    BY <1>1, <1>3 DEF IsCode
  <2>4. \A i \in 1 .. Len(u) : u[i].op \in Jumps \cup ConditionalJumps => u[i].target # 0
    <3> HIDE DEF u
    <3> QED BY <1>3, <1>4, <2>2 DEF IsCode
  <2>5. u[Len(u)].op \notin ConditionalJumps
    <3> HIDE DEF u
    <3>1. Len(t) \in 1 .. Len(t)
      BY <1>1
    <3>2. u[Len(t)].op \in {t[Len(t)].op, "IR_NOP"}
      BY <1>3, <3>1
    <3> QED BY <1>4, <2>2, <3>2 DEF IsCode
  <2>6. \A i \in 1 .. Len(u) : {"op", "label", "target"} \subseteq DOMAIN u[i]
    <3> HIDE DEF u
    <3> QED BY <1>3, <1>4 DEF IsCode
  <2> HIDE DEF u
  <2> QED BY <1>4, <2>1, <2>3, <2>4, <2>5, <2>6 DEF IsCode
<1> HIDE DEF u
<1> QED BY <1>1, <1>3, <1>4, <1>5 DEF u

-----------------------------------------------------------------------------
(* Each element of a finite set of numbers has a number of smaller ones,   *)
(* and each number up to the last is that of an element.                   *)
LEMMA ElementsAreNumbered ==
  ASSUME NEW S \in SUBSET Nat, IsFiniteSet(S)
  PROVE  LET below(i) == Cardinality({j \in S : j < i})
         IN /\ Cardinality(S) \in Nat
            /\ \A i \in S : below(i) \in 0 .. Cardinality(S) - 1
            /\ \A i, k \in S : i < k => below(i) < below(k)
            /\ \A b \in 0 .. Cardinality(S) - 1 : \E i \in S : below(i) = b
<1> DEFINE Before(i) == {j \in S : j < i}
           K == Cardinality(S)
<1>1. K \in Nat
  BY FS_CardinalityType
<1>2. \A i : IsFiniteSet(Before(i)) /\ Cardinality(Before(i)) \in Nat
  <2> SUFFICES ASSUME NEW i PROVE IsFiniteSet(Before(i)) /\ Cardinality(Before(i)) \in Nat
    OBVIOUS
  <2>1. Before(i) \in SUBSET S
    OBVIOUS
  <2> HIDE DEF Before
  <2> QED BY <2>1, FS_Subset, FS_CardinalityType
<1>3. ASSUME NEW P \in SUBSET S, NEW Q \in SUBSET S, P \subseteq Q, P # Q
      PROVE  Cardinality(P) < Cardinality(Q)
  <2>1. IsFiniteSet(P) /\ IsFiniteSet(Q)
    BY <1>3, FS_Subset
  <2>2. Cardinality(P) \in Nat /\ Cardinality(Q) \in Nat
    BY <2>1, FS_CardinalityType
  <2>3. Cardinality(P) <= Cardinality(Q) /\ Cardinality(P) # Cardinality(Q)
    BY <1>3, <2>1, FS_Subset
  <2> QED BY <2>2, <2>3
<1>4. ASSUME NEW i \in S PROVE Cardinality(Before(i)) \in 0 .. K - 1
  <2>1. Before(i) \in SUBSET S /\ S \in SUBSET S /\ Before(i) # S
    BY <1>4
  <2>2. Cardinality(Before(i)) < K
    <3> HIDE DEF Before
    <3> QED BY <1>3, <2>1
  <2> HIDE DEF Before
  <2> QED BY <1>1, <1>2, <2>2
<1>5. ASSUME NEW i \in S, NEW k \in S, i < k PROVE Cardinality(Before(i)) < Cardinality(Before(k))
  <2>1. Before(i) \in SUBSET S /\ Before(k) \in SUBSET S /\ Before(i) \subseteq Before(k)
    <3>1. \A j \in S : j < i => j < k
      BY <1>5
    <3> QED BY <3>1
  <2>2. i \in Before(k) /\ i \notin Before(i)
    BY <1>5
  <2> HIDE DEF Before
  <2> QED BY <1>3, <2>1, <2>2
<1> DEFINE f == [i \in S |-> Cardinality(Before(i))]
<1>6. ASSUME NEW b \in 0 .. K - 1 PROVE \E i \in S : f[i] = b
  <2> DEFINE T == 0 .. K - 1
  <2>1. f \in [S -> T]
    <3> HIDE DEF Before
    <3> QED BY <1>4
  <2>2. \A i, k \in S : f[i] = f[k] => i = k
    <3> SUFFICES ASSUME NEW i \in S, NEW k \in S, i # k PROVE f[i] # f[k]
      OBVIOUS
    <3>1. i < k \/ k < i
      OBVIOUS
    <3>2. f[i] = Cardinality(Before(i)) /\ f[k] = Cardinality(Before(k))
      OBVIOUS
    <3>3. Cardinality(Before(i)) \in Nat /\ Cardinality(Before(k)) \in Nat
      BY <1>2
    <3> HIDE DEF Before, f
    <3> QED BY <1>5, <3>1, <3>2, <3>3
  <2>3. f \in Injection(S, T)
    <3> HIDE DEF f, T
    <3> QED BY <2>1, <2>2 DEF Injection, IsInjective
  <2>4. IsFiniteSet(T) /\ Cardinality(T) = K
    <3>1. 0 .. K - 1 = 0 .. (K - 1) /\ (K = 0 => 0 .. K - 1 = {})
      BY <1>1
    <3> QED BY <1>1, <3>1, FS_Interval, FS_EmptySet
  <2>5. f \in Surjection(S, T)
    <3> HIDE DEF f, T
    <3> QED BY <2>3, <2>4, FS_Injection
  <2> HIDE DEF f
  <2> QED BY <2>5 DEF Surjection
<1> QED BY <1>1, <1>4, <1>5, <1>6

(* The number of starts before a start.                                    *)
Number(t, i) == Cardinality({j \in Starts(t) : j < i})

(* Each start has a number of its own, and each number a start.            *)
LEMMA StartsAreNumbered ==
  ASSUME NEW t, IsCode(t)
  PROVE  /\ Starts(t) \in SUBSET (1 .. Len(t)) /\ 1 \in Starts(t)
         /\ Cardinality(Starts(t)) \in Nat \ {0}
         /\ \A i \in Starts(t) : Number(t, i) \in 0 .. Cardinality(Starts(t)) - 1
         /\ \A i, k \in Starts(t) : i < k => Number(t, i) < Number(t, k)
         /\ \A b \in 0 .. Cardinality(Starts(t)) - 1 : \E i \in Starts(t) : Number(t, i) = b
         /\ Number(t, 1) = 0
<1> DEFINE S == Starts(t)
<1>1. Len(t) \in Nat \ {0} /\ S \in SUBSET (1 .. Len(t)) /\ 1 \in S
  BY DEF IsCode, Starts
<1>2. IsFiniteSet(S) /\ S \in SUBSET Nat
  <2>1. IsFiniteSet(1 .. Len(t)) /\ 1 .. Len(t) \in SUBSET Nat
    BY <1>1, FS_Interval
  <2> QED BY <1>1, <2>1, FS_Subset
<1>3. /\ Cardinality(S) \in Nat
      /\ \A i \in S : Number(t, i) \in 0 .. Cardinality(S) - 1
      /\ \A i, k \in S : i < k => Number(t, i) < Number(t, k)
      /\ \A b \in 0 .. Cardinality(S) - 1 : \E i \in S : Number(t, i) = b
  <2> HIDE DEF S
  <2>1. \A i : Number(t, i) = Cardinality({j \in S : j < i})
    BY DEF Number, S
  <2>2. /\ Cardinality(S) \in Nat
        /\ \A i \in S : Cardinality({j \in S : j < i}) \in 0 .. Cardinality(S) - 1
        /\ \A i, k \in S : i < k => Cardinality({j \in S : j < i}) < Cardinality({j \in S : j < k})
        /\ \A b \in 0 .. Cardinality(S) - 1 : \E i \in S : Cardinality({j \in S : j < i}) = b
    BY ONLY <1>2, ElementsAreNumbered
  <2> QED BY ONLY <2>1, <2>2
<1>4. Cardinality(S) # 0
  BY <1>1, <1>2, FS_EmptySet
<1>5. {j \in S : j < 1} = {}
  BY <1>1
<1>6. Number(t, 1) = 0
  BY <1>5, FS_EmptySet DEF Number
<1> QED BY <1>1, <1>3, <1>4, <1>6

(* The blocks of code: one for each start, in their order, that ends       *)
(* before the next one.                                                    *)
LEMMA BlocksAreNumbered ==
  ASSUME NEW t, IsCode(t)
  PROVE  LET bs == BlocksOf(t)
             K == Cardinality(Starts(t))
         IN /\ K \in Nat \ {0} /\ DOMAIN bs = 0 .. K - 1
            /\ \A b \in 0 .. K - 1 : /\ bs[b].start \in Starts(t) /\ Number(t, bs[b].start) = b
                                     /\ bs[b].end \in 1 .. Len(t) /\ bs[b].start <= bs[b].end
                                     /\ bs[b].end = IF b + 1 \in 0 .. K - 1
                                                    THEN bs[b + 1].start - 1 ELSE Len(t)
            /\ bs[0].start = 1
<1> DEFINE bs == BlocksOf(t)
           K == Cardinality(Starts(t))
           start(b) == CHOOSE i \in Starts(t) : Number(t, i) = b
<1>1. K \in Nat \ {0} /\ Len(t) \in Nat \ {0}
  BY StartsAreNumbered DEF IsCode
<1>2. bs = [b \in 0 .. K - 1 |->
              [start |-> start(b), end |-> IF b + 1 < K THEN start(b + 1) - 1 ELSE Len(t)]]
  BY DEF BlocksOf, Number
<1>3. \A b \in 0 .. K - 1 : start(b) \in Starts(t) /\ Number(t, start(b)) = b
  BY StartsAreNumbered
<1>4. \A i \in Starts(t) : i \in 1 .. Len(t) /\ Number(t, i) \in 0 .. K - 1
  BY StartsAreNumbered
<1>5. \A i, k \in Starts(t) : Number(t, i) < Number(t, k) => i < k
  <2> SUFFICES ASSUME NEW i \in Starts(t), NEW k \in Starts(t), Number(t, i) < Number(t, k), ~(i < k)
               PROVE FALSE
    OBVIOUS
  <2>1. i = k \/ k < i
    BY <1>4
  <2>2. Number(t, k) <= Number(t, i)
    BY <1>4, <2>1, StartsAreNumbered
  <2> QED BY <1>1, <1>4, <2>2
<1> HIDE DEF start, bs, K
<1>6. ASSUME NEW b \in 0 .. K - 1
      PROVE  /\ bs[b].start = start(b)
             /\ bs[b].end = IF b + 1 \in 0 .. K - 1 THEN start(b + 1) - 1 ELSE Len(t)
             /\ bs[b].end \in 1 .. Len(t) /\ start(b) <= bs[b].end
  <2>1. start(b) \in 1 .. Len(t) /\ Number(t, start(b)) = b
    BY <1>3, <1>4
  <2>2. bs[b].start = start(b) /\ bs[b].end = IF b + 1 < K THEN start(b + 1) - 1 ELSE Len(t)
    BY <1>2
  <2>3. CASE b + 1 < K
    <3>1. b + 1 \in 0 .. K - 1
      BY <1>1, <2>3
    <3>2. start(b + 1) \in 1 .. Len(t) /\ Number(t, start(b + 1)) = b + 1
      BY <1>3, <1>4, <3>1
    <3>3. start(b) < start(b + 1)
      <4>1. Number(t, start(b)) < Number(t, start(b + 1))
        BY <1>1, <2>1, <3>2
      <4> QED BY <1>3, <1>5, <3>1, <4>1
    <3> QED BY <1>1, <2>1, <2>2, <2>3, <3>1, <3>2, <3>3
  <2>4. CASE ~(b + 1 < K)
    BY <1>1, <2>1, <2>2, <2>4
  <2> QED BY <2>3, <2>4
<1>7. start(0) = 1
  <2>1. 0 \in 0 .. K - 1 /\ start(0) \in Starts(t) /\ Number(t, start(0)) = 0 /\ start(0) \in 1 .. Len(t)
    BY <1>1, <1>3, <1>4
  <2>2. 1 \in Starts(t) /\ Number(t, 1) = 0
    BY StartsAreNumbered
  <2>3. ~(1 < start(0))
    BY <2>1, <2>2, StartsAreNumbered
  <2> QED BY <1>1, <2>1, <2>3
<1>8. DOMAIN bs = 0 .. K - 1
  BY <1>2
<1>9. \A b \in 0 .. K - 1 : b + 1 \in 0 .. K - 1 => bs[b + 1].start = start(b + 1)
  BY <1>6
<1>10. bs[0].start = 1
  BY <1>1, <1>6, <1>7
<1> QED BY <1>1, <1>3, <1>6, <1>8, <1>9, <1>10 DEF bs, K

-----------------------------------------------------------------------------
(* The blocks that a jump to a label finds are all that start with it, and *)
(* the entry is not one of them.                                           *)
LEMMA LabelledBlocks ==
  ASSUME NEW t, IsCode(t), NEW l, l # 0
  PROVE  LET bs == BlocksOf(t)
         IN /\ Labelled(t, bs, l) \in Seq(DOMAIN bs \ {0})
            /\ \A c \in DOMAIN bs : t[bs[c].start].label = l => c \in Range(Labelled(t, bs, l))
<1> DEFINE bs == BlocksOf(t)
           K == Cardinality(DOMAIN bs)
           B == DOMAIN bs \ {0}
           ss == [n \in 1 .. K |-> IF t[bs[n - 1].start].label = l THEN <<n - 1>> ELSE <<>>]
<1>1. K \in Nat \ {0} /\ DOMAIN bs = 0 .. K - 1 /\ bs[0].start = 1
  <2>1. PICK k \in Nat \ {0} : DOMAIN bs = 0 .. k - 1 /\ bs[0].start = 1
    BY BlocksAreNumbered
  <2>2. Cardinality(0 .. k - 1) = k
    BY FS_Interval
  <2> HIDE DEF bs
  <2> QED BY <2>1, <2>2
<1>2. t[1].label = 0
  BY DEF IsCode
<1> HIDE DEF K, bs
<1>3. ASSUME NEW n \in 1 .. K PROVE ss[n] \in Seq(B)
  <2>1. CASE t[bs[n - 1].start].label = l
    <3>1. n - 1 \in 0 .. K - 1 /\ n - 1 # 0
      BY <1>1, <1>2, <2>1
    <3>2. <<n - 1>> \in Seq(B)
      BY <1>1, <3>1
    <3> QED BY <2>1, <3>2
  <2>2. CASE t[bs[n - 1].start].label # l
    BY <2>2
  <2> QED BY <2>1, <2>2
<1>4. ss \in [1 .. K -> Seq(B)]
  BY <1>3
<1>5. Labelled(t, bs, l) = FlattenSeq(ss)
  BY DEF Labelled, K
<1>6. ASSUME NEW c \in DOMAIN bs, t[bs[c].start].label = l
      PROVE  \E n \in 1 .. K : \E k \in 1 .. Len(ss[n]) : ss[n][k] = c
  <2>1. c + 1 \in 1 .. K /\ (c + 1) - 1 = c
    BY <1>1
  <2>2. ss[c + 1] = <<c>>
    BY <1>6, <2>1
  <2>3. Len(<<c>>) = 1 /\ <<c>>[1] = c
    OBVIOUS
  <2> HIDE DEF ss
  <2> QED BY <2>1, <2>2, <2>3
<1> HIDE DEF ss, B
<1>7. /\ FlattenSeq(ss) \in Seq(B)
      /\ \A n \in 1 .. K : \A k \in 1 .. Len(ss[n]) : ss[n][k] \in Range(FlattenSeq(ss))
  BY <1>1, <1>4, FlattenSeqHasAll
<1>8. \A c \in DOMAIN bs : t[bs[c].start].label = l => c \in Range(Labelled(t, bs, l))
  BY <1>5, <1>6, <1>7
<1> QED BY <1>5, <1>7, <1>8 DEF B, bs

(* What decides where a block goes on is one of its tacs. *)
LEMMA LeavesByItsTac ==
  ASSUME NEW t, IsCode(t), NEW b \in DOMAIN BlocksOf(t)
  PROVE  LET block == BlocksOf(t)[b]
             jumps == {i \in block.start .. block.end : t[i].op \in Jumps}
         IN /\ jumps = {} => Leaves(t, block) = t[block.end]
            /\ jumps # {} => \E i \in jumps : Leaves(t, block) = t[i] /\ \A j \in jumps : i <= j
<1> DEFINE block == BlocksOf(t)[b]
           jumps == {i \in block.start .. block.end : t[i].op \in Jumps}
           first == CHOOSE i \in jumps : \A j \in jumps : i <= j
<1>1. block.start \in Nat
  BY BlocksAreNumbered, StartsAreNumbered
<1>2. ASSUME jumps # {} PROVE first \in jumps /\ \A j \in jumps : first <= j
  <2>1. jumps \in SUBSET Nat
    BY <1>1
  <2> HIDE DEF jumps
  <2> QED BY <1>2, <2>1, LeastOfNaturals
<1>3. Leaves(t, block) = IF jumps = {} THEN t[block.end] ELSE t[first]
  BY DEF Leaves
<1> HIDE DEF jumps, first
<1> QED BY <1>2, <1>3 DEF jumps

(* A block goes on at blocks that are not the entry. *)
LEMMA GoesToBlocks ==
  ASSUME NEW t, IsCode(t), NEW b \in DOMAIN BlocksOf(t)
  PROVE  GoesTo(t, BlocksOf(t), b) \in Seq(DOMAIN BlocksOf(t) \ {0})
<1> DEFINE bs == BlocksOf(t)
           B == DOMAIN bs \ {0}
           tac == Leaves(t, bs[b])
           K == Cardinality(Starts(t))
<1>1. /\ K \in Nat \ {0} /\ DOMAIN bs = 0 .. K - 1
      /\ bs[b].start \in 1 .. Len(t) /\ bs[b].end \in 1 .. Len(t)
      /\ b + 1 \notin 0 .. K - 1 => bs[b].end = Len(t)
  <2>1. K \in Nat \ {0} /\ DOMAIN bs = 0 .. K - 1
    BY BlocksAreNumbered
  <2>2. bs[b].start \in Starts(t) /\ bs[b].end \in 1 .. Len(t) /\ (b + 1 \notin 0 .. K - 1 => bs[b].end = Len(t))
    BY BlocksAreNumbered
  <2> QED BY <2>1, <2>2, StartsAreNumbered
<1>2. PICK i \in 1 .. Len(t) : /\ tac = t[i]
                               /\ tac.op \notin Jumps => i = bs[b].end
  <2>1. Len(t) \in Nat
    BY DEF IsCode
  <2> QED BY <1>1, <2>1, LeavesByItsTac
<1>3. tac.op \in Jumps \cup ConditionalJumps => Labelled(t, bs, tac.target) \in Seq(B)
  <2>1. tac.op \in Jumps \cup ConditionalJumps => tac.target # 0
    BY <1>2 DEF IsCode
  <2> HIDE DEF tac
  <2> QED BY <2>1, LabelledBlocks
<1>4. tac.op \in ConditionalJumps => b + 1 \in DOMAIN bs
  <2>1. tac.op \in ConditionalJumps => tac.op \notin Jumps
    BY DEF Jumps, ConditionalJumps
  <2>2. tac.op \in ConditionalJumps => i # Len(t)
    BY <1>2 DEF IsCode
  <2> HIDE DEF tac, bs
  <2> QED BY <1>1, <1>2, <2>1, <2>2
<1>5. b + 1 # 0
  BY <1>1
<1>6. b + 1 \in DOMAIN bs => <<b + 1>> \in Seq(B)
  <2> HIDE DEF bs
  <2> QED BY <1>5
<1>7. GoesTo(t, bs, b) = IF tac.op \in Jumps THEN Labelled(t, bs, tac.target)
                         ELSE IF tac.op \in ConditionalJumps THEN Labelled(t, bs, tac.target) \o <<b + 1>>
                         ELSE IF tac.op # "IR_RETURN" /\ b + 1 \in DOMAIN bs THEN <<b + 1>> ELSE <<>>
  BY DEF GoesTo
<1>8. \A s, u \in Seq(B) : s \o u \in Seq(B)
  OBVIOUS
<1>9. <<>> \in Seq(B)
  OBVIOUS
<1> HIDE DEF tac, bs, B
<1>10. GoesTo(t, bs, b) \in Seq(B)
  <2>1. CASE tac.op \in Jumps
    BY <1>3, <1>7, <2>1
  <2>2. CASE tac.op \notin Jumps /\ tac.op \in ConditionalJumps
    BY <1>3, <1>4, <1>6, <1>7, <1>8, <2>2
  <2>3. CASE tac.op \notin Jumps /\ tac.op \notin ConditionalJumps
    BY <1>6, <1>7, <1>9, <2>3
  <2> QED BY <2>1, <2>2, <2>3
<1> QED BY <1>10 DEF B, bs

(* The edges are those from a block to where it goes on. *)
LEMMA EdgesLeadOn ==
  ASSUME NEW t, IsCode(t)
  PROVE  /\ EdgesOf(t, BlocksOf(t)) \in Seq(Range(EdgesOf(t, BlocksOf(t))))
         /\ \A e \in Range(EdgesOf(t, BlocksOf(t))) :
              e[1] \in DOMAIN BlocksOf(t) /\ e[2] \in DOMAIN BlocksOf(t) /\ e[2] # 0
         /\ \A b \in DOMAIN BlocksOf(t) : \A c \in Range(GoesTo(t, BlocksOf(t), b)) :
              <<b, c>> \in Range(EdgesOf(t, BlocksOf(t)))
<1> DEFINE bs == BlocksOf(t)
           D == DOMAIN bs
           K == Cardinality(D)
           S == D \X (D \ {0})
           to(b) == GoesTo(t, bs, b)
           from(b) == [k \in 1 .. Len(to(b)) |-> <<b, to(b)[k]>>]
           ss == [n \in 1 .. K |-> from(n - 1)]
<1>1. K \in Nat \ {0} /\ D = 0 .. K - 1
  <2>1. PICK k \in Nat \ {0} : DOMAIN bs = 0 .. k - 1
    BY BlocksAreNumbered
  <2>2. Cardinality(0 .. k - 1) = k
    BY FS_Interval
  <2> HIDE DEF bs
  <2> QED BY <2>1, <2>2
<1>2. \A b \in D : to(b) \in Seq(D \ {0})
  BY GoesToBlocks
<1>3. EdgesOf(t, bs) = FlattenSeq(ss)
  BY DEF EdgesOf
<1> HIDE DEF bs, K, to, D
<1>4. ASSUME NEW b \in D PROVE from(b) \in Seq(S) /\ Len(from(b)) = Len(to(b))
  <2>1. to(b) \in Seq(D \ {0}) /\ Len(to(b)) \in Nat
    BY <1>2
  <2>2. from(b) \in [1 .. Len(to(b)) -> S]
    <3>1. ASSUME NEW k \in 1 .. Len(to(b)) PROVE to(b)[k] \in D \ {0}
      BY <2>1
    <3>2. ASSUME NEW c \in D \ {0} PROVE <<b, c>> \in S
      OBVIOUS
    <3> HIDE DEF S
    <3> QED BY <3>1, <3>2
  <2> HIDE DEF from, S
  <2> QED BY <2>1, <2>2
<1>5. ss \in [1 .. K -> Seq(S)]
  <2> SUFFICES ASSUME NEW n \in 1 .. K PROVE from(n - 1) \in Seq(S)
    OBVIOUS
  <2>1. n - 1 \in D
    BY <1>1
  <2> HIDE DEF from, S
  <2> QED BY <1>4, <2>1
<1>6. ASSUME NEW b \in D, NEW c \in Range(to(b))
      PROVE  \E n \in 1 .. K : \E k \in 1 .. Len(ss[n]) : ss[n][k] = <<b, c>>
  <2>1. b + 1 \in 1 .. K /\ (b + 1) - 1 = b
    BY <1>1
  <2>2. ss[b + 1] = from(b)
    <3> HIDE DEF from
    <3> QED BY <2>1
  <2>3. PICK k \in 1 .. Len(to(b)) : to(b)[k] = c
    <3>1. DOMAIN to(b) = 1 .. Len(to(b))
      BY <1>2
    <3> QED BY <1>6, <3>1 DEF Range
  <2>4. from(b)[k] = <<b, c>>
    BY <2>3
  <2> HIDE DEF from, ss
  <2> QED BY <1>4, <2>1, <2>2, <2>3, <2>4
<1> HIDE DEF ss, S
<1>7. /\ FlattenSeq(ss) \in Seq(S)
      /\ \A n \in 1 .. K : \A k \in 1 .. Len(ss[n]) : ss[n][k] \in Range(FlattenSeq(ss))
  BY <1>1, <1>5, FlattenSeqHasAll
<1>8. \A b \in D : \A c \in Range(to(b)) : <<b, c>> \in Range(EdgesOf(t, bs))
  BY <1>3, <1>6, <1>7
<1>9. EdgesOf(t, bs) \in Seq(S)
  BY <1>3, <1>7
<1>10. D = DOMAIN BlocksOf(t) /\ bs = BlocksOf(t) /\ \A b : to(b) = GoesTo(t, BlocksOf(t), b)
  BY DEF D, bs, to
<1>11. \A e \in Range(EdgesOf(t, bs)) : e[1] \in D /\ e[2] \in D /\ e[2] # 0
  <2>1. \A e \in Range(EdgesOf(t, bs)) : e \in S
    BY ONLY <1>9 DEF Range
  <2>2. \A e \in S : e[1] \in D /\ e[2] \in D /\ e[2] # 0
    BY DEF S
  <2> QED BY ONLY <2>1, <2>2
<1>12. EdgesOf(t, bs) \in Seq(Range(EdgesOf(t, bs)))
  <2> DEFINE s == EdgesOf(t, bs)
  <2>1. s \in Seq(S)
    BY <1>9
  <2> HIDE DEF s
  <2>2. Len(s) \in Nat /\ DOMAIN s = 1 .. Len(s) /\ s = [i \in 1 .. Len(s) |-> s[i]]
    BY ONLY <2>1
  <2>3. s \in [1 .. Len(s) -> Range(s)]
    BY ONLY <2>2 DEF Range
  <2>4. s \in Seq(Range(s))
    BY ONLY <2>2, <2>3
  <2> QED BY <2>4 DEF s
<1> QED BY ONLY <1>8, <1>10, <1>11, <1>12

-----------------------------------------------------------------------------
(* No block that is reached follows one that is not.                       *)
ReachedFollowReached == \A e \in Range(edges) : e[2] \in Reached => e[1] \in Reached

(* While make_block_dominance works: the blocks are numbered, those that   *)
(* the round has visited without a change have the dominators that their   *)
(* predecessors give them, the entry has itself, and no dominator of a     *)
(* reached block is lost.                                                  *)
DominanceInv ==
  /\ FlowGraph
  /\ Blocks = 0 .. Cardinality(Blocks) - 1
  /\ dom \in [Blocks -> SUBSET Blocks]
  /\ dom[0] = {0}
  /\ visit \in 0 .. Cardinality(Blocks)
  /\ ~changed => \A b \in Blocks : b < visit => dom[b] = NewDominators(b)
  /\ ReachedFollowReached => \A b \in Reached : Dominators(b) \subseteq dom[b]

LEMMA EntryKeepsItself ==
  ASSUME FlowGraph
  PROVE  NewDominators(0) = {0}
BY DEF FlowGraph, NewDominators, Predecessors

(* make_control_flow_graph makes a graph.                                  *)
LEMMA GraphIsMade ==
  ASSUME IsCode(tacs), MakeControlFlowGraph
  PROVE  DominanceInv'
<1> DEFINE t == Trimmed(tacs)
           N == Cardinality(Starts(t))
<1>1. IsCode(t) /\ tacs' = t /\ blocks' = BlocksOf(t) /\ edges' = EdgesOf(t, BlocksOf(t))
  BY TrimmedIsCode DEF MakeControlFlowGraph
<1>2. N \in Nat \ {0} /\ Blocks' = 0 .. N - 1
  <2>1. N \in Nat \ {0} /\ DOMAIN BlocksOf(t) = 0 .. N - 1
    BY <1>1, BlocksAreNumbered
  <2> QED BY <1>1, <2>1 DEF Blocks
<1> HIDE DEF t, N
<1>3. IsFiniteSet(0 .. N - 1) /\ Cardinality(0 .. N - 1) = N
  BY <1>2, FS_Interval
<1>4. FlowGraph'
  <2>1. /\ edges' \in Seq(Range(edges'))
        /\ \A e \in Range(edges') : e[1] \in Blocks' /\ e[2] \in Blocks' /\ e[2] # 0
    BY <1>1, EdgesLeadOn DEF Blocks
  <2>2. 0 .. N - 1 \subseteq Nat
    BY <1>2
  <2> QED BY <1>2, <1>3, <2>1, <2>2 DEF FlowGraph
<1>5. dom' = [b \in Blocks' |-> IF b = 0 THEN {0} ELSE Blocks'] /\ visit' = 0
  BY DEF MakeControlFlowGraph, Blocks
<1>6. dom' \in [Blocks' -> SUBSET Blocks'] /\ dom'[0] = {0} /\ visit' \in 0 .. N
  BY <1>2, <1>5
<1>7. \A b : b \in Reached' => (Dominators(b)' \subseteq dom'[b] /\ b \in Blocks')
  <2>1. (FlowGraph => Dominators(0) \subseteq {0} /\ Reached \in SUBSET Blocks)'
    BY GraphsAreReachedFromEntry, PTL
  <2>2. \A b : Dominators(b)' \subseteq Blocks'
    BY DEF Dominators
  <2> SUFFICES ASSUME NEW b \in Reached' PROVE Dominators(b)' \subseteq dom'[b] /\ b \in Blocks'
    OBVIOUS
  <2>4. b \in Blocks'
    BY <1>4, <2>1
  <2>5. CASE b = 0
    BY <1>4, <1>6, <2>1, <2>4, <2>5
  <2>6. CASE b # 0
    <3>1. dom'[b] = Blocks'
      BY <1>5, <2>4, <2>6
    <3> QED BY <2>2, <2>4, <3>1
  <2> QED BY <2>5, <2>6
<1>8. \A b \in Blocks' : ~(b < visit')
  BY <1>2, <1>5
<1> QED BY <1>2, <1>3, <1>4, <1>6, <1>7, <1>8 DEF DominanceInv

(* A visit keeps every dominator of a reached block: those of the block    *)
(* are, but for itself, those of all its predecessors.                     *)
LEMMA VisitKeepsDominators ==
  ASSUME DominanceInv, visit \in Blocks, ReachedFollowReached, visit \in Reached
  PROVE  Dominators(visit) \subseteq NewDominators(visit)
<1> SUFFICES ASSUME NEW a \in Dominators(visit), a # visit
             PROVE  a \in NewDominators(visit)
  BY DEF NewDominators
<1>1. FlowGraph /\ a \in Blocks
  BY DEF DominanceInv, Dominators
<1>2. visit # 0
  BY <1>1, DominatorsOfEntry
<1>3. Predecessors(visit) # {}
  BY <1>1, <1>2, ReachedByAnEdge DEF Predecessors
<1>4. ASSUME NEW p \in Predecessors(visit) PROVE a \in dom[p]
  <2>1. PICK e \in Range(edges) : e[1] = p /\ e[2] = visit
    BY DEF Predecessors
  <2>2. p \in Reached
    BY <2>1 DEF ReachedFollowReached
  <2>3. a \in Dominators(p)
    BY <1>1, <2>1, DominatorsOfEdge
  <2> QED BY <2>2, <2>3 DEF DominanceInv
<1> QED BY <1>1, <1>3, <1>4 DEF NewDominators

LEMMA VisitDominanceKeepsInv ==
  ASSUME DominanceInv, VisitDominance
  PROVE  DominanceInv'
<1>1. /\ UNCHANGED <<blocks, edges>> /\ visit \in Blocks
      /\ dom' = [dom EXCEPT ![visit] = NewDominators(visit)]
      /\ changed' = (changed \/ dom' # dom)
      /\ visit' = visit + 1
  BY DEF VisitDominance
<1>2. /\ Blocks' = Blocks /\ Reached' = Reached /\ (FlowGraph' <=> FlowGraph)
      /\ (ReachedFollowReached' <=> ReachedFollowReached)
      /\ \A b : Dominators(b)' = Dominators(b) /\ Predecessors(b)' = Predecessors(b)
  BY <1>1 DEF Blocks, Reached, FlowGraph, ReachedFollowReached, Dominators, Predecessors, ReachedWithout,
              Near, Further
<1>3. NewDominators(visit) \in SUBSET Blocks
  BY <1>1 DEF NewDominators
<1>4. dom' \in [Blocks -> SUBSET Blocks]
  BY <1>1, <1>3 DEF DominanceInv
<1>5. dom'[0] = {0}
  BY <1>1, EntryKeepsItself DEF DominanceInv
<1>6. Cardinality(Blocks) \in Nat
  BY FS_CardinalityType DEF DominanceInv, FlowGraph
<1>7. visit' \in 0 .. Cardinality(Blocks)
  BY <1>1, <1>6 DEF DominanceInv
<1>8. ASSUME ~changed', NEW b \in Blocks, b < visit' PROVE dom'[b] = NewDominators(b)'
  <2>1. ~changed /\ dom' = dom
    BY <1>1, <1>8
  <2>2. \A c : NewDominators(c)' = NewDominators(c)
    BY <1>2, <2>1 DEF NewDominators
  <2>3. dom'[visit] = NewDominators(visit)
    BY <1>1 DEF DominanceInv
  <2>4. b = visit \/ b < visit
    BY <1>1, <1>6, <1>8 DEF DominanceInv
  <2> QED BY <2>1, <2>2, <2>3, <2>4 DEF DominanceInv
<1>9. ASSUME ReachedFollowReached, NEW b \in Reached PROVE Dominators(b) \subseteq dom'[b]
  <2>1. Dominators(b) \subseteq dom[b]
    BY <1>9 DEF DominanceInv
  <2>2. CASE b = visit
    BY <1>1, <1>9, <2>2, VisitKeepsDominators DEF DominanceInv
  <2>3. CASE b # visit
    BY <1>1, <2>1, <2>3 DEF DominanceInv
  <2> QED BY <2>2, <2>3
<1> QED BY <1>2, <1>4, <1>5, <1>7, <1>8, <1>9 DEF DominanceInv

(* When a round changes nothing, what is left is dominance: a block that   *)
(* can be reached without a cannot have a as one of its dominators, as the *)
(* blocks on the way do not.                                               *)
LEMMA DominanceSuffices ==
  ASSUME stage = "dominance" => DominanceInv
  PROVE  DominatorsAreFound
<1> SUFFICES ASSUME DominanceFound
             PROVE  /\ \A b \in Reached : dom[b] \subseteq Dominators(b)
                    /\ ReachedFollowReached => \A b \in Reached : dom[b] = Dominators(b)
  BY DEF DominatorsAreFound, ReachedFollowReached
<1>1. DominanceInv /\ visit \notin Blocks /\ ~changed
  BY DEF DominanceFound
<1>2. \A b \in Blocks : dom[b] = NewDominators(b)
  <2>1. Cardinality(Blocks) \in Nat
    BY <1>1, FS_CardinalityType DEF DominanceInv, FlowGraph
  <2>2. visit = Cardinality(Blocks)
    BY <1>1, <2>1 DEF DominanceInv
  <2>3. \A b \in Blocks : b < visit
    BY <1>1, <2>1, <2>2 DEF DominanceInv
  <2> QED BY <1>1, <2>3 DEF DominanceInv
<1>3. Reached \in SUBSET Blocks
  BY <1>1, ReachedIsClosed DEF Reached, DominanceInv
<1>4. ASSUME NEW b \in Reached, NEW a \in dom[b] PROVE a \in Dominators(b)
  <2>1. FlowGraph /\ a \in Blocks
    BY <1>1, <1>3, <1>4 DEF DominanceInv
  <2> DEFINE T == {n \in Nat : \A c \in Near(a)[n] : a \notin dom[c]}
  <2>2. 0 \in T
    BY <1>1, <2>1, NearIsReached DEF DominanceInv
  <2>3. ASSUME NEW n \in T PROVE n + 1 \in T
    <3>1. n \in Nat /\ Near(a)[n] \in SUBSET Blocks /\ Near(a)[n + 1] = Further(Near(a)[n], a)
      BY <2>1, NearIsReached
    <3>2. \A c \in Near(a)[n] : a \notin dom[c]
      BY <2>3
    <3>3. ASSUME NEW e \in Range(edges), e[1] \in Near(a)[n], e[2] # a PROVE a \notin dom[e[2]]
      <4>1. a \notin dom[e[1]] /\ e[1] \in Predecessors(e[2]) /\ e[2] \in Blocks
        BY <2>1, <3>2, <3>3 DEF Predecessors, FlowGraph
      <4>2. a \notin NewDominators(e[2])
        BY <3>3, <4>1 DEF NewDominators
      <4> QED BY <1>2, <4>1, <4>2
    <3>4. \A c \in Near(a)[n + 1] : a \notin dom[c]
      BY <3>1, <3>2, <3>3 DEF Further
    <3> QED BY <3>1, <3>4
  <2>4. T = Nat
    <3> HIDE DEF T
    <3>1. T \in SUBSET Nat
      BY DEF T
    <3> QED BY <2>2, <2>3, <3>1, AllNaturals
  <2>5. Cardinality(Blocks) \in Nat
    BY <2>1, FS_CardinalityType DEF FlowGraph
  <2>6. b \notin ReachedWithout(a)
    BY <1>4, <2>4, <2>5 DEF ReachedWithout
  <2> QED BY <2>1, <2>6 DEF Dominators
<1>5. ReachedFollowReached => \A b \in Reached : Dominators(b) \subseteq dom[b]
  BY <1>1 DEF DominanceInv
<1> QED BY <1>4, <1>5

-----------------------------------------------------------------------------
(* The block of a tac.                                                     *)
Within(t, b, i) == BlocksOf(t)[b].start <= i /\ i <= BlocksOf(t)[b].end

LEMMA OneBlockEach ==
  ASSUME NEW t, IsCode(t)
  PROVE  /\ \A i \in 1 .. Len(t) : \E b \in DOMAIN BlocksOf(t) : Within(t, b, i)
         /\ \A i \in 1 .. Len(t), b, c \in DOMAIN BlocksOf(t) :
              Within(t, b, i) /\ Within(t, c, i) => b = c
<1> DEFINE bs == BlocksOf(t)
           K == Cardinality(Starts(t))
<1>1. /\ K \in Nat \ {0} /\ DOMAIN bs = 0 .. K - 1
      /\ \A b \in 0 .. K - 1 : /\ bs[b].start \in Starts(t) /\ Number(t, bs[b].start) = b
                               /\ bs[b].end \in 1 .. Len(t) /\ bs[b].start <= bs[b].end
                               /\ bs[b].end = IF b + 1 \in 0 .. K - 1 THEN bs[b + 1].start - 1 ELSE Len(t)
      /\ bs[0].start = 1
  BY BlocksAreNumbered
<1>2. Len(t) \in Nat \ {0} /\ \A i \in Starts(t) : i \in 1 .. Len(t) /\ Number(t, i) \in 0 .. K - 1
  BY StartsAreNumbered DEF IsCode
<1> HIDE DEF K, bs
<1> DEFINE T == {n \in Nat : n + 1 \in 1 .. Len(t) =>
                               \E b \in 0 .. K - 1 : bs[b].start <= n + 1 /\ n + 1 <= bs[b].end}
<1>3. 0 \in T
  <2>1. 0 \in 0 .. K - 1 /\ bs[0].start = 1 /\ bs[0].start <= bs[0].end
    BY <1>1
  <2> QED BY <2>1
<1>4. ASSUME NEW n \in T PROVE n + 1 \in T
  <2> SUFFICES ASSUME (n + 1) + 1 \in 1 .. Len(t)
               PROVE  \E b \in 0 .. K - 1 : bs[b].start <= (n + 1) + 1 /\ (n + 1) + 1 <= bs[b].end
    OBVIOUS
  <2>1. n \in Nat /\ n + 1 \in 1 .. Len(t)
    BY <1>2
  <2>2. PICK b \in 0 .. K - 1 : bs[b].start <= n + 1 /\ n + 1 <= bs[b].end
    BY <2>1
  <2>3. bs[b].start \in Nat /\ bs[b].end \in Nat
    BY <1>1, <1>2
  <2>4. CASE n + 1 < bs[b].end
    <3>1. bs[b].start <= (n + 1) + 1 /\ (n + 1) + 1 <= bs[b].end
      BY <2>1, <2>2, <2>3, <2>4
    <3> QED BY <3>1
  <2>5. CASE n + 1 = bs[b].end
    <3>1. b + 1 \in 0 .. K - 1 /\ bs[b].end = bs[b + 1].start - 1
      <4>1. bs[b].end # Len(t)
        BY <1>2, <2>1, <2>5
      <4> QED BY <1>1, <4>1
    <3>2. bs[b + 1].start \in Nat /\ bs[b + 1].start <= bs[b + 1].end
      BY <1>1, <1>2, <3>1
    <3>3. bs[b + 1].start = (n + 1) + 1
      BY <2>1, <2>5, <3>1, <3>2
    <3> QED BY <3>1, <3>2, <3>3
  <2> QED BY <2>1, <2>2, <2>3, <2>4, <2>5
<1>5. T = Nat
  <2> HIDE DEF T
  <2>1. T \in SUBSET Nat
    BY DEF T
  <2> QED BY <1>3, <1>4, <2>1, AllNaturals
<1>6. ASSUME NEW i \in 1 .. Len(t)
      PROVE  \E b \in 0 .. K - 1 : bs[b].start <= i /\ i <= bs[b].end
  <2>1. i - 1 \in T /\ (i - 1) + 1 = i
    <3> HIDE DEF T
    <3> QED BY <1>2, <1>5
  <2> QED BY <2>1
<1>7. ASSUME NEW i \in 1 .. Len(t), NEW b \in 0 .. K - 1, NEW c \in 0 .. K - 1, b < c,
             i <= bs[b].end, bs[c].start <= i
      PROVE  FALSE
  <2>1. b + 1 \in 0 .. K - 1 /\ bs[b].end = bs[b + 1].start - 1
    BY <1>1, <1>7
  <2>2. bs[b + 1].start <= bs[c].start
    <3>1. CASE b + 1 = c
      BY <1>1, <1>2, <3>1
    <3>2. CASE b + 1 < c
      <4>1. /\ bs[b + 1].start \in Starts(t) /\ Number(t, bs[b + 1].start) = b + 1
            /\ bs[c].start \in Starts(t) /\ Number(t, bs[c].start) = c
        BY <1>1, <2>1
      <4>2. ~(bs[c].start < bs[b + 1].start)
        <5> SUFFICES ASSUME bs[c].start < bs[b + 1].start PROVE FALSE
          OBVIOUS
        <5>1. Number(t, bs[c].start) < Number(t, bs[b + 1].start)
          BY <4>1, StartsAreNumbered
        <5> QED BY <1>1, <3>2, <4>1, <5>1
      <4>3. bs[c].start \in Nat /\ bs[b + 1].start \in Nat
        BY <1>2, <4>1
      <4> QED BY <4>2, <4>3
    <3> QED BY <1>1, <1>7, <3>1, <3>2
  <2>3. bs[b + 1].start \in Nat /\ bs[c].start \in Nat
    BY <1>1, <1>2, <2>1
  <2> QED BY <1>2, <1>7, <2>1, <2>2, <2>3
<1>8. ASSUME NEW i \in 1 .. Len(t), NEW b \in DOMAIN bs, NEW c \in DOMAIN bs,
             bs[b].start <= i, i <= bs[b].end, bs[c].start <= i, i <= bs[c].end
      PROVE  b = c
  <2>1. b < c \/ c < b \/ b = c
    BY <1>1
  <2> QED BY <1>1, <1>7, <1>8, <2>1
<1> QED BY <1>1, <1>6, <1>8 DEF Within, bs

(* A start is that of its block; a tac that is none is in the block of the *)
(* tac before it; the block of a tac before a start ends there.            *)
LEMMA StartsBeginBlocks ==
  ASSUME NEW t, IsCode(t), NEW i \in 1 .. Len(t), NEW b \in DOMAIN BlocksOf(t), Within(t, b, i)
  PROVE  /\ i \in Starts(t) => BlocksOf(t)[b].start = i
         /\ i # BlocksOf(t)[b].start => t[i].label = 0
         /\ i + 1 \in 1 .. Len(t) /\ i + 1 \notin Starts(t) => Within(t, b, i + 1)
         /\ i + 1 \in Starts(t) => /\ b + 1 \in DOMAIN BlocksOf(t) /\ Within(t, b + 1, i + 1)
                                   /\ BlocksOf(t)[b].end = i
<1> DEFINE bs == BlocksOf(t)
           K == Cardinality(Starts(t))
<1>1. /\ K \in Nat \ {0} /\ DOMAIN bs = 0 .. K - 1
      /\ \A c \in 0 .. K - 1 : /\ bs[c].start \in Starts(t) /\ Number(t, bs[c].start) = c
                               /\ bs[c].end \in 1 .. Len(t) /\ bs[c].start <= bs[c].end
                               /\ bs[c].end = IF c + 1 \in 0 .. K - 1 THEN bs[c + 1].start - 1 ELSE Len(t)
  BY BlocksAreNumbered
<1>2. Len(t) \in Nat \ {0} /\ \A k \in Starts(t) : k \in 1 .. Len(t) /\ Number(t, k) \in 0 .. K - 1
  BY StartsAreNumbered DEF IsCode
<1> HIDE DEF K
<1>3. ASSUME NEW k \in Starts(t), NEW c \in DOMAIN bs, Within(t, c, k) PROVE bs[c].start = k
  <2> DEFINE d == Number(t, k)
  <2>1. d \in 0 .. K - 1 /\ bs[d].start \in Starts(t) /\ Number(t, bs[d].start) = d
    BY <1>1, <1>2
  <2>2. bs[d].start = k
    <3>1. k \in 1 .. Len(t) /\ bs[d].start \in 1 .. Len(t)
      BY <1>2, <2>1
    <3>2. ~(k < bs[d].start) /\ ~(bs[d].start < k)
      <4> HIDE DEF bs
      <4>1. Number(t, k) \in Nat
        BY <2>1, <1>1
      <4>2. k < bs[d].start => Number(t, k) < Number(t, bs[d].start)
        BY <2>1, StartsAreNumbered
      <4>3. bs[d].start < k => Number(t, bs[d].start) < Number(t, k)
        BY <2>1, StartsAreNumbered
      <4> QED BY <2>1, <4>1, <4>2, <4>3
    <3> HIDE DEF bs, d
    <3> QED BY <3>1, <3>2
  <2>3. Within(t, d, k)
    <3>1. bs[d].start <= bs[d].end
      BY <1>1, <2>1
    <3>2. k \in Nat /\ bs[d].end \in Nat
      BY <1>1, <1>2, <2>1
    <3> HIDE DEF d
    <3> QED BY <2>2, <3>1, <3>2 DEF Within
  <2>4. c = d
    <3>1. k \in 1 .. Len(t) /\ d \in DOMAIN BlocksOf(t)
      BY <1>1, <1>2, <2>1
    <3> HIDE DEF d
    <3> QED BY <1>3, <2>3, <3>1, OneBlockEach
  <2> QED BY <2>2, <2>4
<1>4. ASSUME i # bs[b].start PROVE t[i].label = 0
  <2>1. i \notin Starts(t)
    BY <1>3, <1>4
  <2> QED BY <2>1 DEF Starts
<1>5. ASSUME i + 1 \in 1 .. Len(t)
      PROVE  \/ Within(t, b, i + 1) /\ bs[b].start # i + 1
             \/ /\ b + 1 \in 0 .. K - 1 /\ bs[b + 1].start = i + 1
                /\ bs[b].end = i /\ Within(t, b + 1, i + 1)
  <2>1. bs[b].start <= i /\ i <= bs[b].end /\ bs[b].end \in Nat /\ bs[b].start \in Nat
    BY <1>1, <1>2 DEF Within
  <2>2. CASE i < bs[b].end
    <3>1. bs[b].start <= i + 1 /\ i + 1 <= bs[b].end /\ bs[b].start # i + 1
      <4> HIDE DEF bs
      <4> QED BY <2>1, <2>2
    <3> QED BY <3>1 DEF Within
  <2>3. CASE i = bs[b].end
    <3>1. bs[b].end # Len(t)
      <4> HIDE DEF bs
      <4> QED BY <1>2, <1>5, <2>3
    <3>2. b + 1 \in 0 .. K - 1 /\ bs[b].end = bs[b + 1].start - 1
      BY <1>1, <3>1
    <3>3. bs[b + 1].start \in Nat /\ bs[b + 1].end \in Nat /\ bs[b + 1].start <= bs[b + 1].end
      BY <1>1, <1>2, <3>2
    <3>4. bs[b + 1].start = i + 1
      <4> HIDE DEF bs
      <4> QED BY <2>3, <3>2, <3>3
    <3>5. bs[b + 1].start <= i + 1 /\ i + 1 <= bs[b + 1].end
      <4> HIDE DEF bs
      <4> QED BY <3>3, <3>4
    <3> QED BY <2>3, <3>2, <3>4, <3>5 DEF Within
  <2>4. i < bs[b].end \/ i = bs[b].end
    <3> HIDE DEF bs
    <3> QED BY <2>1
  <2> QED BY <2>2, <2>3, <2>4
<1>6. ASSUME i + 1 \in 1 .. Len(t), i + 1 \notin Starts(t) PROVE Within(t, b, i + 1)
  <2>1. \A c \in 0 .. K - 1 : bs[c].start \in Starts(t)
    BY <1>1
  <2> HIDE DEF bs
  <2> QED BY <1>5, <1>6, <2>1
<1>7. ASSUME i + 1 \in Starts(t)
      PROVE  b + 1 \in DOMAIN bs /\ Within(t, b + 1, i + 1) /\ bs[b].end = i
  <2>1. i + 1 \in 1 .. Len(t)
    BY <1>2, <1>7
  <2>2. Within(t, b, i + 1) => bs[b].start = i + 1
    BY <1>3, <1>7
  <2> HIDE DEF bs
  <2> QED BY <1>1, <1>5, <2>1, <2>2
<1> QED BY <1>3, <1>4, <1>6, <1>7

(* A tac that no jump before it keeps from running.                        *)
AfterJump(t, i) == \E j \in 1 .. i - 1 : t[j].op \in Jumps /\ \A k \in j + 1 .. i : t[k].label = 0

(* Such a tac is left as it was, and where it jumps, or ends its block, it *)
(* decides where the block goes on.                                        *)
LEMMA RunningTacDecides ==
  ASSUME NEW s, IsCode(s), NEW t, t = Trimmed(s), NEW i \in 1 .. Len(s), ~AfterJump(s, i),
         NEW b \in DOMAIN BlocksOf(t), Within(t, b, i)
  PROVE  /\ t[i] = s[i]
         /\ s[i].op \in Jumps \/ i = BlocksOf(t)[b].end => Leaves(t, BlocksOf(t)[b]) = s[i]
<1> DEFINE block == BlocksOf(t)[b]
           jumps == {j \in block.start .. block.end : t[j].op \in Jumps}
<1>1. /\ IsCode(t) /\ Len(t) = Len(s) /\ Len(s) \in Nat
      /\ \A j \in 1 .. Len(s) : t[j].label = s[j].label
      /\ \A j \in 1 .. Len(s) : ~Dead(s, j) => t[j] = s[j]
  BY TrimmedIsCode
<1>2. t[i] = s[i]
  BY <1>1 DEF Dead, AfterJump
<1>3. block.start \in 1 .. Len(s) /\ block.end \in 1 .. Len(s) /\ block.start <= i /\ i <= block.end
  <2>1. block.start \in Starts(t) /\ block.end \in 1 .. Len(t)
    BY <1>1, BlocksAreNumbered
  <2>2. block.start \in 1 .. Len(t)
    BY <1>1, <2>1, StartsAreNumbered
  <2> QED BY <1>1, <2>1, <2>2 DEF Within
<1>4. ASSUME NEW j \in jumps, j < i PROVE FALSE
  <2>1. j \in 1 .. Len(s) /\ j \in 1 .. i - 1 /\ block.start <= j
    BY <1>1, <1>3, <1>4
  <2>2. s[j].op \in Jumps
    <3>1. t[j].op \in Jumps
      BY <1>4
    <3>2. t[j] = s[j] \/ t[j].op = "IR_NOP"
      <4>1. t[j] = IF Dead(s, j) THEN Nop(s[j]) ELSE s[j]
        BY <2>1 DEF Trimmed
      <4>2. Nop(s[j]).op = "IR_NOP"
        <5>1. "op" \in DOMAIN s[j]
          BY <2>1 DEF IsCode
        <5> QED BY <5>1 DEF Nop
      <4> QED BY <4>1, <4>2
    <3>3. "IR_NOP" \notin Jumps
      BY DEF Jumps
    <3> QED BY <3>1, <3>2, <3>3
  <2>3. ASSUME NEW k \in j + 1 .. i PROVE s[k].label = 0
    <3>1. k \in 1 .. Len(t) /\ k # block.start /\ block.start <= k /\ k <= block.end
      BY <1>1, <1>3, <2>1
    <3>2. Within(t, b, k)
      BY <3>1 DEF Within
    <3>3. t[k].label = 0
      BY <1>1, <3>1, <3>2, StartsBeginBlocks
    <3> QED BY <1>1, <3>1, <3>3
  <2> QED BY <2>1, <2>2, <2>3 DEF AfterJump
<1>5. ASSUME s[i].op \in Jumps \/ i = block.end PROVE Leaves(t, block) = s[i]
  <2>1. CASE jumps = {}
    <3>1. i \notin jumps
      BY <2>1
    <3>2. i = block.end
      BY <1>2, <1>3, <1>5, <3>1
    <3> QED BY <1>1, <1>2, <2>1, <3>2, LeavesByItsTac
  <2>2. CASE jumps # {}
    <3>1. PICK k \in jumps : Leaves(t, block) = t[k] /\ \A j \in jumps : k <= j
      BY <1>1, <2>2, LeavesByItsTac
    <3>2. k = i
      <4>1. k \in Nat /\ k <= block.end /\ ~(k < i)
        BY <1>3, <1>4
      <4>2. s[i].op \in Jumps => k <= i
        <5>1. s[i].op \in Jumps => i \in jumps
          BY <1>2, <1>3
        <5> QED BY <3>1, <5>1
      <4> QED BY <1>3, <1>5, <4>1, <4>2
    <3> QED BY <1>2, <3>1, <3>2
  <2> QED BY <2>1, <2>2
<1> QED BY <1>2, <1>5

-----------------------------------------------------------------------------
(* What is reached without a block is the least set that has the entry and *)
(* is closed under the edges that do not lead to the block.                *)
LEMMA ReachedIsLeast ==
  ASSUME FlowGraph, NEW a, NEW X, a # 0 => 0 \in X,
         \A e \in Range(edges) :
           e[1] \in X /\ e[1] \in ReachedWithout(a) /\ e[2] # a => e[2] \in X
  PROVE  ReachedWithout(a) \subseteq X
<1> DEFINE T == {n \in Nat : Near(a)[n] \subseteq X \cap ReachedWithout(a)}
<1>1. Cardinality(Blocks) \in Nat
  BY FS_CardinalityType DEF FlowGraph
<1>2. 0 \in T
  <2>1. Near(a)[0] \subseteq X
    BY NearIsReached
  <2>2. Near(a)[0] \subseteq ReachedWithout(a)
    BY <1>1, NearGrows DEF ReachedWithout
  <2> QED BY <2>1, <2>2
<1>3. ASSUME NEW n \in T PROVE n + 1 \in T
  <2>1. /\ n \in Nat /\ n + 1 \in Nat /\ Near(a)[n] \subseteq X \cap ReachedWithout(a)
        /\ Near(a)[n + 1] = Further(Near(a)[n], a)
    BY NearIsReached
  <2>2. ASSUME NEW e \in Range(edges), e[1] \in Near(a)[n], e[2] # a
        PROVE  e[2] \in X \cap ReachedWithout(a)
    BY <2>1, <2>2, ReachedIsClosed
  <2>3. Further(Near(a)[n], a) \subseteq X \cap ReachedWithout(a)
    BY <2>1, <2>2 DEF Further
  <2> QED BY <2>1, <2>3
<1>4. T = Nat
  <2> HIDE DEF T
  <2>1. T \in SUBSET Nat
    BY DEF T
  <2> QED BY <1>2, <1>3, <2>1, AllNaturals
<1> QED BY <1>1, <1>4 DEF ReachedWithout

LEMMA WaysFromEntry ==
  ASSUME FlowGraph
  PROVE  /\ Reached \in SUBSET Blocks
         /\ \A a : a # 0 => 0 \in ReachedWithout(a)
         /\ 0 \in Reached
         /\ \A a : a \notin ReachedWithout(a) /\ ReachedWithout(a) \subseteq Reached
         /\ \A e \in Range(edges) : e[1] \in Reached => e[2] \in Reached
         /\ Dominators(0) = {0}
<1>1. Cardinality(Blocks) \in Nat /\ 0 \in Blocks /\ -1 \notin Blocks
  BY FS_CardinalityType DEF FlowGraph
<1>2. ASSUME NEW a, a # 0 PROVE 0 \in ReachedWithout(a)
  <2>1. 0 \in Near(a)[0]
    BY <1>2, NearIsReached
  <2> QED BY <1>1, <2>1, NearGrows DEF ReachedWithout
<1>3. 0 \in Reached
  BY <1>2 DEF Reached
<1>4. \A e \in Range(edges) : e[2] \in Blocks /\ e[2] # -1 /\ e[2] # 0
  BY <1>1 DEF FlowGraph
<1>5. \A e \in Range(edges) : e[1] \in Reached => e[2] \in Reached
  BY <1>4, ReachedIsClosed DEF Reached
<1>6. Reached \in SUBSET Blocks
  BY ReachedIsClosed DEF Reached
<1>7. ASSUME NEW a PROVE ReachedWithout(a) \subseteq Reached
  BY <1>3, <1>5, ReachedIsLeast
<1>8. ASSUME NEW a PROVE a \notin ReachedWithout(a)
  <2> DEFINE X == Blocks \ {a}
  <2>1. (a # 0 => 0 \in X) /\ \A e \in Range(edges) : e[2] # a => e[2] \in X
    BY <1>1, <1>4
  <2>2. ReachedWithout(a) \subseteq X
    <3> HIDE DEF X
    <3> QED BY <2>1, ReachedIsLeast
  <2> QED BY <2>2
<1>9. 0 \in Dominators(0)
  BY <1>1, <1>8 DEF Dominators
<1> QED BY <1>2, <1>3, <1>5, <1>6, <1>7, <1>8, <1>9, DominatorsOfEntry

(* The dominators of a dominator are dominators.                           *)
LEMMA DominanceIsTransitive ==
  ASSUME FlowGraph, NEW c, NEW b \in Dominators(c), NEW a \in Dominators(b)
  PROVE  a \in Dominators(c)
<1>1. CASE b = 0
  BY <1>1, WaysFromEntry
<1>2. CASE b # 0
  <2>1. b \notin ReachedWithout(a) /\ c \notin ReachedWithout(b) /\ a \in Blocks
    BY DEF Dominators
  <2>2. 0 \in ReachedWithout(b)
    BY <1>2, WaysFromEntry
  <2>3. ASSUME NEW e \in Range(edges), e[1] \in ReachedWithout(b), e[1] \in ReachedWithout(a), e[2] # a
        PROVE  e[2] \in ReachedWithout(b)
    <3>1. e[2] \in ReachedWithout(a)
      BY <2>3, ReachedIsClosed
    <3>2. e[2] # b
      BY <2>1, <3>1
    <3> QED BY <2>3, <3>2, ReachedIsClosed
  <2>4. ReachedWithout(a) \subseteq ReachedWithout(b)
    BY <2>2, <2>3, ReachedIsLeast
  <2> QED BY <2>1, <2>4 DEF Dominators
<1> QED BY <1>1, <1>2

-----------------------------------------------------------------------------
(* What make_rpo gives: places in which the entry comes first, and each    *)
(* block after one that has an edge to it.                                 *)
Ordered ==
  /\ FlowGraph
  /\ Blocks = 0 .. Cardinality(Blocks) - 1
  /\ rpos \in [Blocks -> 0 .. Cardinality(Blocks) - 1]
  /\ \A b \in Blocks \ Reached : rpos[b] = 0
  /\ \A b, c \in Reached : rpos[b] = rpos[c] => b = c
  /\ \A b \in Reached \ {0} :
       /\ rpos[0] < rpos[b]
       /\ \E e \in Range(edges) : e[2] = b /\ e[1] \in Reached /\ rpos[e[1]] < rpos[b]

(* The calls of make_rpo: each but the first, for the entry, follows an    *)
(* edge from the one before it.                                            *)
PathInv ==
  /\ path \in Seq(Reached) /\ path # <<>>
  /\ \A k \in 1 .. Len(path) : path[k] = 0 <=> k = Len(path)
  /\ \A j, k \in 1 .. Len(path) : path[j] = path[k] => j = k
  /\ \A k \in 1 .. Len(path) - 1 : \E e \in Range(edges) : e[1] = path[k + 1] /\ e[2] = path[k]
  /\ \A k \in 1 .. Len(path) : rpos[path[k]] = 0

(* Places are given downwards, to blocks whose edges have been followed,   *)
(* while a block that they were reached from has none or a lower one.      *)
HavePlace == {b \in Blocks : rpos[b] # 0}
PlacesInv ==
  /\ rpos \in [Blocks -> 0 .. Cardinality(Blocks) - 1]
  /\ HavePlace \subseteq Reached
  /\ pos = Cardinality(Blocks) - 1 - Cardinality(HavePlace)
  /\ \A b \in HavePlace : pos < rpos[b]
  /\ \A b, c \in HavePlace : rpos[b] = rpos[c] => b = c
  /\ \A e \in Range(edges) : e[1] \in HavePlace => e[2] \in HavePlace \/ Contains(path, e[2])
  /\ \A b \in HavePlace :
       \E e \in Range(edges) :
         /\ e[2] = b
         /\ Contains(path, e[1]) \/ (e[1] \in HavePlace /\ rpos[e[1]] < rpos[b])

OrderInv ==
  /\ FlowGraph
  /\ Blocks = 0 .. Cardinality(Blocks) - 1
  /\ IF path = <<>> THEN Ordered ELSE PathInv /\ PlacesInv

LEMMA PushedSeq ==
  ASSUME NEW S, NEW s \in Seq(S), NEW x \in S
  PROVE  /\ <<x>> \o s \in Seq(S) /\ <<x>> \o s # <<>>
         /\ Len(<<x>> \o s) = Len(s) + 1
         /\ (<<x>> \o s)[1] = x
         /\ \A k \in 1 .. Len(s) : (<<x>> \o s)[k + 1] = s[k]
OBVIOUS

LEMMA PoppedSeq ==
  ASSUME NEW S, NEW s \in Seq(S), s # <<>>
  PROVE  /\ Tail(s) \in Seq(S) /\ Head(s) = s[1] /\ Len(s) \in Nat \ {0}
         /\ Len(Tail(s)) = Len(s) - 1
         /\ \A k \in 1 .. Len(s) - 1 : Tail(s)[k] = s[k + 1]
OBVIOUS

LEMMA EdgesAreIndexed ==
  ASSUME FlowGraph
  PROVE  /\ Len(edges) \in Nat
         /\ \A k \in 1 .. Len(edges) : edges[k] \in Range(edges)
         /\ \A e \in Range(edges) : \E k \in 1 .. Len(edges) : e = edges[k]
BY DEF FlowGraph, Range

(* A block that is called for waits on the path.                           *)
LEMMA PushKeepsOrder ==
  ASSUME FlowGraph, PathInv, PlacesInv, MakeRpo, Ahead # {}
  PROVE  path' # <<>> /\ PathInv' /\ PlacesInv'
<1>1. PICK k \in Ahead : path' = <<edges[k][2]>> \o path
  BY DEF MakeRpo
<1>2. UNCHANGED <<blocks, edges, rpos, pos>>
  BY DEF MakeRpo
<1> DEFINE n == edges[k][2]
<1>3. k \in 1 .. Len(edges) /\ edges[k][1] = path[1] /\ n # 0 /\ rpos[n] = 0 /\ ~Contains(path, n)
  BY PoppedSeq DEF Ahead, Unplaced, PathInv
<1>4. PICK e \in Range(edges) : e[1] = path[1] /\ e[2] = n
  BY <1>3, EdgesAreIndexed
<1>5. n \in Reached /\ path[1] \in Reached /\ Len(path) \in Nat \ {0}
  BY <1>4, PoppedSeq, WaysFromEntry DEF PathInv
<1> HIDE DEF n
<1>6. /\ path' \in Seq(Reached) /\ path' # <<>> /\ Len(path') = Len(path) + 1
      /\ path'[1] = n /\ \A j \in 1 .. Len(path) : path'[j + 1] = path[j]
  BY <1>1, <1>5, PushedSeq DEF PathInv, n
<1>7. \A j \in 2 .. Len(path') : /\ j - 1 \in 1 .. Len(path) /\ path'[j] = path[j - 1]
  <2> SUFFICES ASSUME NEW j \in 2 .. Len(path')
               PROVE  j - 1 \in 1 .. Len(path) /\ path'[j] = path[j - 1]
    OBVIOUS
  <2>1. j - 1 \in 1 .. Len(path) /\ (j - 1) + 1 = j
    BY <1>5, <1>6
  <2> QED BY <1>6, <2>1
<1>8. Reached' = Reached /\ Blocks' = Blocks
  BY <1>2 DEF Reached, ReachedWithout, Near, Further, Blocks
<1>9. \A j \in 1 .. Len(path') : j = 1 \/ j \in 2 .. Len(path')
  BY <1>5, <1>6
<1>10. \A j \in 1 .. Len(path) : path[j] # n
  BY <1>3 DEF Contains
<1>11. PathInv'
  <2>1. \A j \in 1 .. Len(path') : path'[j] = 0 <=> j = Len(path')
    <3> SUFFICES ASSUME NEW j \in 1 .. Len(path') PROVE path'[j] = 0 <=> j = Len(path')
      OBVIOUS
    <3>1. CASE j = 1
      BY <1>3, <1>5, <1>6, <3>1
    <3>2. CASE j \in 2 .. Len(path')
      <4>1. path[j - 1] = 0 <=> j - 1 = Len(path)
        BY <1>7, <3>2 DEF PathInv
      <4>2. j - 1 = Len(path) <=> j = Len(path')
        BY <1>5, <1>6
      <4> QED BY <1>7, <3>2, <4>1, <4>2
    <3> QED BY <1>9, <3>1, <3>2
  <2>2. \A i, j \in 1 .. Len(path') : path'[i] = path'[j] => i = j
    <3> SUFFICES ASSUME NEW i \in 1 .. Len(path'), NEW j \in 1 .. Len(path'), path'[i] = path'[j]
                 PROVE  i = j
      OBVIOUS
    <3>1. CASE i = 1 \/ j = 1
      BY <1>6, <1>7, <1>9, <1>10, <3>1
    <3>2. CASE i \in 2 .. Len(path') /\ j \in 2 .. Len(path')
      <4>1. i - 1 \in 1 .. Len(path) /\ j - 1 \in 1 .. Len(path) /\ path[i - 1] = path[j - 1]
        BY <1>7, <3>2
      <4>2. i - 1 = j - 1
        BY <4>1 DEF PathInv
      <4> QED BY <1>6, <3>2, <4>2
    <3> QED BY <1>9, <3>1, <3>2
  <2>3. ASSUME NEW j \in 1 .. Len(path') - 1
        PROVE  \E x \in Range(edges) : x[1] = path'[j + 1] /\ x[2] = path'[j]
    <3>1. j + 1 \in 2 .. Len(path') /\ (j + 1) - 1 = j
      BY <1>5, <1>6
    <3>2. CASE j = 1
      BY <1>4, <1>6, <1>7, <3>1, <3>2
    <3>3. CASE j # 1
      <4>1. j \in 2 .. Len(path') /\ j - 1 \in 1 .. Len(path) - 1 /\ (j - 1) + 1 = j
        BY <1>5, <1>6, <3>3
      <4>2. PICK x \in Range(edges) : x[1] = path[(j - 1) + 1] /\ x[2] = path[j - 1]
        BY <4>1 DEF PathInv
      <4> QED BY <1>7, <3>1, <4>1, <4>2
    <3> QED BY <3>2, <3>3
  <2>4. ASSUME NEW j \in 1 .. Len(path') PROVE rpos[path'[j]] = 0
    BY <1>3, <1>6, <1>7, <1>9 DEF PathInv, n
  <2> QED BY <1>2, <1>6, <1>8, <2>1, <2>2, <2>3, <2>4 DEF PathInv
<1>12. \A b : Contains(path, b) => Contains(path, b)'
  <2> SUFFICES ASSUME NEW b, NEW j \in 1 .. Len(path), path[j] = b
               PROVE  \E i \in 1 .. Len(path') : path'[i] = b
    BY DEF Contains
  <2>1. j + 1 \in 1 .. Len(path') /\ path'[j + 1] = b
    BY <1>5, <1>6
  <2> QED BY <2>1
<1>13. PlacesInv'
  BY <1>2, <1>8, <1>12 DEF PlacesInv, HavePlace
<1> QED BY <1>6, <1>11, <1>13

(* A block from which nothing is left to visit gets the next place, which  *)
(* is below all that were given.                                           *)
LEMMA PlaceGiven ==
  ASSUME FlowGraph, PathInv, PlacesInv, MakeRpo, Ahead = {}
  PROVE  /\ rpos' = [rpos EXCEPT ![path[1]] = pos] /\ pos' = pos - 1 /\ path' = Tail(path)
         /\ UNCHANGED <<blocks, edges>>
         /\ path[1] \in Reached /\ path[1] \in Blocks /\ path[1] \notin HavePlace
         /\ \A e \in Range(edges) : e[1] = path[1] => e[2] \in HavePlace \/ Contains(path, e[2])
         /\ IsFiniteSet(HavePlace)
         /\ Cardinality(HavePlace) \in Nat /\ Cardinality(Blocks) \in Nat
         /\ pos \in 0 .. Cardinality(Blocks) - 1
         /\ path[1] # 0 => pos # 0
<1>1. /\ path[1] \in Reached /\ path[1] \in Blocks /\ Head(path) = path[1] /\ rpos[path[1]] = 0
      /\ Len(path) \in Nat \ {0}
  BY PoppedSeq, WaysFromEntry DEF PathInv
<1>2. /\ rpos' = [rpos EXCEPT ![path[1]] = pos] /\ pos' = pos - 1 /\ path' = Tail(path)
      /\ UNCHANGED <<blocks, edges>>
  BY <1>1 DEF MakeRpo
<1>3. Contains(path, 0)
  BY <1>1 DEF PathInv, Contains
<1>4. ASSUME NEW e \in Range(edges), e[1] = path[1]
      PROVE  e[2] \in HavePlace \/ Contains(path, e[2])
  <2>1. PICK k \in 1 .. Len(edges) : e = edges[k]
    BY EdgesAreIndexed
  <2>2. k \notin Ahead
    OBVIOUS
  <2>3. ~Unplaced(e[2]) /\ e[2] \in Blocks
    BY <1>1, <1>4, <2>1, <2>2 DEF Ahead, FlowGraph
  <2> QED BY <1>3, <2>3 DEF Unplaced, HavePlace
<1>5. IsFiniteSet(HavePlace) /\ Cardinality(HavePlace) \in Nat /\ Cardinality(Blocks) \in Nat
  <2>1. HavePlace \subseteq Blocks
    BY DEF HavePlace
  <2> QED BY <2>1, FS_Subset, FS_CardinalityType DEF FlowGraph
<1>6. /\ Cardinality(HavePlace) <= Cardinality(Blocks) - 1
      /\ path[1] # 0 => Cardinality(HavePlace) <= Cardinality(Blocks) - 2
  <2>1. path[1] \notin HavePlace /\ 0 \notin HavePlace /\ 0 \in Blocks
    <3>1. rpos[path[Len(path)]] = 0 /\ path[Len(path)] = 0
      BY <1>1 DEF PathInv
    <3> QED BY <1>1, <3>1 DEF HavePlace, FlowGraph
  <2>2. /\ HavePlace \subseteq Blocks \ {path[1]}
        /\ HavePlace \subseteq (Blocks \ {path[1]}) \ {0}
    BY <2>1 DEF HavePlace
  <2>3. /\ IsFiniteSet(Blocks \ {path[1]})
        /\ Cardinality(Blocks \ {path[1]}) = Cardinality(Blocks) - 1
    BY <1>1, FS_RemoveElement DEF FlowGraph
  <2>4. path[1] # 0 => /\ IsFiniteSet((Blocks \ {path[1]}) \ {0})
                       /\ Cardinality((Blocks \ {path[1]}) \ {0}) = Cardinality(Blocks) - 2
    <3> SUFFICES ASSUME path[1] # 0
                 PROVE  /\ IsFiniteSet((Blocks \ {path[1]}) \ {0})
                        /\ Cardinality((Blocks \ {path[1]}) \ {0}) = Cardinality(Blocks) - 2
      OBVIOUS
    <3>1. 0 \in Blocks \ {path[1]}
      BY <2>1
    <3>2. /\ IsFiniteSet((Blocks \ {path[1]}) \ {0})
          /\ Cardinality((Blocks \ {path[1]}) \ {0}) = Cardinality(Blocks \ {path[1]}) - 1
      BY <2>3, <3>1, FS_RemoveElement
    <3> QED BY <1>5, <2>3, <3>2
  <2>5. Cardinality(HavePlace) <= Cardinality(Blocks \ {path[1]})
    BY <2>2, <2>3, FS_Subset
  <2>6. path[1] # 0 => Cardinality(HavePlace) <= Cardinality((Blocks \ {path[1]}) \ {0})
    BY <2>2, <2>4, FS_Subset
  <2> QED BY <1>5, <2>3, <2>4, <2>5, <2>6
<1>7. pos = Cardinality(Blocks) - 1 - Cardinality(HavePlace) /\ path[1] \notin HavePlace
  BY <1>1 DEF PlacesInv, HavePlace
<1>8. pos \in 0 .. Cardinality(Blocks) - 1 /\ (path[1] # 0 => pos # 0)
  BY <1>5, <1>6, <1>7
<1> QED BY <1>1, <1>2, <1>4, <1>5, <1>7, <1>8

LEMMA PopKeepsOrder ==
  ASSUME FlowGraph, PathInv, PlacesInv, MakeRpo, Ahead = {}, path[1] # 0
  PROVE  path' # <<>> /\ PathInv' /\ PlacesInv'
<1> DEFINE h == path[1]
<1>1. /\ rpos' = [rpos EXCEPT ![h] = pos] /\ pos' = pos - 1 /\ path' = Tail(path)
      /\ UNCHANGED <<blocks, edges>>
      /\ h \in Reached /\ h \in Blocks /\ h \notin HavePlace
      /\ \A e \in Range(edges) : e[1] = h => e[2] \in HavePlace \/ Contains(path, e[2])
      /\ IsFiniteSet(HavePlace)
      /\ Cardinality(HavePlace) \in Nat /\ Cardinality(Blocks) \in Nat
      /\ pos \in 0 .. Cardinality(Blocks) - 1 /\ pos # 0
  BY PlaceGiven
<1>2. Reached' = Reached /\ Blocks' = Blocks
  BY <1>1 DEF Reached, ReachedWithout, Near, Further, Blocks
<1>3. /\ Len(path) \in Nat \ {0} /\ path' \in Seq(Reached) /\ Len(path') = Len(path) - 1
      /\ \A k \in 1 .. Len(path) - 1 : path'[k] = path[k + 1]
  BY <1>1, PoppedSeq DEF PathInv
<1>4. Len(path) # 1 /\ path' # <<>>
  <2>1. Len(path) # 1
    BY <1>3 DEF PathInv
  <2> QED BY <1>3, <2>1
<1>5. \A k \in 1 .. Len(path') : k + 1 \in 1 .. Len(path) /\ path'[k] = path[k + 1]
  BY <1>3
<1>6. \A b \in Blocks : rpos'[b] = IF b = h THEN pos ELSE rpos[b]
  BY <1>1 DEF PlacesInv
<1>7. \A k \in 1 .. Len(path') : path'[k] # h /\ path'[k] \in Blocks
  <2> SUFFICES ASSUME NEW k \in 1 .. Len(path') PROVE path'[k] # h /\ path'[k] \in Blocks
    OBVIOUS
  <2>1. k + 1 \in 1 .. Len(path) /\ path'[k] = path[k + 1] /\ 1 \in 1 .. Len(path) /\ k + 1 # 1
    BY <1>3, <1>5
  <2>2. path[k + 1] # path[1]
    BY <2>1 DEF PathInv
  <2>3. path[k + 1] \in Reached
    BY <2>1 DEF PathInv
  <2> QED BY <2>1, <2>2, <2>3, WaysFromEntry
<1> HIDE DEF h
<1>8. PathInv'
  <2>1. ASSUME NEW k \in 1 .. Len(path') PROVE path'[k] = 0 <=> k = Len(path')
    <3>1. path[k + 1] = 0 <=> k + 1 = Len(path)
      BY <1>5 DEF PathInv
    <3> QED BY <1>3, <1>5, <3>1
  <2>2. ASSUME NEW j \in 1 .. Len(path'), NEW k \in 1 .. Len(path'), path'[j] = path'[k]
        PROVE  j = k
    <3>1. j + 1 \in 1 .. Len(path) /\ k + 1 \in 1 .. Len(path) /\ path[j + 1] = path[k + 1]
      BY <1>5, <2>2
    <3>2. j + 1 = k + 1
      BY <3>1 DEF PathInv
    <3> QED BY <1>3, <3>2
  <2>3. ASSUME NEW k \in 1 .. Len(path') - 1
        PROVE  \E e \in Range(edges) : e[1] = path'[k + 1] /\ e[2] = path'[k]
    <3>1. k \in 1 .. Len(path') /\ k + 1 \in 1 .. Len(path') /\ k + 1 \in 1 .. Len(path) - 1
      BY <1>3
    <3>2. PICK e \in Range(edges) : e[1] = path[(k + 1) + 1] /\ e[2] = path[k + 1]
      BY <3>1 DEF PathInv
    <3> QED BY <1>5, <3>1, <3>2
  <2>4. ASSUME NEW k \in 1 .. Len(path') PROVE rpos'[path'[k]] = 0
    <3>1. rpos[path[k + 1]] = 0
      BY <1>5 DEF PathInv
    <3> QED BY <1>5, <1>6, <1>7, <3>1
  <2> QED BY <1>1, <1>2, <1>3, <1>4, <2>1, <2>2, <2>3, <2>4 DEF PathInv
<1>9. HavePlace' = HavePlace \cup {h}
  BY <1>1, <1>2, <1>6 DEF HavePlace
<1>10. Cardinality(HavePlace') = Cardinality(HavePlace) + 1
  BY <1>1, <1>9, FS_AddElement
<1>11. \A b : Contains(path, b) => b = h \/ Contains(path, b)'
  <2> SUFFICES ASSUME NEW b, NEW j \in 1 .. Len(path), path[j] = b, b # h
               PROVE  \E i \in 1 .. Len(path') : path'[i] = b
    BY DEF Contains
  <2>1. j # 1
    BY DEF h
  <2>2. j - 1 \in 1 .. Len(path') /\ (j - 1) + 1 = j
    BY <1>3, <2>1
  <2>3. path'[j - 1] = b
    BY <1>5, <2>2
  <2> QED BY <2>2, <2>3
<1>12. ASSUME NEW b \in HavePlace'
       PROVE  \E e \in Range(edges) :
                /\ e[2] = b
                /\ Contains(path, e[1])' \/ (e[1] \in HavePlace' /\ rpos'[e[1]] < rpos'[b])
  <2>1. CASE b = h
    <3>1. PICK e \in Range(edges) : e[1] = path[1 + 1] /\ e[2] = path[1]
      <4>1. 1 \in 1 .. Len(path) - 1
        BY <1>3, <1>4
      <4> QED BY <4>1 DEF PathInv
    <3>2. 1 \in 1 .. Len(path') /\ path'[1] = path[1 + 1]
      BY <1>3, <1>4
    <3> QED BY <2>1, <3>1, <3>2 DEF Contains, h
  <2>2. CASE b # h
    <3>1. b \in HavePlace /\ b \in Blocks
      BY <1>9, <2>2 DEF HavePlace
    <3>2. PICK e \in Range(edges) : /\ e[2] = b
                                    /\ Contains(path, e[1]) \/ (e[1] \in HavePlace /\ rpos[e[1]] < rpos[b])
      BY <3>1 DEF PlacesInv
    <3>3. CASE e[1] = h
      BY <1>1, <1>6, <1>9, <2>2, <3>1, <3>2, <3>3 DEF PlacesInv
    <3>4. CASE e[1] # h /\ Contains(path, e[1])
      BY <1>11, <3>2, <3>4
    <3>5. CASE e[1] # h /\ e[1] \in HavePlace /\ rpos[e[1]] < rpos[b]
      <4>1. e[1] \in Blocks
        BY <3>5 DEF HavePlace
      <4> QED BY <1>6, <1>9, <2>2, <3>1, <3>2, <3>5, <4>1
    <3> QED BY <3>2, <3>3, <3>4, <3>5
  <2> QED BY <2>1, <2>2
<1>13. PlacesInv'
  <2>1. rpos' \in [Blocks -> 0 .. Cardinality(Blocks) - 1]
    BY <1>1 DEF PlacesInv
  <2>2. HavePlace' \subseteq Reached
    BY <1>1, <1>9 DEF PlacesInv
  <2>3. pos' = Cardinality(Blocks) - 1 - Cardinality(HavePlace')
    BY <1>1, <1>10 DEF PlacesInv
  <2>4. /\ \A b \in HavePlace' : pos' < rpos'[b]
        /\ \A b, c \in HavePlace' : rpos'[b] = rpos'[c] => b = c
    <3>1. \A b \in HavePlace : b # h /\ b \in Blocks /\ rpos'[b] = rpos[b] /\ pos < rpos[b] /\ rpos[b] \in Int
      BY <1>1, <1>6 DEF PlacesInv, HavePlace
    <3>2. rpos'[h] = pos /\ pos \in Int /\ pos' = pos - 1
      BY <1>1, <1>6
    <3>3. \A b \in HavePlace' : b = h \/ b \in HavePlace
      BY <1>9
    <3>4. \A b \in HavePlace' : pos' < rpos'[b]
      BY <3>1, <3>2, <3>3
    <3>5. \A b, c \in HavePlace : rpos[b] = rpos[c] => b = c
      BY DEF PlacesInv
    <3> QED BY <3>1, <3>2, <3>3, <3>4, <3>5
  <2>5. \A e \in Range(edges) : e[1] \in HavePlace' => e[2] \in HavePlace' \/ Contains(path, e[2])'
    BY <1>1, <1>9, <1>11 DEF PlacesInv
  <2> QED BY <1>1, <1>2, <1>12, <2>1, <2>2, <2>3, <2>4, <2>5 DEF PlacesInv
<1> QED BY <1>4, <1>8, <1>13

(* The entry is the last to get a place.                                   *)
LEMMA LastPlace ==
  ASSUME FlowGraph, Blocks = 0 .. Cardinality(Blocks) - 1, PathInv, PlacesInv, MakeRpo,
         Ahead = {}, path[1] = 0
  PROVE  path' = <<>> /\ Ordered'
<1>1. /\ rpos' = [rpos EXCEPT ![0] = pos] /\ path' = Tail(path)
      /\ UNCHANGED <<blocks, edges>>
      /\ 0 \in Reached /\ 0 \in Blocks /\ 0 \notin HavePlace
      /\ \A e \in Range(edges) : e[1] = 0 => e[2] \in HavePlace \/ Contains(path, e[2])
      /\ pos \in 0 .. Cardinality(Blocks) - 1 /\ Cardinality(Blocks) \in Nat
  BY PlaceGiven
<1>2. /\ Reached' = Reached /\ Blocks' = Blocks /\ Cardinality(Blocks)' = Cardinality(Blocks)
      /\ FlowGraph'
  BY <1>1 DEF Reached, ReachedWithout, Near, Further, Blocks, FlowGraph
<1>3. Len(path) = 1 /\ path' = <<>>
  <2>1. Len(path) \in Nat \ {0}
    BY PoppedSeq DEF PathInv
  <2>2. 1 = Len(path)
    <3>1. 1 \in 1 .. Len(path) /\ path[1] = 0
      BY <2>1
    <3> QED BY <3>1 DEF PathInv
  <2>3. Tail(path) \in Seq(Reached) /\ Len(Tail(path)) = 0
    BY <2>2, PoppedSeq DEF PathInv
  <2> QED BY <1>1, <2>2, <2>3
<1>4. \A b : Contains(path, b) => b = 0
  BY <1>3 DEF Contains
<1>5. Reached = HavePlace \cup {0}
  <2> DEFINE X == HavePlace \cup {0}
  <2>1. \A e \in Range(edges) : e[1] \in X => e[2] \in X
    BY <1>1, <1>4 DEF PlacesInv
  <2>2. Reached \subseteq X
    <3> HIDE DEF X
    <3>1. 0 \in X
      BY DEF X
    <3> QED BY <2>1, <3>1, ReachedIsLeast DEF Reached
  <2> QED BY <1>1, <2>2 DEF PlacesInv
<1>6. \A b \in Blocks : rpos'[b] = IF b = 0 THEN pos ELSE rpos[b]
  BY <1>1 DEF PlacesInv
<1>7. rpos' \in [Blocks -> 0 .. Cardinality(Blocks) - 1]
  BY <1>1 DEF PlacesInv
<1>8. \A b \in Blocks \ Reached : rpos'[b] = 0
  BY <1>5, <1>6 DEF HavePlace
<1>9. \A b \in HavePlace : b # 0 /\ b \in Blocks /\ rpos'[b] = rpos[b] /\ pos < rpos[b] /\ rpos[b] \in Int
  BY <1>1, <1>6 DEF PlacesInv, HavePlace
<1>10. rpos'[0] = pos /\ pos \in Int
  BY <1>1, <1>6
<1>11. \A b, c \in Reached : rpos'[b] = rpos'[c] => b = c
  <2>1. \A b, c \in HavePlace : rpos[b] = rpos[c] => b = c
    BY DEF PlacesInv
  <2> QED BY <1>5, <1>9, <1>10, <2>1
<1>12. ASSUME NEW b \in Reached \ {0}
       PROVE  /\ rpos'[0] < rpos'[b]
              /\ \E e \in Range(edges) : e[2] = b /\ e[1] \in Reached /\ rpos'[e[1]] < rpos'[b]
  <2>1. b \in HavePlace
    BY <1>5
  <2>2. PICK e \in Range(edges) : /\ e[2] = b
                                  /\ Contains(path, e[1]) \/ (e[1] \in HavePlace /\ rpos[e[1]] < rpos[b])
    BY <2>1 DEF PlacesInv
  <2>3. CASE Contains(path, e[1])
    BY <1>1, <1>4, <1>9, <1>10, <2>1, <2>2, <2>3
  <2>4. CASE e[1] \in HavePlace /\ rpos[e[1]] < rpos[b]
    BY <1>5, <1>9, <1>10, <2>1, <2>2, <2>4
  <2> QED BY <2>2, <2>3, <2>4
<1> QED BY <1>1, <1>2, <1>3, <1>7, <1>8, <1>11, <1>12 DEF Ordered

-----------------------------------------------------------------------------
(* While immediate dominators are looked for: the entry is its own, and    *)
(* what is known of others leads up to lower places.                       *)
Known == {b \in Blocks : idom[b] # -1}
LeadsUp ==
  /\ Ordered
  /\ idom \in [Blocks -> Blocks \cup {-1}]
  /\ idom[0] = 0
  /\ Known \subseteq Reached
  /\ \A b \in Known \ {0} : idom[b] \in Known /\ rpos[idom[b]] < rpos[b]

(* The blocks that going up from b leads to.                               *)
Above(b) ==
  {a \in Known : \A X \in SUBSET Known : b \in X /\ (\A c \in X : idom[c] \in X) => a \in X}

LEMMA KnownBlocks ==
  ASSUME LeadsUp
  PROVE  /\ 0 \in Known
         /\ \A b \in Known : /\ b \in Blocks /\ b \in Reached /\ rpos[b] \in Nat /\ idom[b] \in Known
                             /\ b # 0 => rpos[0] < rpos[b]
         /\ \A b, c \in Known : rpos[b] = rpos[c] => b = c
<1>1. 0 \in Known
  BY DEF LeadsUp, Known, Ordered, FlowGraph
<1>2. ASSUME NEW b \in Known
      PROVE  /\ b \in Blocks /\ b \in Reached /\ rpos[b] \in Nat /\ idom[b] \in Known
             /\ b # 0 => rpos[0] < rpos[b]
  <2>1. b \in Blocks /\ b \in Reached
    BY DEF LeadsUp, Known
  <2>2. rpos[b] \in Nat
    BY <2>1 DEF LeadsUp, Ordered
  <2>3. b # 0 => rpos[0] < rpos[b]
    BY <2>1 DEF LeadsUp, Ordered
  <2>4. idom[b] \in Known
    BY <1>1 DEF LeadsUp
  <2> QED BY <2>1, <2>2, <2>3, <2>4
<1>3. \A b, c \in Known : rpos[b] = rpos[c] => b = c
  BY <1>2 DEF LeadsUp, Ordered
<1> QED BY <1>1, <1>2, <1>3

LEMMA AboveIsLeast ==
  ASSUME NEW b, NEW X \in SUBSET Known, b \in X, \A c \in X : idom[c] \in X
  PROVE  Above(b) \subseteq X
BY DEF Above

LEMMA GoingUp ==
  ASSUME LeadsUp, NEW b \in Known
  PROVE  /\ b \in Above(b) /\ Above(b) \subseteq Known
         /\ \A c \in Above(b) : idom[c] \in Above(b) /\ rpos[c] <= rpos[b] /\ Above(c) \subseteq Above(b)
         /\ b # 0 => Above(b) = {b} \cup Above(idom[b]) /\ b \notin Above(idom[b])
         /\ Above(0) = {0}
<1>1. b \in Above(b) /\ Above(b) \subseteq Known
  BY DEF Above
<1>2. \A c \in Above(b) : idom[c] \in Above(b)
  <2> SUFFICES ASSUME NEW c \in Above(b) PROVE idom[c] \in Above(b)
    OBVIOUS
  <2>1. idom[c] \in Known
    BY <1>1, KnownBlocks
  <2> QED BY <2>1 DEF Above
<1>3. ASSUME NEW d \in Known PROVE \A c \in Above(d) : rpos[c] <= rpos[d]
  <2> DEFINE X == {c \in Known : rpos[c] <= rpos[d]}
  <2>1. ASSUME NEW c \in X PROVE idom[c] \in X
    <3>1. c \in Known /\ idom[c] \in Known /\ rpos[c] <= rpos[d]
      BY KnownBlocks
    <3>2. rpos[c] \in Nat /\ rpos[idom[c]] \in Nat /\ rpos[d] \in Nat
      BY <3>1, KnownBlocks
    <3>3. rpos[idom[c]] <= rpos[c]
      BY <3>1, <3>2 DEF LeadsUp
    <3> QED BY <3>1, <3>2, <3>3
  <2>2. d \in X
    BY KnownBlocks
  <2>3. Above(d) \subseteq X
    <3>1. X \in SUBSET Known
      OBVIOUS
    <3> HIDE DEF X
    <3> QED BY <2>1, <2>2, <3>1, AboveIsLeast
  <2> QED BY <2>3
<1>4. \A c \in Above(b) : Above(c) \subseteq Above(b)
  BY <1>1, <1>2, AboveIsLeast
<1>5. Above(0) = {0}
  <2>1. 0 \in Known /\ idom[0] = 0
    BY KnownBlocks DEF LeadsUp
  <2>2. Above(0) \subseteq {0}
    BY <2>1, AboveIsLeast
  <2> QED BY <2>1, <2>2 DEF Above
<1>6. ASSUME b # 0 PROVE Above(b) = {b} \cup Above(idom[b]) /\ b \notin Above(idom[b])
  <2>1. idom[b] \in Known /\ rpos[idom[b]] < rpos[b]
    BY <1>6 DEF LeadsUp
  <2>2. Above(idom[b]) \subseteq Above(b)
    BY <1>1, <1>2, <1>4
  <2>3. \A c \in Above(idom[b]) : idom[c] \in Above(idom[b])
    <3> SUFFICES ASSUME NEW c \in Above(idom[b]) PROVE idom[c] \in Above(idom[b])
      OBVIOUS
    <3>1. c \in Known /\ idom[c] \in Known
      BY KnownBlocks DEF Above
    <3> QED BY <3>1 DEF Above
  <2>4. idom[b] \in Above(idom[b])
    BY <2>1 DEF Above
  <2>5. Above(b) \subseteq {b} \cup Above(idom[b])
    <3>1. {b} \cup Above(idom[b]) \in SUBSET Known
      BY DEF Above
    <3> QED BY <2>3, <2>4, <3>1, AboveIsLeast
  <2>6. b \notin Above(idom[b])
    <3>1. rpos[b] \in Nat /\ rpos[idom[b]] \in Nat
      BY <2>1, KnownBlocks
    <3> QED BY <1>3, <2>1, <3>1
  <2> QED BY <1>1, <2>2, <2>5, <2>6
<1> QED BY <1>1, <1>2, <1>3, <1>4, <1>5, <1>6

(* Two blocks that are known meet in the nearest block above both.         *)
Both(i, j) == Above(i) \cap Above(j)

LEMMA BothGoUp ==
  ASSUME LeadsUp, NEW i \in Known, NEW j \in Known, i # j
  PROVE  /\ Both(i, j) = Both(j, i)
         /\ rpos[i] > rpos[j] => /\ idom[i] \in Known /\ rpos[idom[i]] < rpos[i]
                                 /\ Both(i, j) = Both(idom[i], j)
         /\ ~(rpos[i] > rpos[j]) => /\ idom[j] \in Known /\ rpos[idom[j]] < rpos[j]
                                    /\ Both(i, j) = Both(i, idom[j])
<1>1. ASSUME NEW k \in Known, NEW l \in Known, rpos[k] > rpos[l]
      PROVE  idom[k] \in Known /\ rpos[idom[k]] < rpos[k] /\ Both(k, l) = Both(idom[k], l)
  <2>1. k # 0
    BY <1>1, KnownBlocks
  <2>2. Above(k) = {k} \cup Above(idom[k])
    BY <2>1, GoingUp
  <2>3. k \notin Above(l)
    <3>1. \A c \in Above(l) : rpos[c] <= rpos[l]
      BY GoingUp
    <3>2. rpos[k] \in Nat /\ rpos[l] \in Nat
      BY KnownBlocks
    <3> QED BY <1>1, <3>1, <3>2
  <2> QED BY <2>1, <2>2, <2>3 DEF Both, LeadsUp
<1>2. rpos[i] \in Nat /\ rpos[j] \in Nat /\ rpos[i] # rpos[j]
  BY KnownBlocks
<1>3. \A k, l : Both(k, l) = Both(l, k)
  BY DEF Both
<1>4. ~(rpos[i] > rpos[j]) => rpos[j] > rpos[i]
  BY <1>2
<1> QED BY <1>1, <1>3, <1>4

IsMeet(g) ==
  g = [f \in Known \X Known |->
        IF f[1] = f[2] THEN f[1]
        ELSE IF rpos[f[1]] > rpos[f[2]] THEN g[<<idom[f[1]], f[2]>>]
        ELSE g[<<f[1], idom[f[2]]>>]]

LEMMA MeetExists ==
  ASSUME LeadsUp
  PROVE  \E g : IsMeet(g)
<1> DEFINE top(S) == CHOOSE c \in S : \A d \in S : rpos[d] <= rpos[c]
           g == [f \in Known \X Known |-> top(Both(f[1], f[2]))]
<1>1. ASSUME NEW i \in Known PROVE top(Both(i, i)) = i
  <2>1. i \in Both(i, i) /\ \A d \in Both(i, i) : rpos[d] <= rpos[i] /\ d \in Known
    BY GoingUp DEF Both
  <2>2. \A c \in Both(i, i) : (\A d \in Both(i, i) : rpos[d] <= rpos[c]) => c = i
    <3> SUFFICES ASSUME NEW c \in Both(i, i), \A d \in Both(i, i) : rpos[d] <= rpos[c]
                 PROVE  c = i
      OBVIOUS
    <3>1. rpos[c] <= rpos[i] /\ rpos[i] <= rpos[c] /\ c \in Known
      BY <2>1
    <3>2. rpos[c] \in Nat /\ rpos[i] \in Nat
      BY <3>1, KnownBlocks
    <3>3. rpos[c] = rpos[i]
      BY <3>1, <3>2
    <3> QED BY <3>1, <3>3, KnownBlocks
  <2> QED BY <2>1, <2>2
<1>2. ASSUME NEW f \in Known \X Known
      PROVE  g[f] = IF f[1] = f[2] THEN f[1]
                    ELSE IF rpos[f[1]] > rpos[f[2]] THEN g[<<idom[f[1]], f[2]>>]
                    ELSE g[<<f[1], idom[f[2]]>>]
  <2>1. f[1] \in Known /\ f[2] \in Known /\ g[f] = top(Both(f[1], f[2]))
    OBVIOUS
  <2>2. \A k, l \in Known : g[<<k, l>>] = top(Both(k, l))
    OBVIOUS
  <2> HIDE DEF g, top
  <2>3. CASE f[1] = f[2]
    BY <1>1, <2>1, <2>3
  <2>4. CASE f[1] # f[2]
    BY <2>1, <2>2, <2>4, BothGoUp
  <2> QED BY <2>3, <2>4
<1>3. IsMeet(g)
  <2> HIDE DEF top
  <2>1. g = [f \in Known \X Known |-> g[f]]
    OBVIOUS
  <2> HIDE DEF g
  <2> QED BY <1>2, <2>1 DEF IsMeet
<1> QED BY <1>3

LEMMA MeetIsNearest ==
  ASSUME LeadsUp, NEW i \in Known, NEW j \in Known
  PROVE  /\ Intersect(i, j) \in Both(i, j)
         /\ Both(i, j) \subseteq Above(Intersect(i, j))
<1> DEFINE g == CHOOSE h : IsMeet(h)
<1>1. Intersect(i, j) = g[<<i, j>>]
  BY DEF Intersect, IsMeet, Known
<1>2. IsMeet(g)
  BY MeetExists
<1> HIDE DEF g
<1>3. \A k, l \in Known : g[<<k, l>>] = IF k = l THEN k
                                        ELSE IF rpos[k] > rpos[l] THEN g[<<idom[k], l>>]
                                        ELSE g[<<k, idom[l]>>]
  BY <1>2 DEF IsMeet
<1> DEFINE nearest(k, l) == g[<<k, l>>] \in Both(k, l) /\ Both(k, l) \subseteq Above(g[<<k, l>>])
           T == {n \in Nat : \A k, l \in Known : rpos[k] + rpos[l] < n => nearest(k, l)}
<1>4. \A k \in Known : rpos[k] \in Nat
  BY KnownBlocks
<1>5. 0 \in T
  BY <1>4
<1>6. ASSUME NEW n \in T PROVE n + 1 \in T
  <2> SUFFICES ASSUME NEW k \in Known, NEW l \in Known, rpos[k] + rpos[l] < n + 1
               PROVE  nearest(k, l)
    BY <1>6
  <2>1. n \in Nat /\ \A x, y \in Known : rpos[x] + rpos[y] < n => nearest(x, y)
    BY <1>6
  <2> HIDE DEF nearest
  <2>2. CASE k = l
    <3>1. g[<<k, l>>] = k
      BY <1>3, <2>2
    <3>2. k \in Above(k)
      BY GoingUp
    <3> QED BY <2>2, <3>1, <3>2 DEF nearest, Both
  <2>3. CASE k # l /\ rpos[k] > rpos[l]
    <3>1. idom[k] \in Known /\ rpos[idom[k]] < rpos[k] /\ Both(k, l) = Both(idom[k], l)
      BY <2>3, BothGoUp
    <3>2. rpos[idom[k]] + rpos[l] < n
      BY <1>4, <2>1, <3>1
    <3>3. nearest(idom[k], l)
      BY <2>1, <3>1, <3>2
    <3>4. g[<<k, l>>] = g[<<idom[k], l>>]
      BY <1>3, <2>3
    <3> QED BY <3>1, <3>3, <3>4 DEF nearest
  <2>4. CASE k # l /\ ~(rpos[k] > rpos[l])
    <3>1. idom[l] \in Known /\ rpos[idom[l]] < rpos[l] /\ Both(k, l) = Both(k, idom[l])
      BY <2>4, BothGoUp
    <3>2. rpos[k] + rpos[idom[l]] < n
      BY <1>4, <2>1, <3>1
    <3>3. nearest(k, idom[l])
      BY <2>1, <3>1, <3>2
    <3>4. g[<<k, l>>] = g[<<k, idom[l]>>]
      BY <1>3, <2>4
    <3> QED BY <3>1, <3>3, <3>4 DEF nearest
  <2> QED BY <2>2, <2>3, <2>4
<1>7. T = Nat
  <2> HIDE DEF T
  <2>1. T \in SUBSET Nat
    BY DEF T
  <2> QED BY <1>5, <1>6, <2>1, AllNaturals
<1>8. rpos[i] + rpos[j] + 1 \in T /\ rpos[i] + rpos[j] < rpos[i] + rpos[j] + 1
  <2>1. rpos[i] \in Nat /\ rpos[j] \in Nat
    BY <1>4
  <2> HIDE DEF T
  <2> QED BY <1>7, <2>1
<1>9. nearest(i, j)
  BY <1>8
<1> QED BY <1>1, <1>9

(* NewIdom goes over the edges: after the first k it has the nearest block *)
(* above all those with an immediate dominator that they lead from.        *)
KnownInto(b, k) == {edges[j][1] : j \in {i \in 1 .. k : edges[i][2] = b /\ edges[i][1] \in Known}}
AboveAll(S) == {a \in Known : \A p \in S : a \in Above(p)}

NextIdom(b, k, new) ==
  IF edges[k][2] # b \/ idom[edges[k][1]] = -1 THEN new
  ELSE IF new = -1 THEN edges[k][1] ELSE Intersect(edges[k][1], new)
IsNewIdom(g, b) == g = [k \in 0 .. Len(edges) |-> IF k = 0 THEN -1 ELSE NextIdom(b, k, g[k - 1])]

LEMMA NextIdomIsKnown ==
  ASSUME LeadsUp, NEW b, NEW k \in 1 .. Len(edges), NEW new \in Known \cup {-1}
  PROVE  NextIdom(b, k, new) \in Known \cup {-1}
<1>1. edges[k][1] \in Blocks
  BY EdgesAreIndexed DEF LeadsUp, Ordered, FlowGraph
<1>2. idom[edges[k][1]] # -1 => edges[k][1] \in Known
  BY <1>1 DEF Known
<1>3. new # -1 /\ edges[k][1] \in Known => Intersect(edges[k][1], new) \in Known
  BY MeetIsNearest, GoingUp DEF Both
<1> QED BY <1>2, <1>3 DEF NextIdom

LEMMA NewIdomExists ==
  ASSUME LeadsUp, NEW b
  PROVE  \E g : IsNewIdom(g, b)
<1> DEFINE S == Known \cup {-1}
           F == [x \in Nat \X S |-> IF x[1] \in 1 .. Len(edges) THEN NextIdom(b, x[1], x[2]) ELSE -1]
<1>1. Len(edges) \in Nat
  BY EdgesAreIndexed DEF LeadsUp, Ordered
<1>2. F \in [Nat \X S -> S]
  BY NextIdomIsKnown
<1>3. \A k \in 1 .. Len(edges) : \A new \in S : F[<<k, new>>] = NextIdom(b, k, new)
  <2> SUFFICES ASSUME NEW k \in 1 .. Len(edges), NEW new \in S
               PROVE  F[<<k, new>>] = NextIdom(b, k, new)
    OBVIOUS
  <2>1. <<k, new>> \in Nat \X S
    BY <1>1
  <2> HIDE DEF S
  <2> QED BY <2>1
<1> HIDE DEF F, S
<1>4. PICK h \in [0 .. Len(edges) -> S] : IsIteration(h, F, -1, Len(edges))
  <2>1. -1 \in S
    BY DEF S
  <2> QED BY <1>1, <1>2, <2>1, IterationTo
<1>5. ASSUME NEW k \in 0 .. Len(edges)
      PROVE  h[k] = IF k = 0 THEN -1 ELSE NextIdom(b, k, h[k - 1])
  <2>1. CASE k = 0
    BY <1>4, <2>1 DEF IsIteration
  <2>2. CASE k # 0
    <3>1. k - 1 \in 0 .. Len(edges) - 1 /\ k - 1 \in 0 .. Len(edges) /\ (k - 1) + 1 = k
          /\ k \in 1 .. Len(edges)
      BY <1>1, <2>2
    <3>2. h[(k - 1) + 1] = F[<<(k - 1) + 1, h[k - 1]>>]
      BY <1>4, <3>1 DEF IsIteration
    <3>3. h[k] = F[<<k, h[k - 1]>>]
      BY <3>1, <3>2
    <3>4. h[k - 1] \in S
      BY <1>4, <3>1
    <3> QED BY <1>3, <2>2, <3>1, <3>3, <3>4
  <2> QED BY <2>1, <2>2
<1>6. h = [k \in 0 .. Len(edges) |-> h[k]]
  BY <1>4
<1>7. IsNewIdom(h, b)
  BY <1>5, <1>6 DEF IsNewIdom
<1> QED BY <1>7

LEMMA NewIdomIsNearest ==
  ASSUME LeadsUp, NEW b
  PROVE  IF KnownInto(b, Len(edges)) = {} THEN NewIdom(b) = -1
         ELSE /\ NewIdom(b) \in AboveAll(KnownInto(b, Len(edges)))
              /\ AboveAll(KnownInto(b, Len(edges))) \subseteq Above(NewIdom(b))
<1> DEFINE g == CHOOSE h : IsNewIdom(h, b)
<1>1. NewIdom(b) = g[Len(edges)]
  BY DEF NewIdom, IsNewIdom, NextIdom
<1>2. IsNewIdom(g, b)
  BY NewIdomExists
<1> HIDE DEF g
<1>3. Len(edges) \in Nat
  BY EdgesAreIndexed DEF LeadsUp, Ordered
<1>4. \A k \in 0 .. Len(edges) : g[k] = IF k = 0 THEN -1 ELSE NextIdom(b, k, g[k - 1])
  BY <1>2 DEF IsNewIdom
<1> DEFINE nearest(k) == IF KnownInto(b, k) = {} THEN g[k] = -1
                         ELSE /\ g[k] \in AboveAll(KnownInto(b, k))
                              /\ AboveAll(KnownInto(b, k)) \subseteq Above(g[k])
           T == {k \in Nat : k <= Len(edges) => nearest(k)}
<1>5. 0 \in T
  <2>1. KnownInto(b, 0) = {} /\ g[0] = -1
    BY <1>3, <1>4 DEF KnownInto
  <2> QED BY <2>1
<1>6. ASSUME NEW k \in T PROVE k + 1 \in T
  <2> SUFFICES ASSUME k + 1 <= Len(edges) PROVE nearest(k + 1)
    BY <1>6
  <2> DEFINE p == edges[k + 1][1]
             S == KnownInto(b, k)
             S2 == KnownInto(b, k + 1)
  <2>1. /\ k \in Nat /\ k + 1 \in 1 .. Len(edges) /\ k + 1 \in 0 .. Len(edges) /\ (k + 1) - 1 = k
        /\ k + 1 # 0 /\ nearest(k)
    BY <1>3, <1>6
  <2>2. g[k + 1] = NextIdom(b, k + 1, g[k])
    BY <1>4, <2>1
  <2>3. p \in Blocks
    BY <2>1, EdgesAreIndexed DEF LeadsUp, Ordered, FlowGraph
  <2>4. S \subseteq Known
    BY DEF KnownInto
  <2>5. \A i : i \in 1 .. k + 1 <=> i \in 1 .. k \/ i = k + 1
    BY <2>1
  <2>6. S2 = IF edges[k + 1][2] = b /\ p \in Known THEN S \cup {p} ELSE S
    BY <2>5 DEF KnownInto
  <2>7. p \in Known <=> idom[p] # -1
    BY <2>3 DEF Known
  <2>8. IF S = {} THEN g[k] = -1
        ELSE g[k] \in AboveAll(S) /\ AboveAll(S) \subseteq Above(g[k])
    BY <2>1
  <2> HIDE DEF p, S, S2
  <2>9. CASE ~(edges[k + 1][2] = b /\ p \in Known)
    <3>1. g[k + 1] = g[k] /\ S2 = S
      BY <2>2, <2>6, <2>7, <2>9 DEF NextIdom, p
    <3> QED BY <2>8, <3>1 DEF S, S2
  <2>10. CASE edges[k + 1][2] = b /\ p \in Known /\ S = {}
    <3>1. g[k + 1] = p /\ S2 = {p}
      BY <2>2, <2>6, <2>7, <2>8, <2>10 DEF NextIdom, p
    <3>2. p \in Above(p) /\ Above(p) \subseteq Known
      BY <2>10, GoingUp
    <3>3. AboveAll(S2) = Above(p)
      BY <3>1, <3>2 DEF AboveAll
    <3> QED BY <3>1, <3>2, <3>3 DEF S2
  <2>11. CASE edges[k + 1][2] = b /\ p \in Known /\ S # {}
    <3>1. g[k] \in Known /\ g[k] # -1
      <4>1. -1 \notin Known
        BY DEF Known, LeadsUp, Ordered, FlowGraph
      <4> QED BY <2>8, <2>11, <4>1 DEF AboveAll
    <3>2. g[k + 1] = Intersect(p, g[k]) /\ S2 = S \cup {p}
      BY <2>2, <2>6, <2>7, <2>11, <3>1 DEF NextIdom, p
    <3>3. g[k + 1] \in Above(p) /\ g[k + 1] \in Above(g[k])
          /\ Above(p) \cap Above(g[k]) \subseteq Above(g[k + 1])
      BY <2>11, <3>1, <3>2, MeetIsNearest DEF Both
    <3>4. \A q \in S : Above(g[k]) \subseteq Above(q)
      BY <2>4, <2>8, <2>11, GoingUp DEF AboveAll
    <3>5. Above(p) \subseteq Known
      BY <2>11, GoingUp
    <3>6. g[k + 1] \in AboveAll(S2)
      BY <3>2, <3>3, <3>4, <3>5 DEF AboveAll
    <3>7. AboveAll(S2) \subseteq Above(g[k + 1])
      BY <2>8, <2>11, <3>2, <3>3 DEF AboveAll
    <3> QED BY <2>11, <3>2, <3>6, <3>7 DEF S2
  <2> QED BY <2>9, <2>10, <2>11
<1>7. T = Nat
  <2> HIDE DEF T
  <2>1. T \in SUBSET Nat
    BY DEF T
  <2> QED BY <1>5, <1>6, <2>1, AllNaturals
<1>8. Len(edges) \in T /\ Len(edges) <= Len(edges)
  <2> HIDE DEF T
  <2> QED BY <1>3, <1>7
<1>9. nearest(Len(edges))
  BY <1>8
<1> QED BY <1>1, <1>9

(* While make_block_immediate_dominators works: the dominators of a block  *)
(* are, but for itself, some of those of its immediate dominator.  In the  *)
(* first round each reached block is known once its place was visited.     *)
IdomInv ==
  /\ LeadsUp
  /\ visit \in 0 .. Cardinality(Blocks)
  /\ \A b \in Known \ {0} : Dominators(b) \subseteq {b} \cup Dominators(idom[b])
  /\ \A b \in Reached \ Known : visit <= rpos[b]
  /\ ~changed => \A b \in Reached \ {0} : rpos[b] < visit => idom[b] = NewIdom(b)

LEMMA DominatorsLeadUp ==
  ASSUME LeadsUp, \A c \in Known \ {0} : Dominators(c) \subseteq {c} \cup Dominators(idom[c]),
         NEW b \in Known, NEW z \in Above(b), NEW a \in Dominators(b)
  PROVE  a \in Dominators(z) \/ (a \in Above(b) /\ rpos[z] < rpos[a])
<1> DEFINE X == {c \in Above(b) : a \in Dominators(c) \/ (a \in Above(b) /\ rpos[c] < rpos[a])}
<1>1. b \in X /\ X \in SUBSET Known
  BY GoingUp
<1>2. ASSUME NEW c \in X PROVE idom[c] \in X
  <2>1. c \in Above(b) /\ c \in Known /\ idom[c] \in Above(b)
    BY GoingUp
  <2>2. CASE c = 0
    BY <2>2 DEF LeadsUp
  <2>3. CASE c # 0
    <3>1. rpos[idom[c]] < rpos[c] /\ rpos[c] \in Nat /\ rpos[idom[c]] \in Nat
      BY <2>1, <2>3, KnownBlocks DEF LeadsUp
    <3>2. CASE a = c
      BY <2>1, <3>1, <3>2
    <3>3. CASE a # c /\ a \in Dominators(c)
      BY <2>1, <2>3, <3>3
    <3>4. CASE a \in Above(b) /\ rpos[c] < rpos[a]
      <4>1. rpos[a] \in Nat
        BY <3>4, GoingUp, KnownBlocks
      <4>2. rpos[idom[c]] < rpos[a]
        BY <3>1, <3>4, <4>1
      <4> QED BY <2>1, <3>4, <4>2
    <3> QED BY <3>2, <3>3, <3>4
  <2> QED BY <2>2, <2>3
<1>3. Above(b) \subseteq X
  <2> HIDE DEF X
  <2> QED BY <1>1, <1>2, AboveIsLeast
<1> QED BY <1>3

(* What NewIdom finds is below no dominator but the block.                 *)
LEMMA NewIdomIsDominated ==
  ASSUME LeadsUp, \A c \in Known \ {0} : Dominators(c) \subseteq {c} \cup Dominators(idom[c]),
         NEW b, NEW e \in Range(edges), e[2] = b, e[1] \in Known
  PROVE  /\ NewIdom(b) \in Known /\ rpos[NewIdom(b)] <= rpos[e[1]]
         /\ \A p \in Predecessors(b) \cap Known : NewIdom(b) \in Above(p)
         /\ AboveAll(Predecessors(b) \cap Known) \subseteq Above(NewIdom(b))
         /\ Dominators(b) \subseteq {b} \cup Dominators(NewIdom(b))
<1> DEFINE z == NewIdom(b)
           S == Predecessors(b) \cap Known
<1>1. FlowGraph
  BY DEF LeadsUp, Ordered
<1>2. KnownInto(b, Len(edges)) = S
  BY <1>1, EdgesAreIndexed DEF KnownInto, Predecessors
<1>3. e[1] \in S
  BY DEF Predecessors
<1>4. z \in AboveAll(S) /\ AboveAll(S) \subseteq Above(z)
  BY <1>2, <1>3, NewIdomIsNearest
<1>5. z \in Known /\ \A p \in S : z \in Above(p)
  BY <1>4 DEF AboveAll
<1>6. \A p \in S : \A c \in Above(p) : rpos[c] <= rpos[p]
  BY GoingUp
<1>7. rpos[z] <= rpos[e[1]]
  BY <1>3, <1>5, <1>6
<1> HIDE DEF z
<1>8. ASSUME NEW a \in Dominators(b), a # b, a \notin Dominators(z) PROVE FALSE
  <2>1. ASSUME NEW p \in S PROVE a \in Above(p) /\ rpos[z] < rpos[a]
    <3>1. PICK x \in Range(edges) : x[1] = p /\ x[2] = b
      BY DEF Predecessors
    <3>2. a \in Dominators(p)
      BY <1>1, <1>8, <3>1, DominatorsOfEdge
    <3> QED BY <1>5, <1>8, <3>2, DominatorsLeadUp
  <2>2. a \in Known
    BY <1>3, <2>1, GoingUp
  <2>3. a \in Above(z)
    BY <1>4, <2>1, <2>2 DEF AboveAll
  <2>4. rpos[a] <= rpos[z] /\ rpos[a] \in Nat /\ rpos[z] \in Nat
    BY <1>5, <2>2, <2>3, GoingUp, KnownBlocks
  <2> QED BY <1>3, <2>1, <2>4
<1> HIDE DEF S
<1>9. Dominators(b) \subseteq {b} \cup Dominators(z)
  BY <1>8
<1> QED BY <1>4, <1>5, <1>7, <1>9 DEF z, S

(* The block at a place is the reached one that has it, if any.            *)
LEMMA BlockAt ==
  ASSUME Ordered, visit \in Blocks
  PROVE  /\ At(visit) \in Blocks
         /\ \A b \in Reached \ {0} : rpos[b] = visit => At(visit) = b
         /\ At(visit) \in Reached \ {0} => rpos[At(visit)] = visit
<1> DEFINE bs == {b \in Blocks : rpos[b] = visit}
<1>1. Cardinality(Blocks) - 1 \in Nat /\ 0 \in Blocks /\ Reached \subseteq Blocks
  BY FS_CardinalityType, WaysFromEntry DEF Ordered, FlowGraph
<1>2. CASE bs = {}
  BY <1>1, <1>2 DEF At
<1>3. CASE bs # {}
  <2>1. \E b \in bs : \A c \in bs : c <= b
    <3>1. bs \in SUBSET (0 .. Cardinality(Blocks) - 1)
      BY DEF Ordered
    <3> HIDE DEF bs
    <3> QED BY <1>1, <1>3, <3>1, GreatestOfNaturals
  <2>2. At(visit) \in bs
    BY <1>3, <2>1 DEF At
  <2>3. ASSUME NEW b \in Reached \ {0}, rpos[b] = visit PROVE At(visit) = b
    <3>1. rpos[0] \in Nat /\ rpos[b] \in Nat /\ rpos[0] < rpos[b]
      BY <1>1 DEF Ordered
    <3>2. visit # 0 /\ visit = rpos[b]
      BY <2>3, <3>1
    <3>3. rpos[At(visit)] = visit /\ At(visit) \in Blocks
      BY <2>2
    <3>4. At(visit) \in Reached
      BY <3>2, <3>3 DEF Ordered
    <3> QED BY <3>2, <3>3, <3>4 DEF Ordered
  <2> QED BY <2>2, <2>3
<1> QED BY <1>2, <1>3

LEMMA OrderStays ==
  ASSUME Ordered, UNCHANGED <<blocks, edges, rpos>>
  PROVE  /\ Ordered' /\ Reached' = Reached /\ Blocks' = Blocks
         /\ \A b : Dominators(b)' = Dominators(b)
         /\ \A b : Predecessors(b)' = Predecessors(b)
<1>1. /\ Reached' = Reached /\ Blocks' = Blocks /\ FlowGraph'
      /\ \A b : Dominators(b)' = Dominators(b) /\ Predecessors(b)' = Predecessors(b)
  BY DEF Reached, ReachedWithout, Near, Further, Blocks, FlowGraph, Ordered, Dominators, Predecessors
<1> QED BY <1>1 DEF Ordered

LEMMA SearchStarts ==
  ASSUME Ordered, StartImmediateDominators
  PROVE  IdomInv'
<1>1. /\ idom' = [b \in Blocks |-> IF b = 0 THEN 0 ELSE -1] /\ visit' = 0
      /\ UNCHANGED <<blocks, edges, rpos>>
  BY DEF StartImmediateDominators
<1>2. Ordered' /\ Reached' = Reached /\ Blocks' = Blocks
  BY <1>1, OrderStays
<1>3. /\ 0 \in Blocks /\ 0 \in Reached /\ Reached \subseteq Blocks /\ Cardinality(Blocks) \in Nat
  BY WaysFromEntry, FS_CardinalityType DEF Ordered, FlowGraph
<1>4. Known' = {0}
  BY <1>1, <1>2, <1>3 DEF Known
<1>5. LeadsUp'
  BY <1>1, <1>2, <1>3, <1>4 DEF LeadsUp
<1>6. ASSUME NEW b \in Reached PROVE visit' <= rpos'[b] /\ ~(rpos'[b] < visit')
  <2>1. rpos[b] \in 0 .. Cardinality(Blocks) - 1
    BY <1>3 DEF Ordered
  <2>2. rpos[b] \in Int /\ 0 <= rpos[b]
    BY <1>3, <2>1
  <2>3. rpos'[b] = rpos[b]
    BY <1>1
  <2> QED BY <1>1, <2>2, <2>3
<1>7. visit' \in 0 .. Cardinality(Blocks)'
  BY <1>1, <1>2, <1>3
<1> QED BY <1>2, <1>4, <1>5, <1>6, <1>7 DEF IdomInv

(* In its turn a reached block gets the nearest block above those of its   *)
(* predecessors that are known, of which there is one with a lower place.  *)
LEMMA VisitFindsIdom ==
  ASSUME IdomInv, NEW b \in Reached \ {0}, rpos[b] <= visit
  PROVE  /\ NewIdom(b) \in Known /\ rpos[NewIdom(b)] < rpos[b]
         /\ Dominators(b) \subseteq {b} \cup Dominators(NewIdom(b))
         /\ Predecessors(b) \cap Known # {}
<1>1. PICK e \in Range(edges) : e[2] = b /\ e[1] \in Reached /\ rpos[e[1]] < rpos[b]
  BY DEF IdomInv, LeadsUp, Ordered
<1>2. /\ rpos[e[1]] \in Nat /\ rpos[b] \in Nat /\ visit \in Nat
  <2>1. b \in Blocks /\ e[1] \in Blocks
    BY <1>1, WaysFromEntry DEF IdomInv, LeadsUp, Ordered
  <2> QED BY <2>1 DEF IdomInv, LeadsUp, Ordered
<1>3. e[1] \in Known
  <2>1. ~(visit <= rpos[e[1]])
    BY <1>1, <1>2
  <2> QED BY <1>1, <2>1 DEF IdomInv
<1>4. /\ NewIdom(b) \in Known /\ rpos[NewIdom(b)] <= rpos[e[1]]
      /\ Dominators(b) \subseteq {b} \cup Dominators(NewIdom(b))
  BY <1>1, <1>3, NewIdomIsDominated DEF IdomInv
<1>5. rpos[NewIdom(b)] < rpos[b]
  <2>1. rpos[NewIdom(b)] \in Nat
    BY <1>4, KnownBlocks DEF IdomInv
  <2> QED BY <1>1, <1>2, <1>4, <2>1
<1>6. e[1] \in Predecessors(b)
  BY <1>1 DEF Predecessors
<1> QED BY <1>3, <1>4, <1>5, <1>6

(* A block that is not reached has no predecessor that is.                 *)
LEMMA UnreachedStayUnknown ==
  ASSUME LeadsUp, NEW b \in Blocks \ Reached
  PROVE  NewIdom(b) = -1 /\ idom[b] = -1
<1>1. FlowGraph
  BY DEF LeadsUp, Ordered
<1>2. KnownInto(b, Len(edges)) = {}
  <2> SUFFICES ASSUME NEW j \in 1 .. Len(edges), edges[j][2] = b, edges[j][1] \in Known
               PROVE  FALSE
    BY DEF KnownInto
  <2>1. edges[j] \in Range(edges) /\ edges[j][1] \in Reached
    BY <1>1, EdgesAreIndexed DEF LeadsUp
  <2> QED BY <1>1, <2>1, WaysFromEntry
<1>3. NewIdom(b) = -1
  BY <1>2, NewIdomIsNearest
<1> QED BY <1>3 DEF LeadsUp, Known

LEMMA VisitBlockKeepsInv ==
  ASSUME IdomInv, VisitBlock
  PROVE  IdomInv'
<1> DEFINE b == At(visit)
           z == NewIdom(b)
<1>1. /\ visit \in Blocks /\ visit' = visit + 1 /\ UNCHANGED <<blocks, edges, rpos>>
      /\ IF b = 0 \/ z = idom[b] THEN UNCHANGED <<idom, changed>>
         ELSE idom' = [idom EXCEPT ![b] = z] /\ changed' = TRUE
  BY DEF VisitBlock
<1>2. Ordered /\ LeadsUp /\ visit \in Nat /\ Cardinality(Blocks) \in Nat
  BY FS_CardinalityType DEF IdomInv, LeadsUp, Ordered, FlowGraph
<1>3. /\ Ordered' /\ Reached' = Reached /\ Blocks' = Blocks
      /\ \A c : Dominators(c)' = Dominators(c)
  BY <1>1, <1>2, OrderStays
<1>4. /\ b \in Blocks
      /\ \A c \in Reached \ {0} : rpos[c] = visit => b = c
      /\ b \in Reached \ {0} => rpos[b] = visit
  BY <1>1, <1>2, BlockAt
<1>5. visit' \in 0 .. Cardinality(Blocks)
  <2>1. visit \in 0 .. Cardinality(Blocks) - 1
    BY <1>1, <1>2 DEF Ordered
  <2> QED BY <1>1, <1>2, <2>1
<1>6. \A c \in Reached : rpos[c] \in Nat /\ c \in Blocks
  BY <1>2, WaysFromEntry DEF Ordered
<1>7. b \in Reached \ {0} => /\ z \in Known /\ rpos[z] < rpos[b]
                             /\ Dominators(b) \subseteq {b} \cup Dominators(z)
                             /\ z # -1
  <2>1. b \in Reached \ {0} => rpos[b] <= visit
    BY <1>2, <1>4
  <2>2. -1 \notin Known
    BY <1>2 DEF Known, Ordered, FlowGraph
  <2> QED BY <2>1, <2>2, VisitFindsIdom
<1>8. b \notin Reached => z = idom[b]
  BY <1>2, <1>4, UnreachedStayUnknown
<1>9. 0 \in Known
  BY <1>2, KnownBlocks
<1> HIDE DEF b, z
<1>10. CASE UNCHANGED <<idom, changed>>
  <2>1. Known' = Known /\ \A c : NewIdom(c)' = NewIdom(c)
    BY <1>1, <1>3, <1>10 DEF Known, NewIdom, Intersect
  <2>2. LeadsUp'
    BY <1>1, <1>2, <1>3, <1>10, <2>1 DEF LeadsUp
  <2>3. b # 0 => z = idom[b]
    <3>1. ~(b = 0 \/ z = idom[b]) => idom'[b] = z
      BY <1>1, <1>2, <1>4 DEF LeadsUp
    <3> QED BY <1>10, <3>1
  <2>4. ASSUME NEW c \in Reached \ Known PROVE visit + 1 <= rpos[c]
    <3>1. visit <= rpos[c]
      BY DEF IdomInv
    <3>2. c # 0
      BY <1>9
    <3>3. rpos[c] # visit
      <4> SUFFICES ASSUME rpos[c] = visit PROVE FALSE
        OBVIOUS
      <4>1. b = c
        BY <1>4, <3>2
      <4>2. idom[c] = z /\ z # -1
        BY <1>7, <2>3, <3>2, <4>1
      <4> QED BY <1>6, <4>2 DEF Known
    <3> QED BY <1>2, <1>6, <3>1, <3>3
  <2>5. ASSUME ~changed, NEW c \in Reached \ {0}, rpos[c] < visit + 1 PROVE idom[c] = NewIdom(c)
    <3>1. CASE rpos[c] < visit
      BY <2>5, <3>1 DEF IdomInv
    <3>2. CASE ~(rpos[c] < visit)
      <4>1. rpos[c] = visit
        BY <1>2, <1>6, <2>5, <3>2
      <4> QED BY <1>4, <2>3, <4>1 DEF z
    <3> QED BY <3>1, <3>2
  <2> QED BY <1>1, <1>3, <1>5, <1>10, <2>1, <2>2, <2>4, <2>5 DEF IdomInv
<1>11. CASE ~UNCHANGED <<idom, changed>>
  <2>1. b # 0 /\ idom' = [idom EXCEPT ![b] = z] /\ changed' = TRUE /\ b \in Reached \ {0}
    BY <1>1, <1>8, <1>11
  <2>2. \A c \in Blocks : idom'[c] = IF c = b THEN z ELSE idom[c]
    BY <1>2, <2>1 DEF LeadsUp
  <2>3. Known' = Known \cup {b}
    BY <1>3, <1>4, <1>7, <2>1, <2>2 DEF Known
  <2>4. \A c \in Known : c \in Blocks /\ c \in Reached /\ (c # 0 => idom[c] \in Known /\ rpos[idom[c]] < rpos[c])
    BY <1>2 DEF LeadsUp, Known
  <2>5. z \in Blocks
    BY <1>7, <2>1, <2>4
  <2>6. LeadsUp'
    <3>1. idom' \in [Blocks -> Blocks \cup {-1}]
      BY <1>2, <2>1, <2>5 DEF LeadsUp
    <3>2. idom'[0] = 0
      BY <1>2, <1>9, <2>1, <2>2, <2>4 DEF LeadsUp
    <3>3. Known' \subseteq Reached
      BY <2>1, <2>3, <2>4
    <3>4. ASSUME NEW c \in Known' \ {0} PROVE idom'[c] \in Known' /\ rpos[idom'[c]] < rpos[c]
      <4>1. CASE c = b
        BY <1>4, <1>7, <2>1, <2>2, <2>3, <4>1
      <4>2. CASE c # b
        BY <2>2, <2>3, <2>4, <4>2
      <4> QED BY <4>1, <4>2
    <3> QED BY <1>1, <1>3, <3>1, <3>2, <3>3, <3>4 DEF LeadsUp
  <2>7. ASSUME NEW c \in Known' \ {0} PROVE Dominators(c) \subseteq {c} \cup Dominators(idom'[c])
    <3>1. CASE c = b
      BY <1>4, <1>7, <2>1, <2>2, <3>1
    <3>2. CASE c # b
      <4>1. c \in Known \ {0} /\ idom'[c] = idom[c]
        BY <2>2, <2>3, <2>4, <3>2
      <4> QED BY <4>1 DEF IdomInv
    <3> QED BY <3>1, <3>2
  <2>8. ASSUME NEW c \in Reached \ Known' PROVE visit + 1 <= rpos[c]
    <3>1. visit <= rpos[c] /\ c # 0 /\ c # b
      BY <1>9, <2>3 DEF IdomInv
    <3>2. rpos[c] # visit
      BY <1>4, <3>1
    <3> QED BY <1>2, <1>6, <3>1, <3>2
  <2> QED BY <1>1, <1>3, <1>5, <2>1, <2>6, <2>7, <2>8 DEF IdomInv
<1> QED BY <1>10, <1>11

-----------------------------------------------------------------------------
(* The tree of immediate dominators: going up leads to the entry, over all *)
(* the dominators, and a block with one predecessor is below it.           *)
IsTree(id) ==
  /\ id \in [Blocks -> Blocks \cup {-1}]
  /\ id[0] = -1
  /\ \A b \in Blocks \ Reached : id[b] = -1
  /\ \A b \in Reached \ {0} :
       /\ id[b] \in Reached /\ rpos[id[b]] < rpos[b]
       /\ Dominators(b) = {b} \cup Dominators(id[b])
       /\ \A p : Predecessors(b) = {p} => id[b] = p

(* When a round has changed nothing, all that is above a block dominates   *)
(* it: a way that goes by it goes by what it is above.                     *)
LEMMA AboveDominates ==
  ASSUME LeadsUp, Known = Reached, \A b \in Reached \ {0} : idom[b] = NewIdom(b),
         \A b \in Known \ {0} : Dominators(b) \subseteq {b} \cup Dominators(idom[b]),
         NEW c \in Known, NEW a \in Above(c)
  PROVE  a \in Dominators(c)
<1> DEFINE X == {b \in Known : a \notin Above(b)}
<1>1. FlowGraph /\ a \in Known /\ a \in Blocks
  BY GoingUp, KnownBlocks DEF LeadsUp, Ordered
<1>2. a # 0 => 0 \in X
  BY GoingUp, KnownBlocks
<1>3. ASSUME NEW e \in Range(edges), e[1] \in X, e[2] # a PROVE e[2] \in X
  <2>1. e[2] \in Reached /\ e[2] # 0 /\ e[2] \in Known /\ e[1] \in Known
    BY <1>1, <1>3, WaysFromEntry DEF FlowGraph
  <2>2. e[1] \in Predecessors(e[2]) \cap Known
    BY <2>1 DEF Predecessors
  <2>3. idom[e[2]] \in Above(e[1])
    <3>1. NewIdom(e[2]) \in Above(e[1])
      BY <2>1, <2>2, NewIdomIsDominated
    <3> QED BY <2>1, <3>1
  <2>4. Above(idom[e[2]]) \subseteq Above(e[1])
    BY <2>1, <2>3, GoingUp
  <2>5. Above(e[2]) = {e[2]} \cup Above(idom[e[2]])
    BY <2>1, GoingUp
  <2> QED BY <1>3, <2>1, <2>4, <2>5
<1>4. ReachedWithout(a) \subseteq X
  <2> HIDE DEF X
  <2> QED BY <1>1, <1>2, <1>3, ReachedIsLeast
<1> QED BY <1>1, <1>4 DEF Dominators

LEMMA RoundFindsTree ==
  ASSUME IdomInv, visit \notin Blocks, ~changed
  PROVE  IsTree([idom EXCEPT ![0] = -1])
<1> DEFINE id == [idom EXCEPT ![0] = -1]
<1>1. LeadsUp /\ Ordered /\ FlowGraph /\ Cardinality(Blocks) \in Nat /\ Reached \subseteq Blocks
  BY FS_CardinalityType, WaysFromEntry DEF IdomInv, LeadsUp, Ordered, FlowGraph
<1>2. \A b \in Reached : rpos[b] \in Nat /\ rpos[b] < visit
  <2>1. visit = Cardinality(Blocks)
    BY <1>1 DEF IdomInv, Ordered
  <2>2. \A b \in Reached : rpos[b] \in 0 .. Cardinality(Blocks) - 1
    BY <1>1 DEF Ordered
  <2> QED BY <1>1, <2>1, <2>2
<1>3. Known = Reached
  <2>1. ASSUME NEW b \in Reached \ Known PROVE FALSE
    <3>1. visit <= rpos[b] /\ rpos[b] < visit /\ rpos[b] \in Nat /\ visit \in Nat
      BY <1>1, <1>2 DEF IdomInv
    <3> QED BY <3>1
  <2> QED BY <1>1, <2>1 DEF LeadsUp
<1>4. /\ \A b \in Reached \ {0} : idom[b] = NewIdom(b)
      /\ \A b \in Known \ {0} : Dominators(b) \subseteq {b} \cup Dominators(idom[b])
  BY <1>2 DEF IdomInv
<1>5. \A b \in Blocks : id[b] = IF b = 0 THEN -1 ELSE idom[b]
  BY <1>1 DEF LeadsUp
<1>6. ASSUME NEW b \in Reached \ {0}
      PROVE  /\ idom[b] \in Reached /\ rpos[idom[b]] < rpos[b]
             /\ Dominators(b) = {b} \cup Dominators(idom[b])
             /\ \A p : Predecessors(b) = {p} => idom[b] = p
  <2>1. b \in Known /\ idom[b] \in Known /\ rpos[idom[b]] < rpos[b]
    BY <1>1, <1>3 DEF LeadsUp
  <2>2. idom[b] \in Dominators(b)
    <3>1. idom[b] \in Above(b)
      BY <1>1, <2>1, GoingUp
    <3> QED BY <1>1, <1>3, <1>4, <2>1, <3>1, AboveDominates
  <2>3. Dominators(idom[b]) \subseteq Dominators(b)
    BY <1>1, <2>2, DominanceIsTransitive
  <2>4. b \in Dominators(b)
    BY <1>1, WaysFromEntry DEF Dominators
  <2>5. ASSUME NEW p, Predecessors(b) = {p} PROVE idom[b] = p
    <3>1. PICK e \in Range(edges) : e[2] = b /\ e[1] \in Reached
      BY <1>1 DEF Ordered
    <3>2. e[1] = p /\ p \in Known /\ Predecessors(b) \cap Known = {p}
      BY <1>3, <2>5, <3>1 DEF Predecessors
    <3>3. idom[b] \in Above(p) /\ AboveAll({p}) \subseteq Above(idom[b])
      BY <1>1, <1>4, <3>1, <3>2, NewIdomIsDominated
    <3>4. p \in AboveAll({p})
      BY <1>1, <3>2, GoingUp DEF AboveAll
    <3>5. rpos[idom[b]] <= rpos[p] /\ rpos[p] <= rpos[idom[b]]
      BY <1>1, <2>1, <3>2, <3>3, <3>4, GoingUp
    <3>6. rpos[idom[b]] \in Nat /\ rpos[p] \in Nat
      BY <1>1, <2>1, <3>2, KnownBlocks
    <3>7. rpos[idom[b]] = rpos[p]
      BY <3>5, <3>6
    <3> QED BY <1>1, <2>1, <3>2, <3>7, KnownBlocks
  <2> QED BY <1>3, <1>4, <2>1, <2>2, <2>3, <2>4, <2>5
<1>7. \A b \in Blocks \ Reached : id[b] = -1
  <2>1. 0 \in Reached
    BY <1>1, WaysFromEntry
  <2> QED BY <1>3, <1>5, <2>1 DEF Known
<1>8. id \in [Blocks -> Blocks \cup {-1}] /\ id[0] = -1
  <2>1. 0 \in Blocks /\ idom \in [Blocks -> Blocks \cup {-1}]
    BY <1>1 DEF LeadsUp, FlowGraph
  <2> QED BY <2>1
<1>9. \A b \in Reached \ {0} : id[b] = idom[b]
  BY <1>1, <1>5
<1> HIDE DEF id
<1> QED BY <1>6, <1>7, <1>8, <1>9 DEF IsTree, id

(* So what dominates a block is reached and has no higher place.           *)
LEMMA DominatorsComeBefore ==
  ASSUME Ordered, NEW id, IsTree(id)
  PROVE  \A b \in Reached : /\ b \in Dominators(b) /\ Dominators(b) \subseteq Reached
                            /\ \A a \in Dominators(b) : rpos[a] <= rpos[b]
<1> DEFINE good(b) == Dominators(b) \subseteq Reached /\ \A a \in Dominators(b) : rpos[a] <= rpos[b]
           T == {n \in Nat : \A b \in Reached : rpos[b] < n => good(b)}
<1>1. FlowGraph /\ 0 \in Reached /\ Dominators(0) = {0} /\ \A b \in Reached : b \in Blocks /\ rpos[b] \in Nat
  BY WaysFromEntry DEF Ordered
<1>2. \A b \in Reached : b \in Dominators(b)
  BY <1>1, WaysFromEntry DEF Dominators
<1>3. 0 \in T
  BY <1>1
<1>4. ASSUME NEW n \in T PROVE n + 1 \in T
  <2> SUFFICES ASSUME NEW b \in Reached, rpos[b] < n + 1 PROVE good(b)
    BY <1>4
  <2>1. n \in Nat /\ \A c \in Reached : rpos[c] < n => good(c)
    BY <1>4
  <2>2. CASE b = 0
    BY <1>1, <2>2
  <2>3. CASE b # 0
    <3>1. id[b] \in Reached /\ rpos[id[b]] < rpos[b] /\ Dominators(b) = {b} \cup Dominators(id[b])
      BY <2>3 DEF IsTree
    <3>2. rpos[id[b]] < n /\ rpos[b] \in Nat /\ rpos[id[b]] \in Nat
      BY <1>1, <2>1, <3>1
    <3>3. good(id[b])
      BY <2>1, <3>1, <3>2
    <3>4. \A a \in Dominators(b) : rpos[a] <= rpos[b]
      BY <1>1, <3>1, <3>2, <3>3
    <3> QED BY <3>1, <3>3, <3>4
  <2> QED BY <2>2, <2>3
<1>5. T = Nat
  <2> HIDE DEF T
  <2>1. T \in SUBSET Nat
    BY DEF T
  <2> QED BY <1>3, <1>4, <2>1, AllNaturals
<1>6. ASSUME NEW b \in Reached PROVE good(b)
  <2>1. rpos[b] + 1 \in Nat /\ rpos[b] < rpos[b] + 1
    BY <1>1
  <2>2. rpos[b] + 1 \in T
    <3> HIDE DEF T
    <3> QED BY <1>5, <2>1
  <2> QED BY <2>1, <2>2
<1> QED BY <1>2, <1>6

(* The runner for a predecessor visits the dominators of the predecessor,  *)
(* up to those of the immediate dominator of the block.                    *)
Visited(r, i, id) ==
  IF r \in Reached
  THEN IF id[i] \in Dominators(r) THEN Dominators(r) \ Dominators(id[i]) ELSE Dominators(r)
  ELSE IF r \in {id[i], -1} THEN {} ELSE {r}
IsRun(up, i, id) ==
  up = [r \in Blocks \cup {-1} |-> IF r \in {id[i], -1} THEN {} ELSE {r} \cup up[id[r]]]

LEMMA VisitedGoesUp ==
  ASSUME Ordered, NEW id, IsTree(id), NEW i \in Blocks, NEW r \in Blocks \cup {-1}
  PROVE  Visited(r, i, id) = IF r \in {id[i], -1} THEN {} ELSE {r} \cup Visited(id[r], i, id)
<1>1. FlowGraph /\ 0 \in Reached /\ Dominators(0) = {0} /\ -1 \notin Reached
  BY WaysFromEntry DEF Ordered, FlowGraph
<1>2. Visited(-1, i, id) = {}
  BY <1>1 DEF Visited
<1>3. CASE r \notin Reached
  <2>1. r = -1 \/ id[r] = -1
    BY <1>3 DEF IsTree
  <2> QED BY <1>2, <1>3, <2>1 DEF Visited
<1>4. CASE r \in Reached /\ r = id[i]
  <2>1. r \in Dominators(r)
    BY <1>4, DominatorsComeBefore
  <2> QED BY <1>4, <2>1 DEF Visited
<1>5. CASE r = 0 /\ r # id[i]
  <2>1. id[r] = -1
    BY <1>5 DEF IsTree
  <2> QED BY <1>1, <1>2, <1>5, <2>1 DEF Visited
<1>6. CASE r \in Reached /\ r # 0 /\ r # id[i]
  <2>1. id[r] \in Reached /\ Dominators(r) = {r} \cup Dominators(id[r])
    BY <1>6 DEF IsTree
  <2>2. ASSUME id[i] \in Dominators(r) PROVE r \notin Dominators(id[i])
    <3>1. id[i] \in Reached /\ rpos[id[i]] <= rpos[r]
      BY <1>6, <2>2, DominatorsComeBefore
    <3>2. r \in Dominators(id[i]) => rpos[r] <= rpos[id[i]]
      BY <3>1, DominatorsComeBefore
    <3>3. rpos[r] # rpos[id[i]]
      BY <1>6, <3>1 DEF Ordered
    <3>4. rpos[r] \in Nat /\ rpos[id[i]] \in Nat
      BY <1>1, <1>6, <3>1, WaysFromEntry DEF Ordered
    <3> QED BY <3>1, <3>2, <3>3, <3>4
  <2>3. r # -1 /\ (id[i] \in Dominators(r) <=> id[i] \in Dominators(id[r]))
    BY <1>1, <1>6, <2>1
  <2> QED BY <1>6, <2>1, <2>2, <2>3 DEF Visited
<1> QED BY <1>3, <1>4, <1>5, <1>6

LEMMA RunnerVisits ==
  ASSUME Ordered, NEW id, IsTree(id), NEW i \in Blocks, NEW p \in Blocks
  PROVE  Runners(p, i, id) = Visited(p, i, id)
<1> DEFINE g == CHOOSE up : IsRun(up, i, id)
<1>1. Runners(p, i, id) = g[p]
  BY DEF Runners, IsRun
<1>2. \A r \in Blocks : id[r] \in Blocks \cup {-1}
  BY DEF IsTree
<1>3. IsRun(g, i, id)
  <2> DEFINE h == [r \in Blocks \cup {-1} |-> Visited(r, i, id)]
  <2>1. \A r \in Blocks \cup {-1} : h[r] = IF r \in {id[i], -1} THEN {} ELSE {r} \cup h[id[r]]
    BY <1>2, VisitedGoesUp
  <2>2. h = [r \in Blocks \cup {-1} |-> h[r]]
    OBVIOUS
  <2> HIDE DEF h
  <2>3. IsRun(h, i, id)
    BY <2>1, <2>2 DEF IsRun
  <2> HIDE DEF IsRun
  <2> QED BY <2>3
<1> HIDE DEF g
<1>4. \A r \in Blocks \cup {-1} : g[r] = IF r \in {id[i], -1} THEN {} ELSE {r} \cup g[id[r]]
  BY <1>3 DEF IsRun
<1>5. FlowGraph /\ -1 \notin Reached /\ \A b \in Reached : b \in Blocks /\ rpos[b] \in Nat
  <2>1. FlowGraph
    BY DEF Ordered
  <2>2. Reached \subseteq Blocks
    BY <2>1, WaysFromEntry
  <2> QED BY <2>1, <2>2 DEF Ordered, FlowGraph
<1>6. \A r \in (Blocks \cup {-1}) \ Reached : g[r] = Visited(r, i, id)
  <2>1. g[-1] = {}
    BY <1>4
  <2> SUFFICES ASSUME NEW r \in (Blocks \cup {-1}) \ Reached PROVE g[r] = Visited(r, i, id)
    OBVIOUS
  <2>2. CASE r \in {id[i], -1}
    BY <1>4, <2>2 DEF Visited
  <2>3. CASE r \notin {id[i], -1}
    <3>1. id[r] = -1
      BY <2>3 DEF IsTree
    <3> QED BY <1>4, <2>1, <2>3, <3>1 DEF Visited
  <2> QED BY <2>2, <2>3
<1> DEFINE T == {n \in Nat : \A r \in Reached : rpos[r] < n => g[r] = Visited(r, i, id)}
<1>7. 0 \in T
  BY <1>5
<1>8. ASSUME NEW n \in T PROVE n + 1 \in T
  <2> SUFFICES ASSUME NEW r \in Reached, rpos[r] < n + 1 PROVE g[r] = Visited(r, i, id)
    BY <1>8
  <2>1. n \in Nat /\ \A c \in Reached : rpos[c] < n => g[c] = Visited(c, i, id)
    BY <1>8
  <2>2. id[r] \in Reached => rpos[id[r]] < rpos[r]
    BY <1>5 DEF IsTree
  <2>3. id[r] \in Reached => rpos[id[r]] < n
    BY <1>5, <2>1, <2>2
  <2>4. r \in Blocks \cup {-1} /\ id[r] \in Blocks \cup {-1}
    BY <1>2, <1>5
  <2>5. g[id[r]] = Visited(id[r], i, id)
    BY <1>6, <2>1, <2>3, <2>4
  <2>6. Visited(r, i, id) = IF r \in {id[i], -1} THEN {} ELSE {r} \cup Visited(id[r], i, id)
    BY <2>4, VisitedGoesUp
  <2> QED BY <1>4, <2>4, <2>5, <2>6
<1>9. T = Nat
  <2> HIDE DEF T
  <2>1. T \in SUBSET Nat
    BY DEF T
  <2> QED BY <1>7, <1>8, <2>1, AllNaturals
<1>10. CASE p \in Reached
  <2>1. rpos[p] + 1 \in Nat /\ rpos[p] < rpos[p] + 1
    BY <1>5, <1>10
  <2>2. rpos[p] + 1 \in T
    <3> HIDE DEF T
    <3> QED BY <1>9, <2>1
  <2> QED BY <1>1, <1>10, <2>1, <2>2
<1> QED BY <1>1, <1>6, <1>10

(* The blocks whose sets of predecessors the runners leave from are those  *)
(* where a dominance ends: with one edge to it, a block is dominated by    *)
(* all that dominates where the edge comes from.                           *)
LEMMA FrontiersEndDominance ==
  ASSUME Ordered, NEW id, IsTree(id), NEW a \in Reached
  PROVE  Frontiers(id)[a] = {b \in Reached :
                               /\ \E p \in Predecessors(b) \cap Reached : a \in Dominators(p)
                               /\ a \notin Dominators(b) \ {b}}
<1>1. FlowGraph /\ Reached \subseteq Blocks
  BY WaysFromEntry DEF Ordered
<1>2. Frontiers(id)[a] = {i \in Blocks : /\ Cardinality(EdgesTo(i)) > 1
                                         /\ \E p \in Predecessors(i) : a \in Runners(p, i, id)}
  BY <1>1 DEF Frontiers
<1>3. ASSUME NEW i \in Blocks, NEW p \in Predecessors(i), p \in Reached
      PROVE  /\ i \in Reached \ {0}
             /\ Runners(p, i, id) = Dominators(p) \ Dominators(id[i])
             /\ Dominators(id[i]) = Dominators(i) \ {i}
  <2>1. PICK e \in Range(edges) : e[1] = p /\ e[2] = i
    BY <1>3 DEF Predecessors
  <2>2. i \in Reached \ {0}
    BY <1>1, <1>3, <2>1, WaysFromEntry DEF FlowGraph
  <2>3. id[i] \in Reached /\ rpos[id[i]] < rpos[i] /\ Dominators(i) = {i} \cup Dominators(id[i])
    BY <2>2 DEF IsTree
  <2>4. id[i] # i /\ rpos[id[i]] \in Nat /\ rpos[i] \in Nat
    <3>1. rpos[id[i]] \in Nat /\ rpos[i] \in Nat
      BY <1>1, <2>2, <2>3 DEF Ordered
    <3> QED BY <2>3, <3>1
  <2>5. id[i] \in Dominators(p)
    <3>1. id[i] \in Dominators(i)
      BY <2>3, DominatorsComeBefore
    <3> QED BY <1>1, <2>1, <2>4, <3>1, DominatorsOfEdge
  <2>6. Runners(p, i, id) = Dominators(p) \ Dominators(id[i])
    BY <1>1, <1>3, <2>5, RunnerVisits DEF Visited
  <2>7. i \notin Dominators(id[i])
    <3>1. i \in Dominators(id[i]) => rpos[i] <= rpos[id[i]]
      BY <2>3, DominatorsComeBefore
    <3> QED BY <2>3, <2>4, <3>1
  <2> QED BY <2>2, <2>3, <2>6, <2>7
<1>4. ASSUME NEW i \in Blocks, NEW p \in Predecessors(i), a \in Runners(p, i, id)
      PROVE  p \in Reached
  <2>1. p \in Blocks
    BY <1>1 DEF Predecessors, FlowGraph
  <2>2. p \notin Reached => Runners(p, i, id) \subseteq {p}
    BY <2>1, RunnerVisits DEF Visited
  <2> QED BY <1>4, <2>2
<1>5. ASSUME NEW i \in Reached, NEW p \in Predecessors(i), p \in Reached, a \in Dominators(p),
             a \notin Dominators(i) \ {i}
      PROVE  Cardinality(EdgesTo(i)) > 1
  <2> SUFFICES ASSUME ~(Cardinality(EdgesTo(i)) > 1) PROVE FALSE
    OBVIOUS
  <2>1. PICK e \in Range(edges) : e[1] = p /\ e[2] = i
    BY <1>5 DEF Predecessors
  <2>2. PICK k \in 1 .. Len(edges) : e = edges[k]
    BY <1>1, EdgesAreIndexed
  <2>3. k \in EdgesTo(i)
    BY <2>1, <2>2 DEF EdgesTo
  <2>4. IsFiniteSet(EdgesTo(i)) /\ Cardinality(EdgesTo(i)) \in Nat
    <3>1. EdgesTo(i) \subseteq 1 .. Len(edges)
      BY DEF EdgesTo
    <3>2. Len(edges) \in Nat /\ 1 \in Int
      BY <1>1, EdgesAreIndexed
    <3>3. IsFiniteSet(1 .. Len(edges))
      BY <3>2, FS_Interval
    <3> QED BY <3>1, <3>3, FS_Subset, FS_CardinalityType
  <2>5. {k} \subseteq EdgesTo(i) /\ IsFiniteSet({k}) /\ Cardinality({k}) = 1
    BY <2>3, FS_Singleton
  <2>6. Cardinality({k}) = Cardinality(EdgesTo(i))
    <3>1. Cardinality({k}) <= Cardinality(EdgesTo(i))
      BY <2>4, <2>5, FS_Subset
    <3> QED BY <2>4, <2>5, <3>1
  <2>7. EdgesTo(i) = {k}
    <3>1. {k} # EdgesTo(i) => Cardinality({k}) < Cardinality(EdgesTo(i))
      BY <2>4, <2>5, FS_Subset
    <3> QED BY <2>4, <2>5, <2>6, <3>1
  <2>8. \A x \in Range(edges) : x[2] = i => x = e
    <3> SUFFICES ASSUME NEW x \in Range(edges), x[2] = i PROVE x = e
      OBVIOUS
    <3>1. PICK j \in 1 .. Len(edges) : x = edges[j]
      BY <1>1, EdgesAreIndexed
    <3>2. j \in EdgesTo(i)
      BY <3>1 DEF EdgesTo
    <3> QED BY <2>2, <2>7, <3>1, <3>2
  <2>9. Predecessors(i) = {p}
    BY <2>1, <2>8 DEF Predecessors
  <2>10. i \in Reached \ {0} /\ Dominators(id[i]) = Dominators(i) \ {i}
    BY <1>1, <1>3, <1>5
  <2>11. id[i] = p
    BY <2>9, <2>10 DEF IsTree
  <2> QED BY <1>5, <2>10, <2>11
<1>6. ASSUME NEW i \in Frontiers(id)[a]
      PROVE  /\ i \in Reached
             /\ \E p \in Predecessors(i) \cap Reached : a \in Dominators(p)
             /\ a \notin Dominators(i) \ {i}
  <2>1. PICK p \in Predecessors(i) : a \in Runners(p, i, id)
    BY <1>2
  <2>2. i \in Blocks /\ p \in Reached
    BY <1>2, <1>4, <2>1
  <2> QED BY <1>3, <2>1, <2>2
<1>7. ASSUME NEW i \in Reached, NEW p \in Predecessors(i) \cap Reached, a \in Dominators(p),
             a \notin Dominators(i) \ {i}
      PROVE  i \in Frontiers(id)[a]
  <2>1. i \in Blocks /\ Cardinality(EdgesTo(i)) > 1
    BY <1>1, <1>5, <1>7
  <2>2. a \in Runners(p, i, id)
    BY <1>3, <1>7, <2>1
  <2> QED BY <1>2, <2>1, <2>2
<1> QED BY <1>6, <1>7

-----------------------------------------------------------------------------
(* The analysis from step to step: it starts with code, and ends with the  *)
(* tree of dominators and its frontiers, which the passes after it keep.   *)
FlowInv ==
  /\ stage = "graph" => IsCode(tacs)
  /\ stage = "dominance" => DominanceInv
  /\ stage = "order" => OrderInv
  /\ stage = "idom" => IdomInv
  /\ stage \notin {"graph", "dominance", "order", "idom"} =>
       Ordered /\ IsTree(idom) /\ df = Frontiers(idom)

(* What make_rpo is called with.                                           *)
LEMMA OrderStarts ==
  ASSUME FlowGraph, Blocks = 0 .. Cardinality(Blocks) - 1, UNCHANGED <<blocks, edges>>,
         rpos' = [b \in Blocks |-> 0], pos' = Cardinality(Blocks) - 1, path' = << 0 >>
  PROVE  OrderInv'
<1>1. /\ Reached' = Reached /\ Blocks' = Blocks /\ FlowGraph' /\ 0 \in Reached /\ 0 \in Blocks
      /\ Cardinality(Blocks) \in Nat
  BY WaysFromEntry, FS_CardinalityType DEF Reached, ReachedWithout, Near, Further, Blocks, FlowGraph
<1>2. HavePlace' = {} /\ Cardinality({}) = 0
  BY <1>1, FS_EmptySet DEF HavePlace
<1>3. path' \in Seq(Reached) /\ path' # <<>> /\ Len(path') = 1 /\ path'[1] = 0
  BY <1>1
<1>4. PathInv'
  BY <1>1, <1>3 DEF PathInv
<1>5. rpos' \in [Blocks -> 0 .. Cardinality(Blocks) - 1]
  <2>1. 0 \in 0 .. Cardinality(Blocks) - 1
    BY <1>1
  <2> QED BY <2>1
<1>6. PlacesInv'
  BY <1>1, <1>2, <1>5 DEF PlacesInv
<1>7. Cardinality(Blocks)' = Cardinality(Blocks)
  BY <1>1
<1> QED BY <1>1, <1>3, <1>4, <1>6, <1>7 DEF OrderInv

LEMMA MakeRpoKeepsInv ==
  ASSUME OrderInv, MakeRpo
  PROVE  OrderInv'
<1>1. path # <<>> /\ FlowGraph /\ Blocks = 0 .. Cardinality(Blocks) - 1 /\ PathInv /\ PlacesInv
  BY DEF MakeRpo, OrderInv
<1>2. UNCHANGED <<blocks, edges>>
  BY DEF MakeRpo
<1>3. FlowGraph' /\ Blocks' = Blocks
  BY <1>1, <1>2 DEF FlowGraph, Blocks
<1>4. CASE Ahead # {}
  BY <1>1, <1>3, <1>4, PushKeepsOrder DEF OrderInv
<1>5. CASE Ahead = {} /\ path[1] # 0
  BY <1>1, <1>3, <1>5, PopKeepsOrder DEF OrderInv
<1>6. CASE Ahead = {} /\ path[1] = 0
  BY <1>1, <1>3, <1>6, LastPlace DEF OrderInv
<1> QED BY <1>4, <1>5, <1>6

LEMMA EndRoundOfBlocksKeepsInv ==
  ASSUME IdomInv, EndRoundOfBlocks
  PROVE  IF changed THEN stage' = "idom" /\ IdomInv'
         ELSE stage' = "globals" /\ Ordered' /\ IsTree(idom') /\ IsTree(idom)' /\ df' = Frontiers(idom)'
<1>1. UNCHANGED <<blocks, edges, rpos>> /\ visit \notin Blocks /\ Ordered /\ LeadsUp /\ stage = "idom"
  BY DEF EndRoundOfBlocks, IdomInv, LeadsUp
<1>2. /\ Ordered' /\ Reached' = Reached /\ Blocks' = Blocks
      /\ \A b : Dominators(b)' = Dominators(b)
      /\ \A b : Predecessors(b)' = Predecessors(b)
  BY <1>1, OrderStays
<1>3. Cardinality(Blocks) \in Nat
  BY <1>1, FS_CardinalityType DEF Ordered, FlowGraph
<1>4. CASE changed
  <2>1. visit' = 0 /\ changed' = FALSE /\ UNCHANGED <<stage, idom>>
    BY <1>4 DEF EndRoundOfBlocks
  <2>2. Known' = Known
    BY <1>2, <2>1 DEF Known
  <2>3. LeadsUp'
    BY <1>1, <1>2, <2>1, <2>2 DEF LeadsUp
  <2>4. \A b \in Reached : rpos[b] \in 0 .. Cardinality(Blocks) - 1
    BY <1>1, WaysFromEntry DEF Ordered
  <2>5. \A b \in Reached : ~(rpos[b] < 0)
    BY <1>3, <2>4
  <2>6. Reached \ Known = {}
    <3>1. visit = Cardinality(Blocks)
      BY <1>1, <1>3 DEF Ordered, IdomInv
    <3>2. ASSUME NEW b \in Reached \ Known PROVE FALSE
      <4>1. visit <= rpos[b]
        BY DEF IdomInv
      <4>2. rpos[b] \in 0 .. Cardinality(Blocks) - 1
        BY <2>4
      <4> QED BY <1>3, <3>1, <4>1, <4>2
    <3> QED BY <3>2
  <2>7. visit' \in 0 .. Cardinality(Blocks)
    BY <1>3, <2>1
  <2>8. IdomInv'
    BY <1>1, <1>2, <2>1, <2>2, <2>3, <2>5, <2>6, <2>7 DEF IdomInv
  <2> QED BY <1>1, <1>4, <2>1, <2>8
<1>5. CASE ~changed
  <2>1. idom' = [idom EXCEPT ![0] = -1] /\ df' = Frontiers(idom') /\ stage' = "globals"
    BY <1>5 DEF EndRoundOfBlocks
  <2>2. IsTree(idom')
    BY <1>1, <1>5, <2>1, RoundFindsTree
  <2>3. IsTree(idom)'
    BY <1>1, <1>2, <2>2 DEF IsTree
  <2>4. Frontiers(idom)' = Frontiers(idom')
    BY <1>1, <1>2 DEF Frontiers, EdgesTo, Runners
  <2> QED BY <1>2, <1>5, <2>1, <2>2, <2>3, <2>4
<1> QED BY <1>4, <1>5

LEMMA FlowKeepsInv ==
  ASSUME FlowInv, FlowNext
  PROVE  FlowInv'
<1>1. CASE MakeControlFlowGraph
  <2>1. stage = "graph" /\ stage' = "dominance"
    BY <1>1 DEF MakeControlFlowGraph
  <2> QED BY <1>1, <2>1, GraphIsMade DEF FlowInv
<1>2. CASE VisitDominance
  <2>1. stage = "dominance" /\ stage' = "dominance"
    BY <1>2 DEF VisitDominance
  <2> QED BY <1>2, <2>1, VisitDominanceKeepsInv DEF FlowInv
<1>3. CASE EndRoundOfDominance
  <2>1. stage = "dominance"
    BY <1>3 DEF EndRoundOfDominance
  <2>2. CASE stage' = "dominance"
    <3>1. visit' = 0 /\ UNCHANGED <<blocks, edges, dom>>
      BY <1>3, <2>2 DEF EndRoundOfDominance
    <3>2. /\ Blocks' = Blocks /\ Reached' = Reached /\ (FlowGraph' <=> FlowGraph)
          /\ (ReachedFollowReached' <=> ReachedFollowReached)
          /\ \A b : Dominators(b)' = Dominators(b)
      BY <3>1 DEF Blocks, Reached, FlowGraph, ReachedFollowReached, Dominators, ReachedWithout, Near, Further
    <3>3. DominanceInv
      BY <2>1 DEF FlowInv
    <3>4. \A b \in Blocks : ~(b < visit')
      <4>1. Blocks = 0 .. Cardinality(Blocks) - 1
        BY <3>3 DEF DominanceInv
      <4>2. \A b \in 0 .. Cardinality(Blocks) - 1 : ~(b < 0)
        BY <3>3, FS_CardinalityType DEF DominanceInv, FlowGraph
      <4> QED BY <3>1, <4>1, <4>2
    <3>5. visit' \in 0 .. Cardinality(Blocks)
      BY <3>1, <3>3, FS_CardinalityType DEF DominanceInv, FlowGraph
    <3>6. DominanceInv'
      BY <3>1, <3>2, <3>3, <3>4, <3>5 DEF DominanceInv
    <3> QED BY <2>2, <3>6 DEF FlowInv
  <2>3. CASE stage' # "dominance"
    <3>1. /\ stage' = "order" /\ UNCHANGED <<blocks, edges>>
          /\ rpos' = [b \in Blocks |-> 0] /\ pos' = Cardinality(Blocks) - 1 /\ path' = <<0>>
      BY <1>3, <2>1, <2>3 DEF EndRoundOfDominance
    <3>2. FlowGraph /\ Blocks = 0 .. Cardinality(Blocks) - 1
      BY <2>1 DEF FlowInv, DominanceInv
    <3>3. OrderInv'
      BY <3>1, <3>2, OrderStarts
    <3> QED BY <3>1, <3>3 DEF FlowInv
  <2> QED BY <2>2, <2>3
<1>4. CASE MakeRpo
  <2>1. stage = "order" /\ stage' = "order"
    BY <1>4 DEF MakeRpo
  <2>2. OrderInv'
    BY <1>4, <2>1, MakeRpoKeepsInv DEF FlowInv
  <2> QED BY <2>1, <2>2 DEF FlowInv
<1>5. CASE StartImmediateDominators
  <2>1. stage = "order" /\ stage' = "idom" /\ path = <<>>
    BY <1>5 DEF StartImmediateDominators
  <2>2. Ordered
    BY <2>1 DEF FlowInv, OrderInv
  <2>3. IdomInv'
    BY <1>5, <2>2, SearchStarts
  <2> QED BY <2>1, <2>3 DEF FlowInv
<1>6. CASE VisitBlock
  <2>1. stage = "idom" /\ stage' = "idom"
    BY <1>6 DEF VisitBlock
  <2>2. IdomInv'
    BY <1>6, <2>1, VisitBlockKeepsInv DEF FlowInv
  <2> QED BY <2>1, <2>2 DEF FlowInv
<1>7. CASE EndRoundOfBlocks
  <2>1. stage = "idom" /\ IdomInv
    BY <1>7 DEF EndRoundOfBlocks, FlowInv
  <2>2. IF changed THEN stage' = "idom" /\ IdomInv'
        ELSE stage' = "globals" /\ Ordered' /\ IsTree(idom)' /\ df' = Frontiers(idom)'
    BY <1>7, <2>1, EndRoundOfBlocksKeepsInv
  <2> QED BY <2>2 DEF FlowInv
<1> QED BY <1>1, <1>2, <1>3, <1>4, <1>5, <1>6, <1>7 DEF FlowNext

(* The passes after the analysis leave what it found.                      *)
LEMMA FlowStays ==
  ASSUME FlowInv, UNCHANGED flowVars,
         \/ stage' = stage
         \/ {stage, stage'} \cap {"graph", "dominance", "order", "idom"} = {}
  PROVE  FlowInv'
<1>1. UNCHANGED <<tacs, blocks, edges, dom, path, rpos, pos, idom, visit, changed, df>>
  BY DEF flowVars
<1>2. /\ Blocks' = Blocks /\ Reached' = Reached /\ (FlowGraph' <=> FlowGraph)
      /\ (ReachedFollowReached' <=> ReachedFollowReached)
      /\ \A b : Dominators(b)' = Dominators(b) /\ Predecessors(b)' = Predecessors(b)
  BY <1>1 DEF Blocks, Reached, FlowGraph, ReachedFollowReached, Dominators, Predecessors,
              ReachedWithout, Near, Further
<1>3. /\ \A b : NewDominators(b)' = NewDominators(b)
      /\ HavePlace' = HavePlace /\ (\A b : Contains(path, b)' <=> Contains(path, b))
      /\ Known' = Known /\ \A b : NewIdom(b)' = NewIdom(b)
  BY <1>1, <1>2 DEF NewDominators, HavePlace, Contains, Known, NewIdom, Intersect
<1>4. Ordered => Ordered'
  BY <1>1, OrderStays
<1>5. DominanceInv => DominanceInv'
  BY <1>1, <1>2, <1>3 DEF DominanceInv
<1>6. PathInv => PathInv'
  BY <1>1, <1>2 DEF PathInv
<1>7. PlacesInv => PlacesInv'
  BY <1>1, <1>2, <1>3 DEF PlacesInv
<1>8. OrderInv => OrderInv'
  BY <1>1, <1>2, <1>4, <1>6, <1>7 DEF OrderInv
<1>9. LeadsUp => LeadsUp'
  BY <1>1, <1>2, <1>3, <1>4 DEF LeadsUp
<1>10. IdomInv => IdomInv'
  BY <1>1, <1>2, <1>3, <1>9 DEF IdomInv
<1>11. IsTree(idom) => IsTree(idom)'
  BY <1>1, <1>2 DEF IsTree
<1>12. Frontiers(idom)' = Frontiers(idom)
  <2>1. Frontiers(idom)' = Frontiers(idom')
    BY <1>1, <1>2 DEF Frontiers, EdgesTo, Runners
  <2> QED BY <2>1, <1>1
<1>13. CASE stage' = stage
  BY <1>1, <1>4, <1>5, <1>8, <1>10, <1>11, <1>12, <1>13 DEF FlowInv
<1>14. CASE {stage, stage'} \cap {"graph", "dominance", "order", "idom"} = {}
  BY <1>1, <1>4, <1>11, <1>12, <1>14 DEF FlowInv
<1> QED BY <1>13, <1>14

(* Where the analysis ends, a block is below the nearest of its dominators *)
(* and the frontiers are where the dominance of blocks ends.               *)
LEMMA TreeSuffices ==
  ASSUME FlowInv
  PROVE  IdomIsNearest /\ FrontierEndsDominance
<1> SUFFICES ASSUME stage = "globals" PROVE IdomIsNearest /\ FrontierEndsDominance
  BY DEF IdomIsNearest, FrontierEndsDominance, Analyzed
<1>1. Ordered /\ IsTree(idom) /\ df = Frontiers(idom)
  BY DEF FlowInv
<1>2. \A b \in Reached : b \in Blocks /\ rpos[b] \in Nat
  <2>1. Reached \subseteq Blocks
    BY <1>1, WaysFromEntry DEF Ordered
  <2> QED BY <1>1, <2>1 DEF Ordered
<1>3. ASSUME NEW b \in Reached \ {0}
      PROVE  idom[b] # b /\ Dominators(b) = {b} \cup Dominators(idom[b])
  <2>1. /\ idom[b] \in Reached /\ rpos[idom[b]] < rpos[b]
        /\ Dominators(b) = {b} \cup Dominators(idom[b])
    BY <1>1 DEF IsTree
  <2> QED BY <1>2, <2>1
<1>4. \A b \in Blocks : b \notin Reached \ {0} => idom[b] = -1
  BY <1>1 DEF IsTree
<1>5. IdomIsNearest
  BY <1>3, <1>4 DEF IdomIsNearest
<1>6. FrontierEndsDominance
  BY <1>1, FrontiersEndDominance DEF FrontierEndsDominance
<1> QED BY <1>5, <1>6
=============================================================================
